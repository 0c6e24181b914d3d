--------------------------- MODULE LocalEditsProofs ---------------------------
(* Edits of one file of one device: a merge is made against the revision a    *)
(* mutation is based on, recorded edits survive, and pushes take nothing from *)
(* the newest revision; for any number of edits, deletions, restores, crashes *)
(* and failures.                                                              *)
EXTENDS LocalEdits, TLAPS

Sending == push.pc \in {"sent", "accepted"}
BudgetNames == {"mine", "theirs", "deletes", "tombstones", "restores", "crashes", "failures"}

(* What the types of the variables leave open: how much of the bounds is      *)
(* left, and what a pull or a push under way has at hand.                     *)
Budgets ==
  /\ budget \in [BudgetNames -> Nat]
  /\ budget["mine"] <= MaxMine /\ budget["theirs"] <= MaxTheirs
  /\ budget["restores"] <= MaxRestores
  /\ budget["deletes"] <= MaxDeletes /\ budget["tombstones"] <= MaxTombstones
  /\ budget["crashes"] <= MaxCrashes /\ budget["failures"] <= MaxFailures
UnderWay ==
  /\ Len(log) >= 1
  /\ pull.pc # "idle" => pull.rev \in 1 .. Len(log)
  /\ Applying => pull.saved \in Record
  /\ Sending => push.sent \in Mutation
  /\ push.pc = "accepted" => push.rev \in 1 .. Len(log)
TypeInv == TypeOK /\ Budgets /\ UnderWay

-----------------------------------------------------------------------------
(* What the operators of the model do.                                        *)

(* Spending takes one from one of the bounds.                                 *)
LEMMA Spending ==
  ASSUME Budgets, NEW what \in BudgetNames, Spend(what)
  PROVE  /\ Budgets' /\ budget[what] > 0
         /\ budget'[what] = budget[what] - 1
         /\ \A other \in BudgetNames \ {what} : budget'[other] = budget[other]
<1>1. budget \in [BudgetNames -> Nat] /\ budget[what] \in Nat /\ budget[what] > 0
  BY DEF Budgets, Spend
<1>2. budget' = [budget EXCEPT ![what] = budget[what] - 1]
  BY DEF Spend
<1>3. /\ budget' \in [BudgetNames -> Nat]
      /\ budget'[what] = budget[what] - 1
      /\ \A other \in BudgetNames \ {what} : budget'[other] = budget[other]
  BY <1>1, <1>2
<1>4. \A other \in BudgetNames : budget'[other] <= budget[other] /\ budget[other] \in Nat
  BY <1>1, <1>3
<1>5. BudgetNames = {"mine", "theirs", "deletes", "tombstones", "restores", "crashes", "failures"}
  BY DEF BudgetNames
<1>6. Budgets'
  BY <1>3, <1>4, <1>5, BoundsAreNaturals DEF Budgets
<1>7. QED
  BY <1>1, <1>3, <1>6

(* The next edit has a number that is allowed.                                *)
LEMMA NextEditTyped ==
  ASSUME Budgets, budget["mine"] > 0 \/ budget["theirs"] > 0
  PROVE  NextEdit \in Edits
<1>1. budget["mine"] \in Nat /\ budget["theirs"] \in Nat
  BY DEF Budgets, BudgetNames
<1>2. QED
  BY <1>1, BoundsAreNaturals DEF Budgets, NextEdit, Edits

(* The queue of events stays one.                                             *)
LEMMA NoticedTyped ==
  ASSUME events \in Seq({"upsert", "delete", "changed"}),
         NEW operation \in {"upsert", "delete"}, Noticed(operation)
  PROVE  events' \in Seq({"upsert", "delete", "changed"})
BY DEF Noticed

(* The revisions there were stay as they are.                                 *)
LEMMA AppendKeeps ==
  ASSUME NEW S, NEW s \in Seq(S), NEW x \in S
  PROVE  /\ Append(s, x) \in Seq(S) /\ Len(Append(s, x)) = Len(s) + 1
         /\ Append(s, x)[Len(s) + 1] = x
         /\ \A i \in 1 .. Len(s) : Append(s, x)[i] = s[i]
OBVIOUS

(* A sequence that is not empty has a last element.                           *)
LEMMA SequenceElements ==
  ASSUME NEW S, NEW s \in Seq(S)
  PROVE  /\ Len(s) \in Nat /\ \A i \in 1 .. Len(s) : s[i] \in S
         /\ Len(s) >= 1 => Len(s) \in 1 .. Len(s) /\ s[Len(s)] \in S
         /\ s # << >> => Head(s) \in S /\ Tail(s) \in Seq(S)
OBVIOUS

(* A new mutation on a record of a file, or of one that was pending.          *)
Visible == rec.local # NoFile \/ rec.remote # NoFile \/ rec.pending # NoMutation
Records(local, text) ==
  /\ Visible
  /\ rec' = [rec EXCEPT !.local = local, !.pending = NewMutation(text)]
  /\ made' = made + 1

(* The fields of a record with a new mutation.                                *)
LEMMA RecordsEffect ==
  ASSUME rec \in Record, made \in Nat, NEW local \in MaybeText, NEW text \in MaybeText,
         Records(local, text)
  PROVE  /\ rec' \in Record /\ made' \in Nat /\ made' = made + 1
         /\ rec'.rev = rec.rev /\ rec'.remote = rec.remote /\ rec'.local = local
         /\ rec'.pending = NewMutation(text) /\ rec'.pending \in Mutation
         /\ rec'.pending # NoMutation
         /\ rec'.pending.m = made + 1 /\ rec'.pending.text = text
         /\ rec'.pending.base = rec.rev /\ rec'.pending.baseText = rec.remote
<1>1. rec.rev \in Nat /\ rec.remote \in MaybeText
  BY DEF Record
<1>2. /\ NewMutation(text) \in Mutation
      /\ NewMutation(text).m = made + 1 /\ NewMutation(text).text = text
      /\ NewMutation(text).base = rec.rev /\ NewMutation(text).baseText = rec.remote
  BY <1>1 DEF NewMutation, Mutation
<1>3. /\ rec'.rev = rec.rev /\ rec'.remote = rec.remote /\ rec'.local = local
      /\ rec'.pending = NewMutation(text) /\ rec' \in Record
  BY <1>2 DEF Records, Record
<1>4. QED
  BY <1>2, <1>3, NothingIsNothing DEF Records

(* What the recorder does with the text of a file.                            *)
LEMMA UpsertEffect ==
  ASSUME RecordUpsert(disk)
  PROVE  \/ /\ UNCHANGED <<rec, made, others, disk>>
            /\ rec.local = disk
            /\ rec.pending = NoMutation \/ rec.pending.text = disk
         \/ Records(disk, disk) /\ UNCHANGED <<others, disk>>
         \/ /\ UNCHANGED <<rec, made>> /\ rec.local = NoFile
            /\ others' = others \cup {disk} /\ disk' = NoFile
BY DEF RecordUpsert, AlreadyRecorded, Records, Visible, HasPendingDelete

(* And with a deletion.                                                       *)
LEMMA DeleteEffect ==
  ASSUME RecordDelete
  PROVE  UNCHANGED <<rec, made>> \/ Records(NoFile, NoFile)
BY DEF RecordDelete, Records, Visible

(* What becomes of the pending mutation when a pull is planned.               *)
LEMMA DecideEffect ==
  ASSUME NEW m, NEW text, NEW d \in Decide(m, text)
  PROVE  \/ m = NoMutation /\ d.kind = "none" /\ d.body = NoFile
         \/ m # NoMutation /\ d.kind = "remote" /\ d.body = NoFile /\ IsAlreadyRemote(m, text)
         \/ /\ m # NoMutation /\ d.kind = "remote" /\ d.body = NoFile /\ CanMerge(m, text)
            /\ Merge(m.baseText, disk, text) = text
         \/ /\ m # NoMutation /\ d.kind = "local" /\ CanMerge(m, text)
            /\ d.body = Merge(m.baseText, disk, text)
         \/ /\ m # NoMutation /\ d.kind = "conflict"
            /\ d.body = IF m.text # NoFile THEN disk ELSE NoFile
BY DEF Decide

(* Work under the key: the plan may no longer be fresh, nothing else.         *)
LEMMA StaleEffect ==
  ASSUME pull \in Pull, pull' = Stale(pull)
  PROVE  /\ pull' \in Pull
         /\ \/ pull' = pull /\ pull.pc # "prepared"
            \/ pull.pc = "prepared" /\ pull'.pc = "prepared" /\ ~pull'.fresh
         /\ pull'.rev = pull.rev /\ pull'.text = pull.text /\ pull'.saved = pull.saved
         /\ pull'.kind = pull.kind /\ pull'.body = pull.body /\ pull'.pc = pull.pc
         /\ pull'.by = pull.by /\ pull'.seen = pull.seen /\ pull'.skip = pull.skip
<1>1. CASE pull.pc = "prepared"
  <2>1. pull' = [pull EXCEPT !.fresh = FALSE]
    BY <1>1 DEF Stale
  <2>2. QED
    BY <1>1, <2>1 DEF Pull
<1>2. CASE pull.pc # "prepared"
  BY <1>2 DEF Stale
<1>3. QED
  BY <1>1, <1>2

(* The recorder, the scan, a requeue and a plan given up do the same kind of  *)
(* work: they take the file or its absence into the record.                   *)
Work == Deliver \/ Reconcile \/ Requeue \/ Replan
PlannedAgain == [NotPulling EXCEPT !.pc = "listed", !.by = pull.by, !.rev = pull.rev, !.text = pull.text]
Seen == queued \cup (mine \cap disk)
LEMMA WorkEffect ==
  ASSUME Work
  PROVE  /\ ~Applying /\ UNCHANGED <<log, copies, cursor, push, mine, budget>>
         /\ \/ pull' = Stale(pull) \/ pull' = NotPulling
            \/ pull.pc = "prepared" /\ pull' = PlannedAgain
         /\ up' \in {up, TRUE}
         /\ events' = events \/ (events # << >> /\ events' = Tail(events))
         /\ \/ UNCHANGED <<rec, made, others, disk, queued>>
            \/ disk # NoFile /\ queued' = Seen /\ RecordUpsert(disk)
            \/ disk # NoFile /\ queued' = Seen /\ Records(disk, disk) /\ UNCHANGED <<others, disk>>
            \/ /\ RecordDelete /\ UNCHANGED <<others, disk, queued>>
               /\ disk = NoFile \/ (events # << >> /\ Head(events) = "delete")
<1>1. CASE Deliver
  BY <1>1 DEF Deliver, Seen, SaysUpsert, SaysDelete
<1>2. CASE Reconcile
  BY <1>2 DEF Reconcile, Seen
<1>3. CASE Requeue
  BY <1>3 DEF Requeue, Seen, Records, Visible
<1>4. CASE Replan
  BY <1>4 DEF Replan, Seen, PlannedAgain, Applying
<1>5. QED
  BY <1>1, <1>2, <1>3, <1>4 DEF Work

(* The record after such work.                                                *)
LEMMA WorkTyped ==
  ASSUME TypeInv, Work
  PROVE  /\ rec' \in Record /\ made' \in Nat /\ disk' \in MaybeText /\ others' \subseteq Text
         /\ queued' \subseteq Edits
<1>1. /\ rec \in Record /\ made \in Nat /\ disk \in MaybeText /\ others \subseteq Text
      /\ queued \subseteq Edits /\ mine \subseteq Edits /\ NoFile \in MaybeText
      /\ disk # NoFile => disk \in Text
  BY DEF TypeInv, TypeOK, MaybeText
<1>2. CASE UNCHANGED <<rec, made, others, disk, queued>>
  BY <1>1, <1>2
<1>3. CASE disk # NoFile /\ queued' = Seen /\ RecordUpsert(disk)
  <2>1. queued' \subseteq Edits
    BY <1>1, <1>3 DEF Seen
  <2>2. CASE UNCHANGED <<rec, made, others, disk>>
    BY <1>1, <2>1, <2>2
  <2>3. CASE Records(disk, disk) /\ UNCHANGED <<others, disk>>
    BY <1>1, <2>1, <2>3, RecordsEffect
  <2>4. CASE UNCHANGED <<rec, made>> /\ others' = others \cup {disk} /\ disk' = NoFile
    BY <1>1, <1>3, <2>1, <2>4
  <2>5. QED
    BY <1>3, <2>2, <2>3, <2>4, UpsertEffect
<1>4. CASE disk # NoFile /\ queued' = Seen /\ Records(disk, disk) /\ UNCHANGED <<others, disk>>
  BY <1>1, <1>4, RecordsEffect DEF Seen
<1>5. CASE RecordDelete /\ UNCHANGED <<others, disk, queued>>
  BY <1>1, <1>5, RecordsEffect, DeleteEffect
<1>6. QED
  BY <1>2, <1>3, <1>4, <1>5, WorkEffect

-----------------------------------------------------------------------------
(* Types.                                                                     *)

(* The pull after an action of its own.                                       *)
LEMMA PullTyped ==
  ASSUME TypeInv, NEW pc \in {"write", "record", "merge", "checkpoint"}, pull' = [pull EXCEPT !.pc = pc]
  PROVE  /\ pull' \in Pull /\ pull'.pc = pc /\ pull'.rev = pull.rev /\ pull'.text = pull.text
         /\ pull'.by = pull.by /\ pull'.seen = pull.seen /\ pull'.fresh = pull.fresh
         /\ pull'.skip = pull.skip /\ pull'.kind = pull.kind /\ pull'.body = pull.body
         /\ pull'.saved = pull.saved
BY DEF TypeInv, TypeOK, Pull

(* The process, or its pull, starts anew.                                     *)
LEMMA NothingUnderWay ==
  /\ NotPulling \in Pull /\ NotPulling.pc = "idle" /\ NotPulling.by = "loop"
  /\ NotPushing \in Push /\ NotPushing.pc = "idle"
<1>1. NoFile \in MaybeText
  BY DEF MaybeText
<1>2. QED
  BY <1>1 DEF NotPulling, Pull, NotPushing, Push

(* A pull that lists the entry, and one that does so again.                   *)
LEMMA ListedEffect ==
  ASSUME TypeInv, NEW who \in {"loop", "history"}
  PROVE  /\ Listed(who) \in Pull /\ Listed(who).pc = "listed" /\ Listed(who).by = who
         /\ Listed(who).rev = Len(log) /\ Listed(who).text = log[Len(log)].text
         /\ Len(log) \in 1 .. Len(log) /\ log[Len(log)] \in [m : Nat, text : MaybeText]
<1>0. log \in Seq([m : Nat, text : MaybeText]) /\ Len(log) >= 1
  BY DEF TypeInv, TypeOK, UnderWay
<1>1. Len(log) \in 1 .. Len(log) /\ log[Len(log)] \in [m : Nat, text : MaybeText]
  BY <1>0, SequenceElements
<1>2. log[Len(log)].text \in MaybeText /\ Len(log) \in Nat
  BY <1>1
<1>3. QED
  BY <1>1, <1>2, NothingUnderWay DEF Listed, Head1, NotPulling, Pull

LEMMA PlannedAgainEffect ==
  ASSUME TypeInv
  PROVE  /\ PlannedAgain \in Pull /\ PlannedAgain.pc = "listed" /\ PlannedAgain.by = pull.by
         /\ PlannedAgain.rev = pull.rev /\ PlannedAgain.text = pull.text
<1>1. pull.by \in {"loop", "history"} /\ pull.rev \in Nat /\ pull.text \in MaybeText
  BY DEF TypeInv, TypeOK, Pull
<1>2. QED
  BY <1>1, NothingUnderWay DEF PlannedAgain, NotPulling, Pull

(* The plan of a pull.                                                        *)
LEMMA PrepareEffect ==
  ASSUME TypeInv, PreparePull
  PROVE  /\ pull' \in Pull /\ pull'.pc = "prepared" /\ pull'.by = pull.by /\ pull'.rev = pull.rev
         /\ pull'.text = pull.text /\ pull'.seen = disk /\ pull'.fresh /\ pull'.skip = AlreadyApplied
         /\ \E d \in Decide(rec.pending, pull.text) : pull'.kind = d.kind /\ pull'.body = d.body
<1>1. PICK d \in Decide(rec.pending, pull.text) :
        pull' = [pull EXCEPT !.pc = "prepared", !.seen = disk, !.fresh = TRUE,
                             !.skip = AlreadyApplied, !.kind = d.kind, !.body = d.body]
  BY DEF PreparePull
<1>2. /\ pull \in Pull /\ disk \in MaybeText /\ rec \in Record /\ pull.text \in MaybeText
      /\ rec.pending \in Mutation \cup {NoMutation}
  BY DEF TypeInv, TypeOK, Record, Pull
<1>3. rec.pending # NoMutation => rec.pending \in Mutation /\ rec.pending.baseText \in MaybeText
  BY <1>2 DEF Mutation
<1>4. d.kind \in {"none", "remote", "local", "conflict"} /\ d.body \in MaybeText
  <2>1. CASE d.kind = "local" /\ CanMerge(rec.pending, pull.text)
             /\ d.body = Merge(rec.pending.baseText, disk, pull.text) /\ rec.pending # NoMutation
    <3>1. disk \in Text /\ pull.text \in Text /\ rec.pending.baseText \in Text
      BY <1>2, <1>3, <2>1 DEF CanMerge, MaybeText
    <3>2. QED
      BY <2>1, <3>1 DEF Merge, MaybeText, Text
  <2>2. CASE ~(d.kind = "local")
    BY <1>2, <2>2, DecideEffect DEF MaybeText
  <2>3. QED
    BY <2>1, <2>2, DecideEffect
<1>5. AlreadyApplied \in BOOLEAN
  BY DEF AlreadyApplied
<1>6. /\ pull'.pc = "prepared" /\ pull'.by = pull.by /\ pull'.rev = pull.rev
      /\ pull'.text = pull.text /\ pull'.seen = disk /\ pull'.fresh /\ pull'.skip = AlreadyApplied
      /\ pull'.kind = d.kind /\ pull'.body = d.body
  BY <1>1, <1>2 DEF Pull
<1>7. pull' \in Pull
  BY <1>1, <1>2, <1>4, <1>5 DEF Pull
<1>8. QED
  BY <1>6, <1>7

(* The apply phase begins with the record at hand.                            *)
LEMMA BeginEffect ==
  ASSUME TypeInv, BeginApply
  PROVE  /\ pull' \in Pull /\ pull'.pc = "clear" /\ pull'.saved = rec /\ pull'.by = pull.by
         /\ pull'.rev = pull.rev /\ pull'.text = pull.text /\ pull'.seen = pull.seen
         /\ pull'.skip = pull.skip /\ pull'.kind = pull.kind /\ pull'.body = pull.body
<1>1. pull \in Pull /\ rec \in Record
  BY DEF TypeInv, TypeOK
<1>2. pull' = [pull EXCEPT !.pc = "clear", !.saved = rec]
  BY DEF BeginApply
<1>3. QED
  BY <1>1, <1>2 DEF Pull

(* The coordinator's answer to a push.                                        *)
LEMMA CommitEffect ==
  ASSUME TypeInv, Commit
  PROVE  LET m == push.sent
             replay == Head1.m = m.m
             accepted == replay \/ m.base = Len(log)
         IN  /\ push.pc = "sent" /\ m \in Mutation
             /\ IF accepted /\ ~replay
                THEN log' = Append(log, [m |-> m.m, text |-> m.text])
                ELSE log' = log
             /\ push' \in Push
             /\ \/ /\ accepted /\ push'.pc = "accepted" /\ push'.sent = m /\ push'.rev = Len(log')
                \/ push'.pc = "behind"
             /\ UNCHANGED <<disk, copies, others, events, rec, cursor, pull, up, made, mine, queued, budget>>
<1> DEFINE m == push.sent
           replay == Head1.m = m.m
           accepted == replay \/ m.base = Len(log)
<1>1. push.pc = "sent" /\ m \in Mutation /\ push \in Push /\ log \in Seq([m : Nat, text : MaybeText])
  BY DEF Commit, TypeInv, TypeOK, UnderWay, Sending
<1>2. [m |-> m.m, text |-> m.text] \in [m : Nat, text : MaybeText]
  BY <1>1 DEF Mutation
<1>3. IF accepted /\ ~replay
      THEN log' = Append(log, [m |-> m.m, text |-> m.text])
      ELSE log' = log
  BY DEF Commit
<1>4. Len(log') \in Nat
  BY <1>1, <1>2, <1>3, AppendKeeps
<1>5. \/ accepted /\ push' = [push EXCEPT !.pc = "accepted", !.rev = Len(log')]
      \/ push' = [NotPushing EXCEPT !.pc = "behind"]
  BY DEF Commit
<1>6. /\ [push EXCEPT !.pc = "accepted", !.rev = Len(log')] \in Push
      /\ [push EXCEPT !.pc = "accepted", !.rev = Len(log')].pc = "accepted"
      /\ [push EXCEPT !.pc = "accepted", !.rev = Len(log')].sent = m
      /\ [push EXCEPT !.pc = "accepted", !.rev = Len(log')].rev = Len(log')
  BY <1>1, <1>4 DEF Push
<1>7. /\ [NotPushing EXCEPT !.pc = "behind"] \in Push
      /\ [NotPushing EXCEPT !.pc = "behind"].pc = "behind"
  BY NothingUnderWay DEF Push, NotPushing
<1>8. UNCHANGED <<disk, copies, others, events, rec, cursor, pull, up, made, mine, queued, budget>>
  BY DEF Commit
<1>9. QED
  BY <1>1, <1>3, <1>5, <1>6, <1>7, <1>8

(* The record after an accepted push.                                         *)
LEMMA AcknowledgedEffect ==
  ASSUME rec \in Record, NEW m \in Mutation, NEW rev \in Nat
  PROVE  LET r == Acknowledged(rec, m, rev)
         IN  /\ r \in Record /\ r.rev = rev /\ r.remote = m.text /\ r.local = rec.local
             /\ rec.pending = NoMutation \/ rec.pending.m = m.m => r.pending = NoMutation
             /\ rec.pending # NoMutation /\ rec.pending.m # m.m =>
                  /\ rec.pending \in Mutation
                  /\ r.pending \in Mutation /\ r.pending # NoMutation
                  /\ r.pending.m = rec.pending.m /\ r.pending.text = rec.pending.text
                  /\ r.pending.base = rev /\ r.pending.baseText = m.text
<1> DEFINE kept == IF rec.pending = NoMutation \/ rec.pending.m = m.m THEN NoMutation
                   ELSE [rec.pending EXCEPT !.base = rev, !.baseText = m.text]
           r == Acknowledged(rec, m, rev)
<1>1. m.text \in MaybeText /\ rec.pending \in Mutation \cup {NoMutation}
  BY DEF Mutation, Record
<1>2. ASSUME rec.pending # NoMutation, rec.pending.m # m.m
      PROVE  /\ rec.pending \in Mutation /\ kept \in Mutation /\ kept.m = rec.pending.m
             /\ kept.text = rec.pending.text /\ kept.base = rev /\ kept.baseText = m.text
             /\ kept # NoMutation
  <2>1. rec.pending \in Mutation
    BY <1>1, <1>2
  <2>2. kept = [rec.pending EXCEPT !.base = rev, !.baseText = m.text]
    BY <1>2
  <2>3. kept \in Mutation
    BY <1>1, <2>1, <2>2 DEF Mutation
  <2>4. QED
    BY <2>1, <2>2, <2>3, NothingIsNothing DEF Mutation
<1>3. kept \in Mutation \cup {NoMutation}
  BY <1>2
<1>4. r = [rec EXCEPT !.rev = rev, !.remote = m.text, !.pending = kept]
  BY DEF Acknowledged
<1> HIDE DEF kept
<1>5. r \in Record /\ r.rev = rev /\ r.remote = m.text /\ r.local = rec.local /\ r.pending = kept
  BY <1>1, <1>3, <1>4 DEF Record
<1>6. rec.pending = NoMutation \/ rec.pending.m = m.m => kept = NoMutation
  BY DEF kept
<1>7. QED
  BY <1>2, <1>5, <1>6

(* A step that adds nothing to the log and moves neither pull nor push keeps  *)
(* what is under way.                                                         *)
LEMMA UnderWayKept ==
  ASSUME UnderWay, UNCHANGED <<log, pull, push>>
  PROVE  UnderWay'
BY DEF UnderWay, Applying, Sending

(* Nor does one that adds to the log.                                         *)
LEMMA UnderWayGrows ==
  ASSUME TypeInv, NEW x \in [m : Nat, text : MaybeText], log' = Append(log, x), UNCHANGED <<pull, push>>
  PROVE  UnderWay' /\ log' \in Seq([m : Nat, text : MaybeText]) /\ Revs \subseteq Revs'
<1>1. log \in Seq([m : Nat, text : MaybeText]) /\ Len(log') = Len(log) + 1 /\ Len(log) \in Nat
      /\ log' \in Seq([m : Nat, text : MaybeText])
  BY AppendKeeps, SequenceElements DEF TypeInv, TypeOK
<1>2. UnderWay'
  BY <1>1 DEF TypeInv, UnderWay, Applying, Sending
<1>3. QED
  BY <1>1, <1>2 DEF Revs

(* What another device adds to the log.                                       *)
LEMMA RemoteStep ==
  ASSUME TypeInv, RemoteEdit \/ RemoteDelete
  PROVE  \E x \in [m : Nat, text : MaybeText] : log' = Append(log, x) /\ x.m = 0
<1>1. CASE RemoteEdit
  <2>1. NextEdit \in Edits
    BY <1>1, Spending, NextEditTyped DEF RemoteEdit, TypeInv, BudgetNames
  <2>2. Head1.text \in Text
    <3>1. log[Len(log)] \in [m : Nat, text : MaybeText]
      BY SequenceElements DEF TypeInv, TypeOK, UnderWay
    <3>2. QED
      BY <1>1, <3>1 DEF RemoteEdit, Head1, MaybeText
  <2>3. [m |-> 0, text |-> Head1.text \cup {NextEdit}] \in [m : Nat, text : MaybeText]
    BY <2>1, <2>2 DEF MaybeText, Text
  <2>4. [m |-> 0, text |-> Head1.text \cup {NextEdit}].m = 0
    OBVIOUS
  <2>5. QED
    BY <1>1, <2>3, <2>4 DEF RemoteEdit
<1>2. CASE RemoteDelete
  <2>1. [m |-> 0, text |-> NoFile] \in [m : Nat, text : MaybeText] /\ [m |-> 0, text |-> NoFile].m = 0
    BY DEF MaybeText
  <2>2. QED
    BY <1>2, <2>1 DEF RemoteDelete
<1>3. QED
  BY <1>1, <1>2

(* The world: edits and deletions of users.                                   *)
LEMMA TypeWorld ==
  ASSUME TypeInv, UserEdit \/ UserDelete \/ RemoteEdit \/ RemoteDelete
  PROVE  TypeInv'
<1>1. CASE UserEdit
  <2>1. Budgets' /\ NextEdit \in Edits
    BY <1>1, Spending, NextEditTyped DEF UserEdit, TypeInv, BudgetNames
  <2>2. disk \in Text
    BY <1>1 DEF UserEdit, TypeInv, TypeOK, MaybeText
  <2>3. disk' \in MaybeText /\ mine' \subseteq Edits
    BY <1>1, <2>1, <2>2 DEF UserEdit, TypeInv, TypeOK, MaybeText, Text
  <2>4. events' \in Seq({"upsert", "delete", "changed"})
    BY <1>1, NoticedTyped DEF UserEdit, TypeInv, TypeOK
  <2>5. UnderWay' /\ Revs' = Revs
    BY <1>1, UnderWayKept DEF UserEdit, TypeInv, Revs
  <2>6. QED
    BY <1>1, <2>1, <2>3, <2>4, <2>5 DEF UserEdit, TypeInv, TypeOK
<1>2. CASE UserDelete
  <2>1. Budgets'
    BY <1>2, Spending DEF UserDelete, TypeInv, BudgetNames
  <2>2. events' \in Seq({"upsert", "delete", "changed"})
    BY <1>2, NoticedTyped DEF UserDelete, TypeInv, TypeOK
  <2>3. UnderWay' /\ Revs' = Revs
    BY <1>2, UnderWayKept DEF UserDelete, TypeInv, Revs
  <2>4. QED
    BY <1>2, <2>1, <2>2, <2>3 DEF UserDelete, TypeInv, TypeOK, MaybeText
<1>3. CASE RemoteEdit \/ RemoteDelete
  <2>1. Budgets'
    BY <1>3, Spending DEF RemoteEdit, RemoteDelete, TypeInv, BudgetNames
  <2>2. UnderWay' /\ log' \in Seq([m : Nat, text : MaybeText]) /\ Revs \subseteq Revs'
    BY <1>3, RemoteStep, UnderWayGrows DEF RemoteEdit, RemoteDelete
  <2>3. QED
    BY <1>3, <2>1, <2>2 DEF RemoteEdit, RemoteDelete, TypeInv, TypeOK
<1>4. QED
  BY <1>1, <1>2, <1>3

(* The work of recorder and scan.                                             *)
LEMMA TypeWork ==
  ASSUME TypeInv, Work
  PROVE  TypeInv'
<1>1. /\ rec' \in Record /\ made' \in Nat /\ disk' \in MaybeText /\ others' \subseteq Text
      /\ queued' \subseteq Edits
  BY WorkTyped
<1>2. events' \in Seq({"upsert", "delete", "changed"})
  <2>1. events \in Seq({"upsert", "delete", "changed"})
    BY DEF TypeInv, TypeOK
  <2>2. QED
    BY <2>1, WorkEffect, SequenceElements
<1>3. /\ pull' \in Pull /\ ~Applying'
      /\ pull'.pc # "idle" => pull.pc # "idle" /\ pull'.rev = pull.rev
  <2>1. CASE pull' = Stale(pull)
    BY <2>1, StaleEffect, WorkEffect DEF TypeInv, TypeOK, Applying
  <2>2. CASE pull' = NotPulling
    BY <2>2, NothingUnderWay DEF Applying
  <2>3. CASE pull.pc = "prepared" /\ pull' = PlannedAgain
    BY <2>3, PlannedAgainEffect DEF Applying
  <2>4. QED
    BY <2>1, <2>2, <2>3, WorkEffect
<1>4. UnderWay'
  BY <1>3, WorkEffect DEF TypeInv, UnderWay, Sending
<1>5. Budgets' /\ Revs' = Revs
  BY WorkEffect DEF TypeInv, Budgets, Revs
<1>6. up' \in BOOLEAN
  BY WorkEffect DEF TypeInv, TypeOK
<1>7. UNCHANGED <<log, copies, cursor, push, mine>>
  BY WorkEffect
<1>8. QED
  BY <1>1, <1>2, <1>3, <1>4, <1>5, <1>6, <1>7 DEF TypeInv, TypeOK

(* The push.                                                                  *)
LEMMA TypePush ==
  ASSUME TypeInv, PreparePush \/ Commit \/ AcceptPush
  PROVE  TypeInv'
<1>1. CASE PreparePush
  <2>1. rec.pending \in Mutation
    BY <1>1 DEF PreparePush, TypeInv, TypeOK, Record
  <2>2. push' \in Push /\ push'.pc = "sent" /\ push'.sent \in Mutation
    BY <1>1, <2>1, NothingUnderWay DEF PreparePush, NotPushing, Push
  <2>3. UnderWay' /\ Revs' = Revs /\ Budgets'
    BY <1>1, <2>2 DEF PreparePush, TypeInv, UnderWay, Applying, Sending, Revs, Budgets
  <2>4. QED
    BY <1>1, <2>2, <2>3 DEF PreparePush, TypeInv, TypeOK
<1>2. CASE Commit
  <2>1. /\ push.sent \in Mutation /\ push' \in Push
        /\ UNCHANGED <<disk, copies, others, events, rec, cursor, pull, up, made, mine, queued, budget>>
        /\ push'.pc = "behind" \/ (push'.pc = "accepted" /\ push'.sent = push.sent /\ push'.rev = Len(log'))
    BY <1>2, CommitEffect
  <2>2. [m |-> push.sent.m, text |-> push.sent.text] \in [m : Nat, text : MaybeText]
    BY <2>1 DEF Mutation
  <2>3. /\ log' \in Seq([m : Nat, text : MaybeText]) /\ Len(log') \in Nat /\ Len(log) \in Nat
        /\ Len(log') >= Len(log)
    <3>1. log' = log \/ log' = Append(log, [m |-> push.sent.m, text |-> push.sent.text])
      BY <1>2, CommitEffect
    <3>2. log \in Seq([m : Nat, text : MaybeText])
      BY DEF TypeInv, TypeOK
    <3>3. CASE log' = log
      BY <3>2, <3>3, SequenceElements
    <3>4. CASE log' = Append(log, [m |-> push.sent.m, text |-> push.sent.text])
      <4> DEFINE S == [m : Nat, text : MaybeText]
                 x == [m |-> push.sent.m, text |-> push.sent.text]
      <4>1. log \in Seq(S) /\ x \in S /\ log' = Append(log, x)
        BY <2>2, <3>2, <3>4
      <4> HIDE DEF S, x
      <4>2. log' \in Seq(S) /\ Len(log') = Len(log) + 1 /\ Len(log) \in Nat
        BY <4>1, AppendKeeps, SequenceElements
      <4>3. QED
        BY <4>2 DEF S
    <3>5. QED
      BY <3>1, <3>3, <3>4
  <2>4. UnderWay'
    <3>1. /\ Len(log') >= 1 /\ pull' = pull
          /\ pull.pc # "idle" => pull.rev \in 1 .. Len(log')
          /\ Applying => pull.saved \in Record
      BY <2>1, <2>3 DEF TypeInv, UnderWay
    <3>2. /\ Sending' => push'.sent \in Mutation
          /\ push'.pc = "accepted" => push'.rev \in 1 .. Len(log')
      BY <2>1, <2>3, <3>1 DEF Sending
    <3>3. QED
      BY <3>1, <3>2 DEF UnderWay, Applying
  <2>6. Revs \subseteq Revs' /\ Budgets'
    BY <2>1, <2>3 DEF TypeInv, Revs, Budgets
  <2>7. cursor' \in Revs'
    BY <2>1, <2>6 DEF TypeInv, TypeOK
  <2>5. QED
    BY <2>1, <2>3, <2>4, <2>6, <2>7 DEF TypeInv, TypeOK
<1>3. CASE AcceptPush
  <2>1. push.sent \in Mutation /\ push.rev \in 1 .. Len(log) /\ Len(log) \in Nat /\ rec \in Record
    BY <1>3, SequenceElements DEF AcceptPush, TypeInv, TypeOK, UnderWay, Sending
  <2>2. rec' \in Record
    BY <1>3, <2>1, AcknowledgedEffect DEF AcceptPush
  <2>3. cursor' \in Revs
    BY <1>3, <2>1 DEF AcceptPush, TypeInv, TypeOK, Revs
  <2>4. pull' \in Pull /\ pull'.pc = pull.pc /\ pull'.rev = pull.rev /\ pull'.saved = pull.saved
    BY <1>3, StaleEffect DEF AcceptPush, TypeInv, TypeOK
  <2>5. UnderWay' /\ Revs' = Revs /\ Budgets'
    BY <1>3, <2>4, NothingUnderWay DEF AcceptPush, TypeInv, UnderWay, Applying, Sending, Revs, Budgets
  <2>6. QED
    BY <1>3, <2>2, <2>3, <2>4, <2>5, NothingUnderWay DEF AcceptPush, TypeInv, TypeOK
<1>4. QED
  BY <1>1, <1>2, <1>3

(* The pull, up to its apply phase, and its end.                              *)
LEMMA TypePull ==
  ASSUME TypeInv, ListStates \/ SkipOldRevision \/ PreparePull \/ BeginApply \/ Checkpoint
  PROVE  TypeInv'
<1>1. CASE ListStates
  <2>1. PICK who \in {"loop", "history"} : pull' = Listed(who)
    BY <1>1 DEF ListStates
  <2>2. Budgets'
    BY <1>1, Spending DEF ListStates, TypeInv, BudgetNames, Budgets
  <2>3. push' \in Push /\ (push' = push \/ push'.pc = "idle")
    BY <1>1, NothingUnderWay DEF ListStates, TypeInv, TypeOK
  <2>4. UnderWay' /\ Revs' = Revs
    BY <1>1, <2>1, <2>3, ListedEffect DEF ListStates, TypeInv, UnderWay, Applying, Sending, Revs
  <2>5. QED
    BY <1>1, <2>1, <2>2, <2>3, <2>4, ListedEffect DEF ListStates, TypeInv, TypeOK
<1>2. CASE SkipOldRevision
  <2>1. pull' \in Pull /\ pull'.pc = "checkpoint" /\ pull'.rev = pull.rev
    BY <1>2, PullTyped DEF SkipOldRevision
  <2>2. UnderWay' /\ Revs' = Revs /\ Budgets'
    BY <1>2, <2>1 DEF SkipOldRevision, TypeInv, UnderWay, Applying, Sending, Revs, Budgets
  <2>3. QED
    BY <1>2, <2>1, <2>2 DEF SkipOldRevision, TypeInv, TypeOK
<1>3. CASE PreparePull
  <2>1. pull' \in Pull /\ pull'.pc = "prepared" /\ pull'.rev = pull.rev
    BY <1>3, PrepareEffect
  <2>2. UnderWay' /\ Revs' = Revs /\ Budgets'
    BY <1>3, <2>1 DEF PreparePull, TypeInv, UnderWay, Applying, Sending, Revs, Budgets
  <2>3. QED
    BY <1>3, <2>1, <2>2 DEF PreparePull, TypeInv, TypeOK
<1>4. CASE BeginApply
  <2>1. pull' \in Pull /\ pull'.pc = "clear" /\ pull'.rev = pull.rev /\ pull'.saved \in Record
    BY <1>4, BeginEffect DEF TypeInv, TypeOK
  <2>2. UnderWay' /\ Revs' = Revs /\ Budgets'
    BY <1>4, <2>1 DEF BeginApply, TypeInv, UnderWay, Applying, Sending, Revs, Budgets
  <2>3. QED
    BY <1>4, <2>1, <2>2 DEF BeginApply, TypeInv, TypeOK
<1>5. CASE Checkpoint
  <2>1. cursor' \in Revs
    BY <1>5, SequenceElements DEF Checkpoint, TypeInv, TypeOK, UnderWay, Revs
  <2>2. UnderWay' /\ Revs' = Revs /\ Budgets'
    BY <1>5, NothingUnderWay DEF Checkpoint, TypeInv, UnderWay, Applying, Sending, Revs, Budgets
  <2>3. QED
    BY <1>5, <2>1, <2>2, NothingUnderWay DEF Checkpoint, TypeInv, TypeOK
<1>6. QED
  BY <1>1, <1>2, <1>3, <1>4, <1>5

(* The apply phase.                                                           *)
LEMMA ConflictEffect ==
  ASSUME TypeInv, ApplyConflict
  PROVE  /\ pull.pc = "clear" /\ rec' \in Record
         /\ rec'.rev = rec.rev /\ rec'.remote = rec.remote /\ rec'.local = rec.local
         /\ rec'.pending = rec.pending \/ (pull.kind = "conflict" /\ rec'.pending = NoMutation)
         /\ pull' = [pull EXCEPT !.pc = "write"]
         /\ UNCHANGED <<log, disk, others, events, cursor, push, up, made, mine, queued, budget>>
<1>1. rec \in Record
  BY DEF TypeInv, TypeOK
<1>2. rec' = [rec EXCEPT !.pending = IF pull.kind = "conflict" THEN NoMutation ELSE rec.pending]
  BY DEF ApplyConflict
<1>3. /\ rec'.rev = rec.rev /\ rec'.remote = rec.remote /\ rec'.local = rec.local
      /\ rec'.pending = (IF pull.kind = "conflict" THEN NoMutation ELSE rec.pending) /\ rec' \in Record
  BY <1>1, <1>2 DEF Record
<1>4. QED
  BY <1>3 DEF ApplyConflict

LEMMA VaultEffect ==
  ASSUME TypeInv, ApplyVault
  PROVE  /\ pull.pc = "write" /\ rec' \in Record /\ rec'.rev = rec.rev
         /\ \/ rec' = rec
            \/ /\ pull.text = NoFile /\ rec'.remote = NoFile /\ rec'.local = NoFile
               /\ rec'.pending = NoMutation
         /\ disk' = pull.text \/ (pull.skip /\ disk' = disk)
         /\ events' \in Seq({"upsert", "delete", "changed"})
         /\ pull' = [pull EXCEPT !.pc = "record"]
         /\ UNCHANGED <<log, copies, others, cursor, push, up, made, mine, queued, budget>>
<1>1. rec \in Record /\ NoFile \in MaybeText
  BY DEF TypeInv, TypeOK, MaybeText
<1>2. /\ rec' \in Record /\ rec'.rev = rec.rev
      /\ \/ rec' = rec
         \/ /\ pull.text = NoFile /\ rec'.remote = NoFile /\ rec'.local = NoFile
            /\ rec'.pending = NoMutation
  <2>1. CASE pull.text = NoFile /\ rec.local # NoFile
    <3>1. rec' = [rec EXCEPT !.remote = NoFile, !.local = NoFile, !.pending = NoMutation]
      BY <2>1 DEF ApplyVault
    <3>2. QED
      BY <1>1, <2>1, <3>1 DEF Record
  <2>2. CASE ~(pull.text = NoFile /\ rec.local # NoFile)
    BY <1>1, <2>2 DEF ApplyVault
  <2>3. QED
    BY <2>1, <2>2
<1>4. events' \in Seq({"upsert", "delete", "changed"})
  <2>1. CASE pull.skip \/ disk = pull.text
    BY <2>1 DEF ApplyVault, TypeInv, TypeOK
  <2>2. CASE ~(pull.skip \/ disk = pull.text)
    BY <2>2, NoticedTyped DEF ApplyVault, TypeInv, TypeOK
  <2>3. QED
    BY <2>1, <2>2
<1>5. disk' = pull.text \/ (pull.skip /\ disk' = disk)
  BY DEF ApplyVault
<1>6. /\ pull.pc = "write" /\ pull' = [pull EXCEPT !.pc = "record"]
      /\ UNCHANGED <<log, copies, others, cursor, push, up, made, mine, queued, budget>>
  BY DEF ApplyVault
<1>7. QED
  BY <1>2, <1>4, <1>5, <1>6

LEMMA RecordEffect ==
  ASSUME TypeInv, ApplyRecord
  PROVE  /\ pull.pc = "record" /\ rec' \in Record /\ rec'.rev = pull.rev /\ rec'.remote = pull.text
         /\ rec'.local = pull.text /\ rec'.pending = NoMutation
         /\ pull' = [pull EXCEPT !.pc = "merge"]
         /\ UNCHANGED <<log, disk, copies, others, events, cursor, push, up, made, mine, queued, budget>>
<1>1. pull.rev \in Nat /\ pull.text \in MaybeText
  BY DEF TypeInv, TypeOK, Pull
<1>2. rec' = [rev |-> pull.rev, remote |-> pull.text, local |-> pull.text, pending |-> NoMutation]
  BY DEF ApplyRecord
<1>3. /\ rec' \in Record /\ rec'.rev = pull.rev /\ rec'.remote = pull.text
      /\ rec'.local = pull.text /\ rec'.pending = NoMutation
  BY <1>1, <1>2 DEF Record
<1>4. QED
  BY <1>3 DEF ApplyRecord

LEMMA MergeEffect ==
  ASSUME TypeInv, ApplyMerge
  PROVE  /\ pull.pc = "merge" /\ rec' \in Record /\ made' \in Nat
         /\ \/ pull.kind # "local" /\ UNCHANGED <<disk, rec, made>>
            \/ /\ pull.kind = "local" /\ disk' = pull.body /\ rec'.rev = rec.rev
               /\ rec'.remote = rec.remote /\ rec'.local = pull.body /\ made' = made + 1
               /\ rec'.pending \in Mutation /\ rec'.pending # NoMutation
               /\ rec'.pending.m = made + 1 /\ rec'.pending.text = pull.body
               /\ rec'.pending.base = pull.rev /\ rec'.pending.baseText = pull.text
         /\ events' \in Seq({"upsert", "delete", "changed"})
         /\ pull' = [pull EXCEPT !.pc = "checkpoint"]
         /\ UNCHANGED <<log, copies, others, cursor, push, up, mine, queued, budget>>
<1>1. rec \in Record /\ made \in Nat /\ pull.rev \in Nat /\ pull.text \in MaybeText
      /\ pull.body \in MaybeText
  BY DEF TypeInv, TypeOK, Pull
<1>2. CASE pull.kind = "local"
  <2> DEFINE p == [m |-> made + 1, text |-> pull.body, base |-> pull.rev, baseText |-> pull.text]
  <2>1. p \in Mutation /\ p # NoMutation
    BY <1>1, NothingIsNothing DEF Mutation
  <2>2. /\ p.m = made + 1 /\ p.text = pull.body /\ p.base = pull.rev /\ p.baseText = pull.text
    OBVIOUS
  <2>3. rec' = [rec EXCEPT !.local = pull.body, !.pending = p]
    BY <1>2 DEF ApplyMerge
  <2> HIDE DEF p
  <2>4. /\ rec' \in Record /\ rec'.rev = rec.rev /\ rec'.remote = rec.remote
        /\ rec'.local = pull.body /\ rec'.pending = p
    BY <1>1, <2>1, <2>3 DEF Record
  <2>5. events' \in Seq({"upsert", "delete", "changed"})
    BY <1>2, NoticedTyped DEF ApplyMerge, TypeInv, TypeOK
  <2>6. disk' = pull.body /\ made' = made + 1 /\ made' \in Nat
    BY <1>1, <1>2 DEF ApplyMerge
  <2>7. QED
    BY <1>2, <2>1, <2>2, <2>4, <2>5, <2>6 DEF ApplyMerge
<1>3. CASE pull.kind # "local"
  BY <1>1, <1>3 DEF ApplyMerge, TypeInv, TypeOK
<1>4. QED
  BY <1>2, <1>3

LEMMA TypeApply ==
  ASSUME TypeInv, Apply
  PROVE  TypeInv'
<1>1. CASE ApplyConflict
  <2>1. copies' \subseteq Text
    BY <1>1 DEF ApplyConflict, TypeInv, TypeOK, Pull, MaybeText
  <2>2. pull' \in Pull /\ pull'.pc = "write" /\ pull'.rev = pull.rev /\ pull'.saved = pull.saved
    BY <1>1, ConflictEffect, PullTyped
  <2>3. UnderWay' /\ Revs' = Revs /\ Budgets'
    BY <1>1, <2>2, ConflictEffect DEF TypeInv, UnderWay, Applying, Sending, Revs, Budgets
  <2>4. QED
    BY <1>1, <2>1, <2>2, <2>3, ConflictEffect DEF TypeInv, TypeOK
<1>2. CASE ApplyVault
  <2>1. disk' \in MaybeText
    BY <1>2, VaultEffect DEF TypeInv, TypeOK, Pull
  <2>2. pull' \in Pull /\ pull'.pc = "record" /\ pull'.rev = pull.rev /\ pull'.saved = pull.saved
    BY <1>2, VaultEffect, PullTyped
  <2>3. UnderWay' /\ Revs' = Revs /\ Budgets'
    BY <1>2, <2>2, VaultEffect DEF TypeInv, UnderWay, Applying, Sending, Revs, Budgets
  <2>4. QED
    BY <1>2, <2>1, <2>2, <2>3, VaultEffect DEF TypeInv, TypeOK
<1>3. CASE ApplyRecord
  <2>1. pull' \in Pull /\ pull'.pc = "merge" /\ pull'.rev = pull.rev /\ pull'.saved = pull.saved
    BY <1>3, RecordEffect, PullTyped
  <2>2. UnderWay' /\ Revs' = Revs /\ Budgets'
    BY <1>3, <2>1, RecordEffect DEF TypeInv, UnderWay, Applying, Sending, Revs, Budgets
  <2>3. QED
    BY <1>3, <2>1, <2>2, RecordEffect DEF TypeInv, TypeOK
<1>4. CASE ApplyMerge
  <2>1. disk' \in MaybeText
    BY <1>4, MergeEffect DEF TypeInv, TypeOK, Pull
  <2>2. pull' \in Pull /\ pull'.pc = "checkpoint" /\ pull'.rev = pull.rev
    BY <1>4, MergeEffect, PullTyped
  <2>3. UnderWay' /\ Revs' = Revs /\ Budgets'
    BY <1>4, <2>2, MergeEffect DEF TypeInv, UnderWay, Applying, Sending, Revs, Budgets
  <2>4. QED
    BY <1>4, <2>1, <2>2, <2>3, MergeEffect DEF TypeInv, TypeOK
<1>5. QED
  BY <1>1, <1>2, <1>3, <1>4 DEF Apply

(* What a stop of the process leaves.                                         *)
LEMMA CrashEffect ==
  ASSUME TypeInv, Crash
  PROVE  /\ budget["crashes"] > 0 /\ Budgets'
         /\ events' = << >> /\ pull' = NotPulling /\ push' = NotPushing /\ up' = FALSE
         /\ UNCHANGED <<log, copies, others, cursor, mine, queued>>
         /\ rec' \in Record /\ made' \in Nat
         /\ \/ UNCHANGED <<disk, rec, made>>
            \/ disk # NoFile /\ ~Applying /\ UNCHANGED disk /\ Records(rec.local, disk)
            \/ /\ ~Applying /\ UNCHANGED <<disk, made>>
               /\ rec'.rev = rec.rev /\ rec'.remote = rec.remote /\ rec'.local = NoFile
               /\ rec'.pending = NoMutation
               /\ rec.local # NoFile \/ rec.remote # NoFile
               /\ disk = NoFile \/ (events # << >> /\ Head(events) = "delete")
            \/ /\ pull.pc = "merge" /\ pull.kind = "local" /\ disk' = pull.body
               /\ UNCHANGED <<rec, made>>
<1>1. /\ rec \in Record /\ made \in Nat /\ NoFile \in MaybeText /\ rec.local \in MaybeText
      /\ disk \in MaybeText
  BY DEF TypeInv, TypeOK, MaybeText, Record
<1>2. Spend("crashes")
  BY DEF Crash, Restarted
<1>3. budget["crashes"] > 0 /\ Budgets'
  BY <1>2, Spending DEF TypeInv, BudgetNames
<1>4. CASE Restarted /\ UNCHANGED <<rec, made>>
  BY <1>1, <1>3, <1>4 DEF Restarted
<1>5. CASE /\ up /\ ~Applying /\ events # << >> /\ SaysUpsert /\ ~AlreadyRecorded(disk)
           /\ rec.local # NoFile \/ HasPendingDelete(rec)
           /\ Restarted
           /\ rec' = [rec EXCEPT !.pending = NewMutation(disk)] /\ made' = made + 1
  <2>1. rec' = [rec EXCEPT !.local = rec.local, !.pending = NewMutation(disk)]
    BY <1>1, <1>5 DEF Record
  <2>2. Records(rec.local, disk)
    BY <1>5, <2>1 DEF Records, Visible, HasPendingDelete
  <2>3. rec' \in Record /\ made' \in Nat
    BY <1>1, <2>2, RecordsEffect
  <2>4. QED
    BY <1>3, <1>5, <2>2, <2>3 DEF Restarted, SaysUpsert
<1>6. CASE /\ up /\ ~Applying /\ events # << >> /\ SaysDelete
           /\ rec.local # NoFile \/ rec.remote # NoFile
           /\ Restarted
           /\ rec' = [rec EXCEPT !.local = NoFile, !.pending = NoMutation] /\ UNCHANGED made
  <2>1. /\ rec' \in Record /\ rec'.rev = rec.rev /\ rec'.remote = rec.remote
        /\ rec'.local = NoFile /\ rec'.pending = NoMutation
    BY <1>1, <1>6 DEF Record
  <2>2. QED
    BY <1>1, <1>3, <1>6, <2>1 DEF Restarted, SaysDelete
<1>7. CASE /\ pull.pc = "merge" /\ pull.kind = "local"
           /\ Spend("crashes")
           /\ disk' = pull.body
           /\ events' = << >> /\ pull' = NotPulling /\ push' = NotPushing /\ up' = FALSE
           /\ UNCHANGED <<log, copies, others, rec, cursor, made, mine, queued>>
  BY <1>1, <1>3, <1>7
<1>8. QED
  BY <1>4, <1>5, <1>6, <1>7 DEF Crash

LEMMA TypeStops ==
  ASSUME TypeInv, Crash \/ ApplyFails
  PROVE  TypeInv'
<1>1. CASE Crash
  <2>1. disk' \in MaybeText
    BY <1>1, CrashEffect DEF TypeInv, TypeOK, Pull
  <2>2. UnderWay' /\ Revs' = Revs
    BY <1>1, CrashEffect, NothingUnderWay DEF TypeInv, UnderWay, Applying, Sending, Revs
  <2>3. events' \in Seq({"upsert", "delete", "changed"})
    BY <1>1, CrashEffect
  <2>4. QED
    BY <1>1, <2>1, <2>2, <2>3, CrashEffect, NothingUnderWay DEF TypeInv, TypeOK
<1>2. CASE ApplyFails
  <2>1. Budgets'
    BY <1>2, Spending DEF ApplyFails, TypeInv, BudgetNames
  <2>2. rec' \in Record
    BY <1>2 DEF ApplyFails, TypeInv, UnderWay
  <2>3. UnderWay' /\ Revs' = Revs
    BY <1>2, NothingUnderWay DEF ApplyFails, TypeInv, UnderWay, Applying, Sending, Revs
  <2>4. QED
    BY <1>2, <2>1, <2>2, <2>3, NothingUnderWay DEF ApplyFails, TypeInv, TypeOK
<1>3. QED
  BY <1>1, <1>2

LEMMA TypeDrop ==
  ASSUME TypeInv, DropEvent
  PROVE  TypeInv'
<1>1. events \in Seq({"upsert", "delete", "changed"})
  BY DEF TypeInv, TypeOK
<1>2. events' \in Seq({"upsert", "delete", "changed"})
  BY <1>1, SequenceElements DEF DropEvent
<1>3. UnderWay' /\ Revs' = Revs /\ Budgets'
  BY UnderWayKept DEF DropEvent, TypeInv, Revs, Budgets
<1>4. QED
  BY <1>2, <1>3 DEF DropEvent, TypeInv, TypeOK

(* The steps of the system, grouped by what they do.                          *)
LEMMA Steps ==
  ASSUME Next
  PROVE  \/ UserEdit \/ UserDelete \/ RemoteEdit \/ RemoteDelete
         \/ Work
         \/ PreparePush \/ Commit \/ AcceptPush
         \/ ListStates \/ SkipOldRevision \/ PreparePull \/ BeginApply \/ Checkpoint
         \/ Apply
         \/ Crash \/ ApplyFails
         \/ DropEvent \/ UNCHANGED vars
BY DEF Next, World, PullStep, PushStep, Done, Work

LEMMA TypeInitially ==
  ASSUME Init
  PROVE  TypeInv
<1>1. /\ {} \in MaybeText /\ [m |-> 0, text |-> {}] \in [m : Nat, text : MaybeText]
      /\ NoFile \in MaybeText
  BY DEF MaybeText, Text
<1>2. log \in Seq([m : Nat, text : MaybeText]) /\ Len(log) = 1
  BY <1>1 DEF Init
<1>3. rec \in Record
  BY <1>1 DEF Init, Record
<1>4. budget \in [BudgetNames -> Nat]
  BY BoundsAreNaturals DEF Init, BudgetNames
<1>5. Budgets
  BY <1>4, BoundsAreNaturals DEF Init, Budgets
<1>6. UnderWay
  BY <1>2, NothingUnderWay DEF Init, UnderWay, Applying, Sending
<1>7. events \in Seq({"upsert", "delete", "changed"}) /\ cursor \in Revs
  BY <1>2 DEF Init, Revs
<1>8. QED
  BY <1>1, <1>2, <1>3, <1>5, <1>6, <1>7, NothingUnderWay DEF Init, TypeInv, TypeOK

LEMMA TypeStep ==
  ASSUME TypeInv, [Next]_vars
  PROVE  TypeInv'
<1>1. CASE UNCHANGED vars
  BY <1>1 DEF vars, TypeInv, TypeOK, Budgets, UnderWay, Revs, Applying, Sending
<1>2. CASE Next
  BY <1>1, <1>2, Steps, TypeWorld, TypeWork, TypePush, TypePull, TypeApply, TypeStops, TypeDrop
<1>3. QED
  BY <1>1, <1>2

(* The state of the device has its type.                                      *)
THEOREM EditsTypeCorrect == Spec => []TypeOK
<1>1. Init => TypeInv
  BY TypeInitially
<1>2. TypeInv /\ [Next]_vars => TypeInv'
  BY TypeStep
<1>3. TypeInv => TypeOK
  BY DEF TypeInv
<1>4. QED
  BY <1>1, <1>2, <1>3, PTL DEF Spec

-----------------------------------------------------------------------------
(* What a merge is made against.                                              *)

(* A record shows a revision of the log, or that its path was lost to a       *)
(* deletion; its pending mutation is based on a revision of the log.          *)
Shows(r, l) ==
  /\ r.rev \in 1 .. Len(l)
  /\ \/ r.remote = l[r.rev].text
     \/ r.remote = NoFile /\ r.local = NoFile /\ r.pending = NoMutation
  /\ r.pending # NoMutation =>
       r.pending.base \in 1 .. Len(l) /\ r.pending.baseText = l[r.pending.base].text

\* The mutation id m stands for the text t.
InLog(l, m, t) == \E i \in 1 .. Len(l) : m # 0 /\ l[i].m = m /\ l[i].text = t
Wants(r, m, t) == r.pending # NoMutation /\ r.pending.m = m /\ r.pending.text = t
Names(m, t) ==
  \/ InLog(log, m, t) \/ Wants(rec, m, t)
  \/ Sending /\ push.sent.m = m /\ push.sent.text = t
  \/ Applying /\ Wants(pull.saved, m, t)

(* A mutation id stands for one text, and new ids are free.                   *)
NamesUnique ==
  /\ \A m \in Nat : \A t : Names(m, t) => m <= made
  /\ \A m \in Nat : \A t, u : Names(m, t) /\ Names(m, u) => t = u

(* Pull and push have texts of the log at hand.                               *)
AtHand ==
  /\ pull.pc # "idle" => pull.text = log[pull.rev].text
  /\ Applying => Shows(pull.saved, log)
  /\ pull.pc = "merge" => rec.remote = log[rec.rev].text
  /\ push.pc = "accepted" => log[push.rev].text = push.sent.text
BaseInv == TypeInv /\ Shows(rec, log) /\ AtHand /\ NamesUnique

\* The log k has all of the log l.
Extends(k, l) ==
  /\ Len(l) \in Nat /\ Len(k) \in Nat /\ Len(l) <= Len(k)
  /\ \A i \in 1 .. Len(l) : i \in 1 .. Len(k) /\ k[i] = l[i]

(* And what a commit adds.                                                    *)
LEMMA CommitStep ==
  ASSUME TypeInv, Commit
  PROVE  LET x == [m |-> push.sent.m, text |-> push.sent.text]
         IN  x \in [m : Nat, text : MaybeText] /\ (log' = log \/ log' = Append(log, x))
<1>1. [m |-> push.sent.m, text |-> push.sent.text] \in [m : Nat, text : MaybeText]
  BY CommitEffect DEF Mutation
<1>2. log' = log \/ log' = Append(log, [m |-> push.sent.m, text |-> push.sent.text])
  BY CommitEffect
<1>3. QED
  BY <1>1, <1>2

(* The log only grows.                                                        *)
LEMMA LogExtends ==
  ASSUME TypeInv, [Next]_vars
  PROVE  Extends(log', log)
<1>1. log \in Seq([m : Nat, text : MaybeText]) /\ Len(log) \in Nat
  BY SequenceElements DEF TypeInv, TypeOK
<1>2. CASE log' = log
  BY <1>1, <1>2 DEF Extends
<1>3. ASSUME NEW x \in [m : Nat, text : MaybeText], log' = Append(log, x)
      PROVE  Extends(log', log)
  BY <1>1, <1>3, AppendKeeps DEF Extends
<1>4. CASE RemoteEdit \/ RemoteDelete \/ Commit
  BY <1>2, <1>3, <1>4, RemoteStep, CommitStep
<1>5. CASE Work
  BY <1>2, <1>5, WorkEffect
<1>6. CASE Apply \/ Crash
  BY <1>2, <1>6, ConflictEffect, VaultEffect, RecordEffect, MergeEffect, CrashEffect DEF Apply
<1>7. QED
  BY <1>2, <1>4, <1>5, <1>6, Steps
     DEF UserEdit, UserDelete, PreparePush, AcceptPush, ListStates, SkipOldRevision,
         PreparePull, BeginApply, Checkpoint, ApplyFails, DropEvent, vars

(* What a record shows, it shows of a longer log as well.                     *)
LEMMA ShowsKept ==
  ASSUME NEW r, NEW l, NEW k, Extends(k, l), Shows(r, l)
  PROVE  Shows(r, k)
BY DEF Extends, Shows

LEMMA AtHandKept ==
  ASSUME BaseInv, Extends(log', log), UnderWay,
         pull'.pc # "idle" => pull.pc # "idle" /\ pull'.rev = pull.rev /\ pull'.text = pull.text,
         Applying' => Applying /\ pull' = pull /\ rec' = rec,
         push'.pc = "accepted" => push' = push
  PROVE  AtHand'
<1>1. pull'.pc # "idle" => pull'.text = log'[pull'.rev].text
  BY DEF BaseInv, AtHand, Extends, UnderWay
<1>2. Applying' => Shows(pull'.saved, log')
  BY ShowsKept DEF BaseInv, AtHand
<1>3. push'.pc = "accepted" => log'[push'.rev].text = push'.sent.text
  BY DEF BaseInv, AtHand, Extends, UnderWay
<1>4. pull'.pc = "merge" => rec'.remote = log'[rec'.rev].text
  BY DEF BaseInv, AtHand, Shows, Extends, Applying
<1>5. QED
  BY <1>1, <1>2, <1>3, <1>4 DEF AtHand

(* The names stay unique if nothing but a fresh id gets a text.               *)
LEMMA NamesKept ==
  ASSUME TypeInv, NamesUnique, NEW x, made' = made \/ made' = made + 1,
         \A m \in Nat : \A t : Names(m, t)' => Names(m, t) \/ (made' = made + 1 /\ m = made + 1 /\ t = x)
  PROVE  NamesUnique'
<1>1. made \in Nat
  BY DEF TypeInv, TypeOK
<1>2. ASSUME NEW m \in Nat, NEW t, Names(m, t)'
      PROVE  m <= made'
  BY <1>1, <1>2 DEF NamesUnique
<1>3. ASSUME NEW m \in Nat, NEW t, NEW u, Names(m, t)', Names(m, u)'
      PROVE  t = u
  <2>1. Names(m, t) \/ (m = made + 1 /\ t = x)
    BY <1>3
  <2>2. Names(m, u) \/ (m = made + 1 /\ u = x)
    BY <1>3
  <2>3. Names(m, t) \/ Names(m, u) => m # made + 1
    BY <1>1 DEF NamesUnique
  <2>4. QED
    BY <2>1, <2>2, <2>3 DEF NamesUnique
<1>4. QED
  BY <1>2, <1>3 DEF NamesUnique

(* Names, where neither log nor record changes.                               *)
LEMMA NamesQuiet ==
  ASSUME BaseInv, UNCHANGED <<log, rec, made>>,
         Sending' => push' = push,
         Applying' => Applying /\ pull'.saved = pull.saved
  PROVE  NamesUnique'
<1>1. \A m \in Nat : \A t : Names(m, t)' => Names(m, t)
  BY DEF Names, Sending
<1>2. TypeInv /\ NamesUnique
  BY DEF BaseInv
<1>3. QED
  BY <1>1, <1>2, NamesKept

LEMMA BaseQuiet ==
  ASSUME BaseInv, [Next]_vars, UNCHANGED <<log, rec, made>>,
         pull'.pc # "idle" => pull.pc # "idle" /\ pull'.rev = pull.rev /\ pull'.text = pull.text,
         Applying' => Applying /\ pull' = pull,
         Sending' => push' = push
  PROVE  BaseInv'
<1>1. TypeInv' /\ Extends(log', log) /\ UnderWay
  BY TypeStep, LogExtends DEF BaseInv, TypeInv
<1>2. AtHand'
  BY <1>1, AtHandKept DEF Sending
<1>3. NamesUnique'
  BY NamesQuiet
<1>4. Shows(rec, log)'
  BY DEF BaseInv
<1>5. QED
  BY <1>1, <1>2, <1>3, <1>4 DEF BaseInv

(* Other devices have no names for their revisions here.                      *)
LEMMA BaseRemote ==
  ASSUME BaseInv, Next, RemoteEdit \/ RemoteDelete
  PROVE  BaseInv'
<1>1. TypeInv' /\ Extends(log', log) /\ UnderWay /\ TypeInv /\ NamesUnique
  BY TypeStep, LogExtends DEF BaseInv, TypeInv
<1>2. UNCHANGED <<rec, made, pull, push>>
  BY DEF RemoteEdit, RemoteDelete
<1>3. AtHand'
  BY <1>1, <1>2, AtHandKept DEF Applying
<1>4. Shows(rec, log)'
  BY <1>1, <1>2, ShowsKept DEF BaseInv
<1>5. ASSUME NEW m \in Nat, NEW t, InLog(log', m, t)
      PROVE  InLog(log, m, t)
  <2>1. log \in Seq([m : Nat, text : MaybeText])
    BY <1>1 DEF TypeInv, TypeOK
  <2>2. PICK x \in [m : Nat, text : MaybeText] : log' = Append(log, x) /\ x.m = 0
    BY <1>1, RemoteStep
  <2>3. QED
    BY <1>5, <2>1, <2>2, AppendKeeps, SequenceElements DEF InLog
<1>6. NamesUnique'
  BY <1>1, <1>2, <1>5, NamesKept DEF Names, Sending, Applying
<1>7. QED
  BY <1>1, <1>3, <1>4, <1>6 DEF BaseInv

(* A record with a new mutation shows what it showed.                         *)
LEMMA RecordsShow ==
  ASSUME BaseInv, NEW local \in MaybeText, NEW text \in MaybeText, Records(local, text), log' = log
  PROVE  Shows(rec', log')
<1>1. rec \in Record /\ made \in Nat
  BY DEF BaseInv, TypeInv, TypeOK
<1>2. rec.rev \in 1 .. Len(log) /\ rec.remote = log[rec.rev].text
  BY DEF BaseInv, Shows, Records, Visible
<1>3. QED
  BY <1>1, <1>2, RecordsEffect DEF Shows

LEMMA RecordsName ==
  ASSUME BaseInv, NEW local \in MaybeText, NEW text \in MaybeText, Records(local, text), log' = log,
         Sending' => push' = push,
         Applying' => Applying /\ pull'.saved = pull.saved
  PROVE  NamesUnique'
<1>1. rec \in Record /\ made \in Nat /\ TypeInv /\ NamesUnique
  BY DEF BaseInv, TypeInv, TypeOK
<1>2. made' = made + 1 /\ rec'.pending.m = made + 1 /\ rec'.pending.text = text
  BY <1>1, RecordsEffect
<1>3. \A m \in Nat : \A t : Names(m, t)' => Names(m, t) \/ (m = made + 1 /\ t = text)
  BY <1>2 DEF Names, Sending, Wants
<1>4. QED
  BY <1>1, <1>2, <1>3, NamesKept

(* What recorder and scan queue is based on what the record shows.            *)
LEMMA BaseWork ==
  ASSUME BaseInv, Next, Work
  PROVE  BaseInv'
<1>1. /\ TypeInv /\ TypeInv' /\ Extends(log', log) /\ UnderWay /\ disk \in MaybeText
      /\ NoFile \in MaybeText /\ pull \in Pull
  BY TypeStep, LogExtends DEF BaseInv, TypeInv, TypeOK, MaybeText
<1>2. /\ ~Applying' /\ push' = push /\ log' = log
      /\ pull'.pc # "idle" => pull.pc # "idle" /\ pull'.rev = pull.rev /\ pull'.text = pull.text
  <2>1. CASE pull' = Stale(pull)
    BY <1>1, <2>1, StaleEffect, WorkEffect DEF Applying
  <2>2. CASE pull' = NotPulling
    BY <2>2, NothingUnderWay, WorkEffect DEF Applying
  <2>3. CASE pull.pc = "prepared" /\ pull' = PlannedAgain
    BY <1>1, <2>3, PlannedAgainEffect, WorkEffect DEF Applying
  <2>4. QED
    BY <2>1, <2>2, <2>3, WorkEffect
<1>3. AtHand'
  BY <1>1, <1>2, AtHandKept
<1>4. CASE UNCHANGED <<rec, made>>
  BY <1>1, <1>2, <1>3, <1>4, NamesQuiet DEF BaseInv
<1>5. ASSUME NEW text \in {disk, NoFile}, Records(text, text)
      PROVE  BaseInv'
  <2>1. text \in MaybeText
    BY <1>1
  <2>2. QED
    BY <1>1, <1>2, <1>3, <1>5, <2>1, RecordsShow, RecordsName DEF BaseInv
<1>6. QED
  BY <1>4, <1>5, WorkEffect, UpsertEffect, DeleteEffect

(* A commit is known by the text it was sent with.                            *)
LEMMA BaseCommit ==
  ASSUME BaseInv, Next, Commit
  PROVE  BaseInv'
<1> DEFINE x == [m |-> push.sent.m, text |-> push.sent.text]
<1>1. /\ TypeInv /\ TypeInv' /\ Extends(log', log) /\ UnderWay /\ NamesUnique /\ AtHand
      /\ log \in Seq([m : Nat, text : MaybeText])
  BY TypeStep, LogExtends DEF BaseInv, TypeInv, TypeOK
<1>2. /\ push.pc = "sent" /\ push.sent \in Mutation
      /\ UNCHANGED <<rec, pull, made>>
      /\ x.m = push.sent.m /\ x.text = push.sent.text /\ push.sent.m \in Nat /\ push.sent.m # 0
  BY <1>1, CommitEffect DEF Mutation
<1>3. x \in [m : Nat, text : MaybeText] /\ (log' = log \/ log' = Append(log, x))
  BY <1>1, CommitStep
<1>4. ASSUME NEW m \in Nat, NEW t, InLog(log', m, t)
      PROVE  InLog(log, m, t) \/ (m = push.sent.m /\ t = push.sent.text)
  <2>1. CASE log' = log
    BY <1>4, <2>1
  <2>2. CASE log' = Append(log, x)
    BY <1>1, <1>2, <1>3, <1>4, <2>2, AppendKeeps, SequenceElements DEF InLog
  <2>3. QED
    BY <1>3, <2>1, <2>2
<1>5. push'.pc = "accepted" => push'.sent = push.sent /\ push'.rev = Len(log')
                               /\ log'[push'.rev].text = push.sent.text
  <2> SUFFICES ASSUME push'.pc = "accepted"
               PROVE  log'[Len(log')].text = push.sent.text
    BY <1>1, CommitEffect
  <2>1. CASE log' = Append(log, x)
    BY <1>1, <1>2, <1>3, <2>1, AppendKeeps
  <2>2. CASE Head1.m = push.sent.m
    <3>1. log' = log
      BY <1>1, <2>2, CommitEffect
    <3>2. InLog(log, push.sent.m, log[Len(log)].text)
      BY <1>1, <1>2, <2>2, SequenceElements DEF InLog, Head1, UnderWay
    <3>3. Names(push.sent.m, log[Len(log)].text) /\ Names(push.sent.m, push.sent.text)
      BY <1>2, <3>2 DEF Names, Sending
    <3>4. QED
      BY <1>1, <1>2, <3>1, <3>3 DEF NamesUnique
  <2>3. QED
    BY <1>1, <2>1, <2>2, CommitEffect
<1>6. AtHand'
  <2>1. pull'.pc # "idle" => pull'.text = log'[pull'.rev].text
    BY <1>1, <1>2 DEF AtHand, Extends, UnderWay
  <2>2. Applying' => Shows(pull'.saved, log')
    BY <1>1, <1>2, ShowsKept DEF AtHand, Applying
  <2>3. pull'.pc = "merge" => rec'.remote = log'[rec'.rev].text
    BY <1>1, <1>2 DEF BaseInv, AtHand, Shows, Extends
  <2>4. QED
    BY <1>5, <2>1, <2>2, <2>3 DEF AtHand
<1>7. Shows(rec, log)'
  BY <1>1, <1>2, ShowsKept DEF BaseInv
<1>8. NamesUnique'
  <2>1. Sending' => push'.sent = push.sent
    BY <1>1, CommitEffect DEF Sending
  <2>2. \A m \in Nat : \A t : Names(m, t)' => Names(m, t)
    BY <1>2, <1>4, <2>1 DEF Names, Sending, Applying
  <2>3. QED
    BY <1>1, <1>2, <2>2, NamesKept
<1>9. QED
  BY <1>1, <1>6, <1>7, <1>8 DEF BaseInv

(* An accepted push moves record and newer mutation to the revision it made.  *)
LEMMA BaseAccept ==
  ASSUME BaseInv, Next, AcceptPush
  PROVE  BaseInv'
<1>1. /\ TypeInv /\ TypeInv' /\ Extends(log', log) /\ UnderWay /\ NamesUnique /\ AtHand
      /\ rec \in Record /\ pull \in Pull
  BY TypeStep, LogExtends DEF BaseInv, TypeInv, TypeOK
<1>2. /\ push.pc = "accepted" /\ push.sent \in Mutation /\ push.rev \in 1 .. Len(log)
      /\ push.rev \in Nat /\ log[push.rev].text = push.sent.text
      /\ push' = NotPushing /\ UNCHANGED <<log, made>> /\ ~Applying
      /\ rec' = IF rec.rev > push.rev THEN rec ELSE Acknowledged(rec, push.sent, push.rev)
  BY <1>1 DEF AcceptPush, UnderWay, Sending, AtHand
<1>3. /\ ~Applying' /\ pull'.pc = pull.pc /\ pull'.rev = pull.rev /\ pull'.text = pull.text
      /\ ~Sending' /\ push'.pc # "accepted"
  BY <1>1, <1>2, StaleEffect, NothingUnderWay DEF AcceptPush, Applying, Sending
<1>4. AtHand'
  BY <1>1, <1>2, <1>3, AtHandKept
<1>5. Shows(rec, log)' /\ \A m \in Nat : \A t : Wants(rec', m, t) => Wants(rec, m, t)
  <2>1. CASE rec' = rec
    BY <1>2, <2>1 DEF BaseInv
  <2>2. CASE rec' = Acknowledged(rec, push.sent, push.rev)
    BY <1>1, <1>2, <2>2, AcknowledgedEffect DEF Shows, Wants
  <2>3. QED
    BY <1>2, <2>1, <2>2
<1>6. NamesUnique'
  <2>1. \A m \in Nat : \A t : Names(m, t)' => Names(m, t)
    BY <1>2, <1>3, <1>5 DEF Names
  <2>2. QED
    BY <1>1, <1>2, <2>1, NamesKept
<1>7. QED
  BY <1>1, <1>4, <1>5, <1>6 DEF BaseInv

(* Applying a pull moves the record to the listed revision.                   *)
LEMMA BaseConflict ==
  ASSUME BaseInv, Next, ApplyConflict
  PROVE  BaseInv'
<1>1. TypeInv /\ TypeInv' /\ NamesUnique /\ AtHand /\ pull \in Pull
  BY TypeStep DEF BaseInv, TypeInv, TypeOK
<1>2. /\ pull.pc = "clear" /\ Applying /\ pull'.pc = "write"
      /\ pull'.saved = pull.saved /\ pull'.rev = pull.rev /\ pull'.text = pull.text
  BY <1>1, ConflictEffect DEF Applying, Pull
<1>3. /\ UNCHANGED <<log, push, made>> /\ rec'.rev = rec.rev /\ rec'.remote = rec.remote
      /\ rec'.local = rec.local
      /\ rec'.pending = rec.pending \/ rec'.pending = NoMutation
  BY <1>1, ConflictEffect
<1>4. AtHand' /\ Shows(rec, log)'
  BY <1>1, <1>2, <1>3 DEF BaseInv, AtHand, Shows
<1>5. \A m \in Nat : \A t : Names(m, t)' => Names(m, t)
  BY <1>2, <1>3 DEF Names, Wants, Sending
<1>6. QED
  BY <1>1, <1>3, <1>4, <1>5, NamesKept DEF BaseInv

LEMMA BaseVault ==
  ASSUME BaseInv, Next, ApplyVault
  PROVE  BaseInv'
<1>1. TypeInv /\ TypeInv' /\ NamesUnique /\ AtHand /\ pull \in Pull
  BY TypeStep DEF BaseInv, TypeInv, TypeOK
<1>2. /\ pull.pc = "write" /\ Applying /\ pull'.pc = "record"
      /\ pull'.saved = pull.saved /\ pull'.rev = pull.rev /\ pull'.text = pull.text
  BY <1>1, VaultEffect DEF Applying, Pull
<1>3. /\ UNCHANGED <<log, push, made>> /\ rec'.rev = rec.rev
      /\ rec' = rec \/ (rec'.remote = NoFile /\ rec'.local = NoFile /\ rec'.pending = NoMutation)
  BY <1>1, VaultEffect
<1>4. AtHand' /\ Shows(rec, log)'
  BY <1>1, <1>2, <1>3 DEF BaseInv, AtHand, Shows
<1>5. \A m \in Nat : \A t : Names(m, t)' => Names(m, t)
  BY <1>2, <1>3 DEF Names, Wants, Sending
<1>6. QED
  BY <1>1, <1>3, <1>4, <1>5, NamesKept DEF BaseInv

LEMMA BaseRecord ==
  ASSUME BaseInv, Next, ApplyRecord
  PROVE  BaseInv'
<1>1. TypeInv /\ TypeInv' /\ UnderWay /\ NamesUnique /\ AtHand /\ pull \in Pull
  BY TypeStep DEF BaseInv, TypeInv, TypeOK
<1>2. /\ pull.pc = "record" /\ Applying /\ pull'.pc = "merge"
      /\ pull'.saved = pull.saved /\ pull'.rev = pull.rev /\ pull'.text = pull.text
  BY <1>1, RecordEffect DEF Applying, Pull
<1>3. /\ UNCHANGED <<log, push, made>> /\ rec'.rev = pull.rev /\ rec'.remote = pull.text
      /\ rec'.local = pull.text /\ rec'.pending = NoMutation
  BY <1>1, RecordEffect
<1>4. AtHand' /\ Shows(rec, log)'
  BY <1>1, <1>2, <1>3 DEF BaseInv, AtHand, Shows, UnderWay
<1>5. \A m \in Nat : \A t : Names(m, t)' => Names(m, t)
  BY <1>2, <1>3 DEF Names, Wants, Sending
<1>6. QED
  BY <1>1, <1>3, <1>4, <1>5, NamesKept DEF BaseInv

LEMMA BaseMerge ==
  ASSUME BaseInv, Next, ApplyMerge
  PROVE  BaseInv'
<1>1. TypeInv /\ TypeInv' /\ UnderWay /\ NamesUnique /\ AtHand /\ pull \in Pull
  BY TypeStep DEF BaseInv, TypeInv, TypeOK
<1>2. /\ pull.pc = "merge" /\ pull'.pc = "checkpoint" /\ ~Applying'
      /\ pull'.rev = pull.rev /\ pull'.text = pull.text /\ UNCHANGED <<log, push>>
  BY <1>1, MergeEffect DEF Applying, Pull
<1>3. \/ UNCHANGED <<rec, made>>
      \/ /\ rec'.rev = rec.rev /\ rec'.remote = rec.remote /\ made' = made + 1
         /\ rec'.pending.m = made + 1 /\ rec'.pending.text = pull.body
         /\ rec'.pending.base = pull.rev /\ rec'.pending.baseText = pull.text
  BY <1>1, MergeEffect
<1>4. AtHand'
  BY <1>1, <1>2 DEF AtHand
<1>5. Shows(rec, log)'
  BY <1>1, <1>2, <1>3 DEF BaseInv, AtHand, Shows, UnderWay
<1>6. \A m \in Nat : \A t :
        Names(m, t)' => Names(m, t) \/ (made' = made + 1 /\ m = made + 1 /\ t = pull.body)
  BY <1>2, <1>3 DEF Names, Wants, Sending
<1>7. made' = made \/ made' = made + 1
  BY <1>3
<1>8. QED
  BY <1>1, <1>4, <1>5, <1>6, <1>7, NamesKept DEF BaseInv

(* The record a pull may have to restore shows a revision of the log.         *)
LEMMA BaseBegin ==
  ASSUME BaseInv, Next, BeginApply
  PROVE  BaseInv'
<1>1. TypeInv /\ TypeInv' /\ NamesUnique /\ AtHand /\ pull.pc = "prepared"
  BY TypeStep DEF BaseInv, BeginApply
<1>2. /\ pull'.pc = "clear" /\ pull'.saved = rec
      /\ pull'.rev = pull.rev /\ pull'.text = pull.text
  BY <1>1, BeginEffect
<1>3. UNCHANGED <<log, rec, push, made>>
  BY DEF BeginApply
<1>4. AtHand' /\ Shows(rec, log)'
  BY <1>1, <1>2, <1>3 DEF BaseInv, AtHand
<1>5. \A m \in Nat : \A t : Names(m, t)' => Names(m, t)
  BY <1>2, <1>3 DEF Names, Sending
<1>6. QED
  BY <1>1, <1>3, <1>4, <1>5, NamesKept DEF BaseInv

(* A list is taken of the newest revision.                                    *)
LEMMA BaseList ==
  ASSUME BaseInv, Next, ListStates
  PROVE  BaseInv'
<1>1. TypeInv /\ TypeInv' /\ AtHand
  BY TypeStep DEF BaseInv
<1>2. /\ pull'.pc = "listed" /\ ~Applying'
      /\ pull'.rev = Len(log) /\ pull'.text = log[Len(log)].text
      /\ push' = push \/ push' = NotPushing
      /\ UNCHANGED <<log, rec, made>>
  BY <1>1, ListedEffect DEF ListStates, Applying
<1>3. Sending' => push' = push
  BY <1>2, NothingUnderWay DEF Sending
<1>4. push'.pc = "accepted" => push' = push
  BY <1>2, NothingUnderWay
<1>5. NamesUnique'
  BY <1>2, <1>3, NamesQuiet
<1>6. AtHand' /\ Shows(rec, log)'
  BY <1>1, <1>2, <1>4 DEF BaseInv, AtHand
<1>7. QED
  BY <1>1, <1>5, <1>6 DEF BaseInv

(* Stops leave a record that shows a revision of the log.                     *)
LEMMA BaseFails ==
  ASSUME BaseInv, Next, ApplyFails
  PROVE  BaseInv'
<1>1. TypeInv /\ TypeInv' /\ NamesUnique /\ AtHand /\ Applying
  BY TypeStep DEF BaseInv, ApplyFails
<1>2. rec' = pull.saved /\ pull' = NotPulling /\ UNCHANGED <<log, push, made>>
  BY DEF ApplyFails
<1>3. ~Applying' /\ pull'.pc = "idle"
  BY <1>2, NothingUnderWay DEF Applying
<1>4. AtHand' /\ Shows(rec, log)'
  BY <1>1, <1>2, <1>3 DEF AtHand
<1>5. \A m \in Nat : \A t : Names(m, t)' => Names(m, t)
  BY <1>1, <1>2, <1>3 DEF Names, Sending
<1>6. QED
  BY <1>1, <1>2, <1>4, <1>5, NamesKept DEF BaseInv

LEMMA BaseCrash ==
  ASSUME BaseInv, Next, Crash
  PROVE  BaseInv'
<1>1. /\ TypeInv /\ TypeInv' /\ NamesUnique /\ AtHand /\ NoFile \in MaybeText
      /\ disk \in MaybeText /\ rec.local \in MaybeText
  BY TypeStep DEF BaseInv, TypeInv, TypeOK, MaybeText, Record
<1>2. pull' = NotPulling /\ push' = NotPushing /\ log' = log
  BY <1>1, CrashEffect
<1>3. ~Applying' /\ pull'.pc = "idle" /\ ~Sending' /\ push'.pc = "idle"
  BY <1>2, NothingUnderWay DEF Applying, Sending
<1>4. AtHand'
  BY <1>3 DEF AtHand
<1>5. CASE UNCHANGED <<rec, made>>
  <2>1. NamesUnique'
    BY <1>2, <1>3, <1>5, NamesQuiet
  <2>2. QED
    BY <1>1, <1>2, <1>4, <1>5, <2>1 DEF BaseInv
<1>6. CASE Records(rec.local, disk)
  BY <1>1, <1>2, <1>3, <1>4, <1>6, RecordsShow, RecordsName DEF BaseInv
<1>7. ASSUME made' = made, rec'.rev = rec.rev, rec'.remote = rec.remote, rec'.local = NoFile,
             rec'.pending = NoMutation
      PROVE  BaseInv'
  <2>1. Shows(rec, log)'
    BY <1>2, <1>7 DEF BaseInv, Shows
  <2>2. \A m \in Nat : \A t : Names(m, t)' => Names(m, t)
    BY <1>2, <1>3, <1>7 DEF Names, Wants
  <2>3. QED
    BY <1>1, <1>4, <1>7, <2>1, <2>2, NamesKept DEF BaseInv
<1>8. QED
  BY <1>1, <1>5, <1>6, <1>7, CrashEffect

(* The steps that leave log, record and ids alone.                            *)
LEMMA BaseOther ==
  ASSUME BaseInv, Next,
         \/ UserEdit \/ UserDelete \/ PreparePush \/ SkipOldRevision \/ PreparePull
         \/ Checkpoint \/ DropEvent
  PROVE  BaseInv'
<1>1. TypeInv /\ pull \in Pull
  BY DEF BaseInv, TypeInv, TypeOK
<1>2. CASE UserEdit \/ UserDelete \/ DropEvent
  BY <1>2, BaseQuiet DEF UserEdit, UserDelete, DropEvent, Applying, Sending
<1>3. CASE PreparePush
  <2>1. /\ UNCHANGED <<log, rec, made, pull>> /\ rec.pending # NoMutation
        /\ push' = [NotPushing EXCEPT !.pc = "sent", !.sent = rec.pending]
    BY <1>3 DEF PreparePush
  <2>2. push'.pc = "sent" /\ push'.sent = rec.pending
    BY <2>1 DEF NotPushing
  <2>3. TypeInv' /\ NamesUnique /\ Shows(rec, log)'
    BY <2>1, TypeStep DEF BaseInv
  <2>4. \A m \in Nat : \A t : Names(m, t)' => Names(m, t)
    BY <2>1, <2>2 DEF Names, Wants, Applying
  <2>5. AtHand'
    BY <2>1, <2>2 DEF BaseInv, AtHand, Applying
  <2>6. QED
    BY <1>1, <2>1, <2>3, <2>4, <2>5, NamesKept DEF BaseInv
<1>4. CASE SkipOldRevision
  <2>1. /\ pull.pc = "listed" /\ pull'.pc = "checkpoint"
        /\ pull'.rev = pull.rev /\ pull'.text = pull.text
    BY <1>1, <1>4 DEF SkipOldRevision, Pull
  <2>2. UNCHANGED <<log, rec, made, push>> /\ ~Applying'
    BY <1>4, <2>1 DEF SkipOldRevision, Applying
  <2>3. QED
    BY <2>1, <2>2, BaseQuiet
<1>5. CASE PreparePull
  <2>1. /\ pull.pc = "listed" /\ pull'.pc = "prepared"
        /\ pull'.rev = pull.rev /\ pull'.text = pull.text
    BY <1>1, <1>5, PrepareEffect DEF PreparePull
  <2>2. UNCHANGED <<log, rec, made, push>> /\ ~Applying'
    BY <1>5, <2>1 DEF PreparePull, Applying
  <2>3. QED
    BY <2>1, <2>2, BaseQuiet
<1>6. CASE Checkpoint
  BY <1>6, NothingUnderWay, BaseQuiet DEF Checkpoint, Applying, Sending
<1>7. QED
  BY <1>2, <1>3, <1>4, <1>5, <1>6

LEMMA BaseInitially ==
  ASSUME Init
  PROVE  BaseInv
<1>1. TypeInv /\ Len(log) = 1 /\ log[1].text = {} /\ log[1].m = 0
  BY TypeInitially DEF Init
<1>2. ~Applying /\ ~Sending /\ pull.pc = "idle" /\ push.pc = "idle"
  BY NothingUnderWay DEF Init, Applying, Sending
<1>3. rec.rev = 1 /\ rec.remote = {} /\ rec.pending = NoMutation
  BY DEF Init
<1>4. Shows(rec, log) /\ AtHand
  BY <1>1, <1>2, <1>3 DEF Shows, AtHand
<1>5. \A m \in Nat : \A t : ~Names(m, t)
  BY <1>1, <1>2, <1>3 DEF Names, InLog, Wants
<1>6. QED
  BY <1>1, <1>4, <1>5 DEF BaseInv, NamesUnique

LEMMA BaseStep ==
  ASSUME BaseInv, [Next]_vars
  PROVE  BaseInv'
<1>1. CASE UNCHANGED vars
  BY <1>1, BaseQuiet DEF vars, Applying
<1>2. CASE Next
  BY <1>1, <1>2, Steps, BaseRemote, BaseWork, BaseCommit, BaseAccept, BaseConflict, BaseVault,
     BaseRecord, BaseMerge, BaseBegin, BaseList, BaseFails, BaseCrash, BaseOther DEF Apply
<1>3. QED
  BY <1>1, <1>2

(* The base text a pending mutation will be merged against is the text of the *)
(* revision it is based on, whatever was accepted, pulled, restored or        *)
(* interrupted in between.                                                    *)
THEOREM MergeBaseKept == Spec => []MergeBaseIsBaseRevision
<1>1. Init => BaseInv
  BY BaseInitially
<1>2. BaseInv /\ [Next]_vars => BaseInv'
  BY BaseStep
<1>3. BaseInv => MergeBaseIsBaseRevision
  BY DEF BaseInv, Shows, MergeBaseIsBaseRevision
<1>4. QED
  BY <1>1, <1>2, <1>3, PTL DEF Spec

-----------------------------------------------------------------------------
(* Edits are numbered in the order they are made.                             *)

Older(t, n) == t = NoFile \/ \A e \in t : e < n
OlderRecord(r, n) == Older(r.local, n) /\ (r.pending # NoMutation => Older(r.pending.text, n))

(* No text anywhere has an edit nobody has made yet.                          *)
UsedInv ==
  /\ Older(disk, NextEdit) /\ OlderRecord(rec, NextEdit)
  /\ \A i \in 1 .. Len(log) : Older(log[i].text, NextEdit)
  /\ Sending => Older(push.sent.text, NextEdit)
  /\ pull.pc # "idle" => Older(pull.body, NextEdit)
  /\ Applying => OlderRecord(pull.saved, NextEdit)

(* The numbers count up.                                                      *)
LEMMA NextEditGrows ==
  ASSUME TypeInv, [Next]_vars
  PROVE  /\ NextEdit \in Nat /\ NextEdit' \in Nat /\ NextEdit <= NextEdit'
         /\ UserEdit \/ RemoteEdit => NextEdit < NextEdit'
<1>1. /\ Budgets /\ MaxMine \in Nat /\ MaxTheirs \in Nat
      /\ budget["mine"] \in Nat /\ budget["theirs"] \in Nat
      /\ budget["mine"] <= MaxMine /\ budget["theirs"] <= MaxTheirs
  BY BoundsAreNaturals DEF TypeInv, Budgets, BudgetNames
<1>2. ASSUME NEW what \in BudgetNames, Spend(what)
      PROVE  /\ NextEdit \in Nat /\ NextEdit' \in Nat /\ NextEdit <= NextEdit'
             /\ what \in {"mine", "theirs"} => NextEdit < NextEdit'
  <2>1. /\ Budgets' /\ budget'[what] = budget[what] - 1
        /\ \A other \in BudgetNames \ {what} : budget'[other] = budget[other]
    BY <1>1, <1>2, Spending
  <2>2. budget'["mine"] \in Nat /\ budget'["theirs"] \in Nat
    BY <2>1 DEF Budgets, BudgetNames
  <2>3. budget'["mine"] = IF what = "mine" THEN budget["mine"] - 1 ELSE budget["mine"]
    BY <2>1 DEF BudgetNames
  <2>4. budget'["theirs"] = IF what = "theirs" THEN budget["theirs"] - 1 ELSE budget["theirs"]
    BY <2>1 DEF BudgetNames
  <2>5. QED
    BY <1>1, <2>2, <2>3, <2>4 DEF NextEdit
<1>3. UserEdit \/ RemoteEdit => NextEdit < NextEdit'
  BY <1>2 DEF UserEdit, RemoteEdit, BudgetNames
<1>4. budget' = budget \/ \E what \in BudgetNames : Spend(what)
  <2>1. CASE Work
    BY <2>1, WorkEffect
  <2>2. CASE Apply
    BY <2>2, ConflictEffect, VaultEffect, RecordEffect, MergeEffect DEF Apply
  <2>3. CASE Commit
    BY <2>3, CommitEffect
  <2>4. CASE Crash
    BY <2>4 DEF Crash, Restarted, BudgetNames
  <2>5. QED
    BY <2>1, <2>2, <2>3, <2>4, Steps
       DEF UserEdit, UserDelete, RemoteEdit, RemoteDelete, PreparePush, AcceptPush, ListStates,
           SkipOldRevision, PreparePull, BeginApply, Checkpoint, ApplyFails, DropEvent, vars, BudgetNames
<1>5. CASE budget' = budget
  BY <1>1, <1>3, <1>5 DEF NextEdit
<1>6. QED
  BY <1>2, <1>3, <1>4, <1>5

(* A text that is old stays old.                                              *)
LEMMA OldStays ==
  ASSUME TypeInv, [Next]_vars
  PROVE  /\ \A t \in MaybeText : Older(t, NextEdit) => Older(t, NextEdit')
         /\ \A r \in Record : OlderRecord(r, NextEdit) => OlderRecord(r, NextEdit')
<1>1. NextEdit \in Nat /\ NextEdit' \in Nat /\ NextEdit <= NextEdit'
  BY NextEditGrows
<1>2. \A t \in MaybeText : t # NoFile => t \subseteq Nat
  BY BoundsAreNaturals DEF MaybeText, Text, Edits
<1>3. \A t \in MaybeText : Older(t, NextEdit) => Older(t, NextEdit')
  BY <1>1, <1>2 DEF Older
<1>4. \A r \in Record : r.local \in MaybeText /\ (r.pending # NoMutation => r.pending.text \in MaybeText)
  BY DEF Record, Mutation
<1>5. QED
  BY <1>3, <1>4 DEF OlderRecord

(* Where the texts of a step come from: of the file,                          *)
LEMMA DiskMoves ==
  ASSUME TypeInv, [Next]_vars
  PROVE  \/ disk' \in {disk, NoFile} \/ UserEdit
         \/ pull.pc # "idle" /\ disk' \in {pull.text, pull.body}
<1>1. CASE Work
  BY <1>1, WorkEffect, UpsertEffect
<1>2. CASE Apply
  BY <1>2, ConflictEffect, VaultEffect, RecordEffect, MergeEffect DEF Apply
<1>3. CASE Commit
  BY <1>3, CommitEffect
<1>4. CASE Crash
  BY <1>4, CrashEffect
<1>5. QED
  BY <1>1, <1>2, <1>3, <1>4, Steps
     DEF UserDelete, RemoteEdit, RemoteDelete, PreparePush, AcceptPush, ListStates,
         SkipOldRevision, PreparePull, BeginApply, Checkpoint, ApplyFails, DropEvent, vars

(* of the record,                                                             *)
LEMMA RecordMoves ==
  ASSUME TypeInv, [Next]_vars
  PROVE  \/ rec' = rec \/ (Applying /\ rec' = pull.saved)
         \/ /\ \/ rec'.local \in {rec.local, disk, NoFile}
               \/ pull.pc # "idle" /\ rec'.local \in {pull.text, pull.body}
            /\ \/ rec'.pending = NoMutation \/ rec'.pending.text \in {disk, NoFile}
               \/ rec.pending # NoMutation /\ rec'.pending.text = rec.pending.text
               \/ pull.pc # "idle" /\ rec'.pending.text = pull.body
<1>1. /\ rec \in Record /\ made \in Nat /\ disk \in MaybeText /\ NoFile \in MaybeText
      /\ rec.local \in MaybeText
  BY DEF TypeInv, TypeOK, MaybeText, Record
<1>2. CASE Work
  BY <1>1, <1>2, WorkEffect, UpsertEffect, DeleteEffect, RecordsEffect
<1>3. CASE Apply
  BY <1>1, <1>3, ConflictEffect, VaultEffect, RecordEffect, MergeEffect DEF Apply
<1>4. CASE Commit
  BY <1>4, CommitEffect
<1>5. CASE Crash
  BY <1>1, <1>5, CrashEffect, RecordsEffect
<1>6. CASE AcceptPush
  <2>1. push.sent \in Mutation /\ push.rev \in Nat
    BY <1>6 DEF AcceptPush, TypeInv, UnderWay, Sending
  <2>2. QED
    BY <1>1, <1>6, <2>1, AcknowledgedEffect DEF AcceptPush
<1>7. QED
  BY <1>2, <1>3, <1>4, <1>5, <1>6, Steps
     DEF UserEdit, UserDelete, RemoteEdit, RemoteDelete, PreparePush, ListStates,
         SkipOldRevision, PreparePull, BeginApply, Checkpoint, ApplyFails, DropEvent, vars

(* of the log,                                                                *)
LEMMA LogMoves ==
  ASSUME TypeInv, [Next]_vars
  PROVE  \/ log' = log
         \/ \E x \in [m : Nat, text : MaybeText] :
              /\ log' = Append(log, x)
              /\ \/ x.text = NoFile
                 \/ Sending /\ x.text = push.sent.text
                 \/ RemoteEdit /\ x.text = Head1.text \cup {NextEdit} /\ Head1.text # NoFile
<1>1. CASE RemoteEdit
  <2>1. PICK x \in [m : Nat, text : MaybeText] : log' = Append(log, x)
    BY <1>1, RemoteStep
  <2>2. log' = Append(log, [m |-> 0, text |-> Head1.text \cup {NextEdit}]) /\ Head1.text # NoFile
    BY <1>1 DEF RemoteEdit
  <2>3. log \in Seq([m : Nat, text : MaybeText]) /\ Len(log) \in Nat
    BY SequenceElements DEF TypeInv, TypeOK
  <2>4. x = log'[Len(log) + 1]
    BY <2>1, <2>3, AppendKeeps
  <2>5. log'[Len(log) + 1] = [m |-> 0, text |-> Head1.text \cup {NextEdit}]
    BY <2>2, <2>3
  <2>6. x.text = Head1.text \cup {NextEdit}
    BY <2>4, <2>5
  <2>7. QED
    BY <1>1, <2>1, <2>2, <2>6
<1>2. CASE RemoteDelete
  <2>1. [m |-> 0, text |-> NoFile] \in [m : Nat, text : MaybeText]
    BY DEF MaybeText
  <2>2. QED
    BY <1>2, <2>1 DEF RemoteDelete
<1>3. CASE Commit
  BY <1>3, CommitEffect, CommitStep DEF Sending
<1>4. CASE Work
  BY <1>4, WorkEffect
<1>5. CASE Apply \/ Crash
  BY <1>5, ConflictEffect, VaultEffect, RecordEffect, MergeEffect, CrashEffect DEF Apply
<1>6. QED
  BY <1>1, <1>2, <1>3, <1>4, <1>5, Steps
     DEF UserEdit, UserDelete, PreparePush, AcceptPush, ListStates, SkipOldRevision,
         PreparePull, BeginApply, Checkpoint, ApplyFails, DropEvent, vars

(* of the push,                                                               *)
LEMMA PushMoves ==
  ASSUME TypeInv, [Next]_vars
  PROVE  Sending' => \/ Sending /\ push'.sent = push.sent
                     \/ rec.pending # NoMutation /\ push'.sent = rec.pending
<1>1. CASE PreparePush
  BY <1>1 DEF PreparePush, NotPushing
<1>2. CASE Commit
  BY <1>2, CommitEffect DEF Sending
<1>3. CASE Work
  BY <1>3, WorkEffect DEF Sending
<1>4. CASE Apply
  BY <1>4, ConflictEffect, VaultEffect, RecordEffect, MergeEffect DEF Apply, Sending
<1>5. CASE push' = push
  BY <1>5 DEF Sending
<1>6. CASE push' = NotPushing
  BY <1>6, NothingUnderWay DEF Sending
<1>7. CASE Crash
  BY <1>6, <1>7, CrashEffect
<1>8. QED
  BY <1>1, <1>2, <1>3, <1>4, <1>5, <1>6, <1>7, Steps
     DEF UserEdit, UserDelete, RemoteEdit, RemoteDelete, AcceptPush, ListStates, SkipOldRevision,
         PreparePull, BeginApply, Checkpoint, ApplyFails, DropEvent, vars

(* and of the pull.                                                           *)
LEMMA PullMoves ==
  ASSUME TypeInv, [Next]_vars
  PROVE  /\ pull'.pc # "idle" =>
              \/ pull.pc # "idle" /\ pull'.body = pull.body
              \/ pull'.body = NoFile
              \/ PreparePull
         /\ Applying' => (Applying /\ pull'.saved = pull.saved) \/ pull'.saved = rec
<1>1. pull \in Pull
  BY DEF TypeInv, TypeOK
<1>2. CASE Work
  <2>1. CASE pull' = Stale(pull)
    BY <1>1, <1>2, <2>1, StaleEffect, WorkEffect DEF Applying
  <2>2. CASE pull' = NotPulling
    BY <2>2, NothingUnderWay DEF Applying
  <2>3. CASE pull' = PlannedAgain
    <3>1. PlannedAgain.pc = "listed" /\ PlannedAgain.body = NoFile
      BY DEF PlannedAgain, NotPulling
    <3>2. QED
      BY <2>3, <3>1 DEF Applying
  <2>4. QED
    BY <1>2, <2>1, <2>2, <2>3, WorkEffect
<1>3. CASE Apply
  <2>1. PICK pc \in {"write", "record", "merge", "checkpoint"} :
          Applying /\ pull' = [pull EXCEPT !.pc = pc]
    BY <1>3, ConflictEffect, VaultEffect, RecordEffect, MergeEffect DEF Apply, Applying
  <2>2. QED
    BY <2>1, PullTyped DEF Applying
<1>4. CASE pull' = pull
  BY <1>4 DEF Applying
<1>5. CASE pull' = NotPulling
  BY <1>5, NothingUnderWay DEF Applying
<1>6. CASE Commit \/ Crash
  BY <1>4, <1>5, <1>6, CommitEffect, CrashEffect
<1>7. CASE BeginApply
  BY <1>7, BeginEffect DEF BeginApply
<1>8. CASE PreparePull
  BY <1>8, PrepareEffect DEF Applying
<1>9. CASE ListStates
  <2>1. \A who \in {"loop", "history"} : Listed(who).pc = "listed" /\ Listed(who).body = NoFile
    BY DEF Listed, NotPulling
  <2>2. QED
    BY <1>9, <2>1 DEF ListStates, Applying
<1>10. CASE SkipOldRevision
  BY <1>10, PullTyped DEF SkipOldRevision, Applying
<1>11. CASE AcceptPush
  BY <1>1, <1>11, StaleEffect DEF AcceptPush, Applying
<1>12. QED
  BY <1>2, <1>3, <1>4, <1>5, <1>6, <1>7, <1>8, <1>9, <1>10, <1>11, Steps
     DEF UserEdit, UserDelete, RemoteEdit, RemoteDelete, PreparePush, Checkpoint, ApplyFails,
         DropEvent, vars

(* A plan holds no text that is not in the file or in the listed revision.    *)
LEMMA PlanMoves ==
  ASSUME TypeInv, PreparePull, Older(disk, NextEdit), Older(pull.text, NextEdit)
  PROVE  Older(pull'.body, NextEdit)
<1>1. PICK d \in Decide(rec.pending, pull.text) : pull'.kind = d.kind /\ pull'.body = d.body
  BY PrepareEffect
<1>2. CASE d.body \in {NoFile, disk}
  BY <1>1, <1>2 DEF Older
<1>3. CASE CanMerge(rec.pending, pull.text) /\ d.body = Merge(rec.pending.baseText, disk, pull.text)
  BY <1>1, <1>3 DEF CanMerge, Merge, Older
<1>4. QED
  BY <1>2, <1>3, DecideEffect

LEMMA UsedStep ==
  ASSUME BaseInv, UsedInv, [Next]_vars
  PROVE  UsedInv'
<1>1. /\ TypeInv /\ TypeInv' /\ UnderWay /\ NextEdit \in Nat /\ NextEdit' \in Nat
      /\ UserEdit \/ RemoteEdit => NextEdit < NextEdit'
      /\ \A t \in MaybeText : Older(t, NextEdit) => Older(t, NextEdit')
      /\ \A r \in Record : OlderRecord(r, NextEdit) => OlderRecord(r, NextEdit')
  BY NextEditGrows, OldStays, TypeStep DEF BaseInv, TypeInv
<1>2. /\ disk \in MaybeText /\ rec \in Record /\ rec.local \in MaybeText /\ NoFile \in MaybeText
      /\ rec.pending # NoMutation => rec.pending.text \in MaybeText
      /\ pull.body \in MaybeText /\ pull.text \in MaybeText
      /\ Sending => push.sent.text \in MaybeText
      /\ Applying => pull.saved \in Record
      /\ log \in Seq([m : Nat, text : MaybeText])
      /\ Len(log) \in Nat /\ Len(log) >= 1
  BY <1>1, SequenceElements DEF TypeInv, TypeOK, MaybeText, Record, Mutation, Pull, UnderWay
<1>3. /\ \A i \in 1 .. Len(log) : log[i].text \in MaybeText /\ Older(log[i].text, NextEdit')
      /\ Older(disk, NextEdit') /\ Older(NoFile, NextEdit')
      /\ OlderRecord(rec, NextEdit')
      /\ Sending => Older(push.sent.text, NextEdit')
      /\ pull.pc # "idle" => Older(pull.body, NextEdit')
      /\ Applying => OlderRecord(pull.saved, NextEdit')
  <2>1. \A i \in 1 .. Len(log) : log[i].text \in MaybeText
    <3>1. \A i \in 1 .. Len(log) : log[i] \in [m : Nat, text : MaybeText]
      BY <1>2, SequenceElements
    <3>2. QED
      BY <3>1
  <2>2. \A i \in 1 .. Len(log) : Older(log[i].text, NextEdit')
    BY <1>1, <2>1 DEF UsedInv
  <2>3. Older(disk, NextEdit') /\ OlderRecord(rec, NextEdit')
    BY <1>1, <1>2 DEF UsedInv
  <2>4. Older(NoFile, NextEdit')
    BY DEF Older
  <2>5. QED
    BY <1>1, <1>2, <2>1, <2>2, <2>3, <2>4 DEF UsedInv
<1>4. pull.pc # "idle" => Older(pull.text, NextEdit) /\ Older(pull.text, NextEdit')
  BY <1>1, <1>3 DEF BaseInv, AtHand, UnderWay, UsedInv
<1>5. Older(disk', NextEdit')
  <2>1. CASE UserEdit
    BY <1>1, <1>3, <2>1 DEF UserEdit, Older
  <2>2. QED
    BY <1>1, <1>3, <1>4, <2>1, DiskMoves
<1>6. OlderRecord(rec', NextEdit')
  BY <1>1, <1>3, <1>4, RecordMoves DEF OlderRecord
<1>7. \A i \in 1 .. Len(log') : Older(log'[i].text, NextEdit')
  <2>1. ASSUME NEW x \in [m : Nat, text : MaybeText], log' = Append(log, x), Older(x.text, NextEdit')
        PROVE  \A i \in 1 .. Len(log') : Older(log'[i].text, NextEdit')
    BY <1>2, <1>3, <2>1, AppendKeeps
  <2>2. ASSUME RemoteEdit, Head1.text # NoFile
        PROVE  Older(Head1.text \cup {NextEdit}, NextEdit')
    <3>1. Older(Head1.text, NextEdit') /\ NextEdit < NextEdit'
      BY <1>1, <1>2, <1>3, <2>2 DEF Head1
    <3>2. QED
      BY <2>2, <3>1 DEF Older
  <2>3. QED
    BY <1>1, <1>3, <2>1, <2>2, LogMoves
<1>8. Sending' => Older(push'.sent.text, NextEdit')
  BY <1>1, <1>3, PushMoves DEF OlderRecord
<1>9. pull'.pc # "idle" => Older(pull'.body, NextEdit')
  <2>1. PreparePull => pull.pc # "idle" /\ pull'.body \in MaybeText
    BY <1>1 DEF PreparePull, TypeInv, TypeOK, Pull
  <2>2. PreparePull => Older(pull'.body, NextEdit')
    BY <1>1, <1>4, <2>1, PlanMoves DEF UsedInv
  <2>3. QED
    BY <1>1, <1>3, <2>2, PullMoves
<1>10. Applying' => OlderRecord(pull'.saved, NextEdit')
  BY <1>1, <1>3, PullMoves
<1>11. QED
  BY <1>5, <1>6, <1>7, <1>8, <1>9, <1>10 DEF UsedInv

LEMMA UsedInitially ==
  ASSUME Init
  PROVE  UsedInv
<1>1. ~Applying /\ ~Sending /\ pull.pc = "idle"
  BY NothingUnderWay DEF Init, Applying, Sending
<1>2. /\ disk = {} /\ rec.local = {} /\ rec.pending = NoMutation
      /\ Len(log) = 1 /\ log[1].text = {}
  BY DEF Init
<1>3. QED
  BY <1>1, <1>2 DEF UsedInv, Older, OlderRecord

-----------------------------------------------------------------------------
(* Recorded edits survive.                                                    *)

(* Where they do: files that are merged lose edits when a pull stops half way *)
(* (the README names the settings), and on a host whose events               *)
(* say what happened, a late "delete" event is taken for a deletion.          *)
Recoverable ==
  /\ Mergeable => MaxCrashes = 0 /\ MaxFailures = 0
  /\ StatsFile \/ (MaxDeletes = 0 /\ MaxTombstones = 0)

NoDeleteEvent == \A i \in 1 .. Len(events) : events[i] # "delete"
Whole(r) == r.local # NoFile /\ (r.pending # NoMutation => r.pending.text # NoFile)
(* Nothing is taken for a deletion that is not one.                           *)
NothingDeleted ==
  /\ NoDeleteEvent
  /\ ~StatsFile =>
       /\ disk # NoFile /\ Whole(rec)
       /\ \A i \in 1 .. Len(log) : log[i].text # NoFile
       /\ Sending => push.sent.text # NoFile
       /\ Applying => Whole(pull.saved)
MergedPlans == pull.kind = "local" => Mergeable /\ pull.body # NoFile

LEMMA NoticedQuiet ==
  ASSUME events \in Seq({"upsert", "delete", "changed"}), NoDeleteEvent,
         NEW operation \in {"upsert", "delete"}, Noticed(operation),
         StatsFile \/ operation = "upsert"
  PROVE  NoDeleteEvent'
<1> DEFINE kind == IF StatsFile THEN "changed" ELSE operation
<1>1. kind \in {"upsert", "delete", "changed"} /\ kind # "delete"
  OBVIOUS
<1>2. events' = events \/ events' = Append(events, kind)
  BY DEF Noticed
<1>3. CASE events' = events
  BY <1>3 DEF NoDeleteEvent
<1>4. CASE events' = Append(events, kind)
  BY <1>1, <1>4, AppendKeeps, SequenceElements DEF NoDeleteEvent
<1>5. QED
  BY <1>2, <1>3, <1>4

(* Deletions that the bounds rule out.                                        *)
LEMMA NoDeletions ==
  ASSUME TypeInv, Recoverable, ~StatsFile
  PROVE  ~UserDelete /\ ~RemoteDelete
<1>1. /\ MaxDeletes = 0 /\ MaxTombstones = 0
      /\ budget["deletes"] \in Nat /\ budget["tombstones"] \in Nat
      /\ budget["deletes"] <= MaxDeletes /\ budget["tombstones"] <= MaxTombstones
  BY DEF Recoverable, TypeInv, Budgets, BudgetNames
<1>2. QED
  BY <1>1 DEF UserDelete, RemoteDelete, Spend

LEMMA EventsStep ==
  ASSUME Recoverable, BaseInv, NothingDeleted, [Next]_vars
  PROVE  NoDeleteEvent'
<1>1. /\ TypeInv /\ events \in Seq({"upsert", "delete", "changed"}) /\ NoDeleteEvent
      /\ Len(events) \in Nat
  BY SequenceElements DEF BaseInv, TypeInv, TypeOK, NothingDeleted
<1>2. CASE events' = events
  BY <1>1, <1>2 DEF NoDeleteEvent
<1>3. ASSUME events # << >>, events' = Tail(events)
      PROVE  NoDeleteEvent'
  BY <1>1, <1>3 DEF NoDeleteEvent
<1>4. CASE events' = << >>
  BY <1>4 DEF NoDeleteEvent
<1>5. CASE UserEdit
  BY <1>1, <1>5, NoticedQuiet DEF UserEdit
<1>6. CASE UserDelete
  BY <1>1, <1>6, NoticedQuiet, NoDeletions DEF UserDelete
<1>7. CASE ApplyVault
  <2>1. ~StatsFile => pull.text # NoFile
    BY <1>1, <1>7 DEF ApplyVault, BaseInv, AtHand, TypeInv, UnderWay, NothingDeleted
  <2>2. events' = events \/ Noticed(IF pull.text = NoFile THEN "delete" ELSE "upsert")
    BY <1>7 DEF ApplyVault
  <2>3. QED
    BY <1>1, <1>2, <2>1, <2>2, NoticedQuiet
<1>8. CASE ApplyMerge
  <2>1. events' = events \/ Noticed("upsert")
    BY <1>8 DEF ApplyMerge
  <2>2. QED
    BY <1>1, <1>2, <2>1, NoticedQuiet
<1>9. CASE Work
  BY <1>2, <1>3, <1>9, WorkEffect
<1>10. CASE ApplyConflict \/ ApplyRecord \/ Crash \/ Commit
  BY <1>1, <1>2, <1>4, <1>10, ConflictEffect, RecordEffect, CrashEffect, CommitEffect
<1>11. QED
  BY <1>2, <1>3, <1>5, <1>6, <1>7, <1>8, <1>9, <1>10, Steps
     DEF Apply, RemoteEdit, RemoteDelete, PreparePush, AcceptPush, ListStates,
         SkipOldRevision, PreparePull, BeginApply, Checkpoint, ApplyFails, DropEvent, vars

(* Merges are planned for files that are merged.                              *)
LEMMA MergedPlansStep ==
  ASSUME TypeInv, MergedPlans, [Next]_vars
  PROVE  MergedPlans'
<1>1. /\ pull \in Pull /\ disk \in MaybeText
      /\ rec.pending # NoMutation => rec.pending.baseText \in MaybeText
      /\ pull.text \in MaybeText
  BY DEF TypeInv, TypeOK, Record, Mutation, Pull
<1>2. CASE pull'.kind = pull.kind /\ pull'.body = pull.body
  BY <1>2 DEF MergedPlans
<1>3. CASE pull'.kind = "none"
  BY <1>3 DEF MergedPlans
<1>4. NotPulling.kind = "none" /\ PlannedAgain.kind = "none" /\ \A who : Listed(who).kind = "none"
  BY DEF NotPulling, PlannedAgain, Listed
<1>5. CASE PreparePull
  <2>1. PICK d \in Decide(rec.pending, pull.text) : pull'.kind = d.kind /\ pull'.body = d.body
    BY <1>5, PrepareEffect
  <2>2. d.kind = "local" => /\ rec.pending # NoMutation /\ CanMerge(rec.pending, pull.text)
                           /\ d.body = Merge(rec.pending.baseText, disk, pull.text)
    BY DecideEffect
  <2>3. ASSUME d.kind = "local"
        PROVE  Mergeable /\ d.body \in Text
    <3>1. Mergeable /\ disk \in Text /\ pull.text \in Text /\ rec.pending.baseText \in Text
      BY <1>1, <2>2, <2>3 DEF CanMerge, MaybeText
    <3>2. QED
      BY <2>2, <2>3, <3>1 DEF Merge, Text
  <2>4. QED
    BY <2>1, <2>3, NothingIsNothing DEF MergedPlans
<1>6. CASE Work
  <2>1. CASE pull' = Stale(pull)
    BY <1>1, <1>2, <2>1, StaleEffect
  <2>2. QED
    BY <1>3, <1>4, <1>6, <2>1, WorkEffect
<1>7. CASE Apply
  <2>1. PICK pc \in {"write", "record", "merge", "checkpoint"} : pull' = [pull EXCEPT !.pc = pc]
    BY <1>7, ConflictEffect, VaultEffect, RecordEffect, MergeEffect DEF Apply
  <2>2. QED
    BY <1>2, <2>1, PullTyped
<1>8. CASE Commit \/ Crash
  BY <1>2, <1>3, <1>4, <1>8, CommitEffect, CrashEffect
<1>9. CASE BeginApply
  BY <1>2, <1>9, BeginEffect
<1>10. CASE SkipOldRevision
  BY <1>2, <1>10, PullTyped DEF SkipOldRevision
<1>11. CASE AcceptPush
  BY <1>1, <1>2, <1>11, StaleEffect DEF AcceptPush
<1>12. QED
  BY <1>2, <1>3, <1>4, <1>5, <1>6, <1>7, <1>8, <1>9, <1>10, <1>11, Steps
     DEF UserEdit, UserDelete, RemoteEdit, RemoteDelete, PreparePush, ListStates, Checkpoint,
         ApplyFails, DropEvent, vars

(* Where nothing is deleted, every text is there.                             *)
LEMMA WholeFile ==
  ASSUME Recoverable, BaseInv, NothingDeleted, MergedPlans, [Next]_vars, ~StatsFile
  PROVE  disk' # NoFile /\ Whole(rec')
<1>1. /\ TypeInv /\ rec \in Record /\ made \in Nat /\ disk \in MaybeText /\ rec.local \in MaybeText
      /\ NoFile \in MaybeText
      /\ disk # NoFile /\ Whole(rec) /\ rec.local # NoFile
      /\ events # << >> => Head(events) # "delete"
      /\ Applying => Whole(pull.saved)
  <2>1. events # << >> => Len(events) \in Nat /\ 1 \in 1 .. Len(events) /\ Head(events) = events[1]
    BY SequenceElements DEF BaseInv, TypeInv, TypeOK
  <2>2. QED
    BY <2>1 DEF BaseInv, TypeInv, TypeOK, NothingDeleted, NoDeleteEvent, Whole, Record, MaybeText
<1>2. pull.pc # "idle" => pull.text # NoFile
  BY <1>1 DEF BaseInv, AtHand, TypeInv, UnderWay, NothingDeleted
<1>3. ASSUME NEW text \in {disk, rec.local}, Records(text, disk)
      PROVE  Whole(rec')
  BY <1>1, <1>3, RecordsEffect DEF Whole
<1>4. CASE Work
  <2>1. ~RecordDelete \/ UNCHANGED <<rec, made, others, disk, queued>>
        \/ (disk # NoFile /\ queued' = Seen /\ RecordUpsert(disk))
        \/ (disk # NoFile /\ queued' = Seen /\ Records(disk, disk) /\ UNCHANGED <<others, disk>>)
    BY <1>1, <1>4, WorkEffect
  <2>2. QED
    BY <1>1, <1>3, <1>4, <2>1, WorkEffect, UpsertEffect
<1>5. CASE ApplyConflict
  BY <1>1, <1>5, ConflictEffect DEF Whole
<1>6. CASE ApplyVault
  BY <1>1, <1>2, <1>6, VaultEffect
<1>7. CASE ApplyRecord
  BY <1>1, <1>2, <1>7, RecordEffect DEF Whole
<1>8. CASE ApplyMerge
  BY <1>1, <1>8, MergeEffect DEF Whole, MergedPlans
<1>9. CASE Commit
  BY <1>1, <1>9, CommitEffect
<1>10. CASE Crash
  BY <1>1, <1>3, <1>10, CrashEffect DEF MergedPlans
<1>11. CASE AcceptPush
  <2>1. push.sent \in Mutation /\ push.rev \in Nat
    BY <1>11 DEF AcceptPush, BaseInv, TypeInv, UnderWay, Sending
  <2>2. Whole(Acknowledged(rec, push.sent, push.rev))
    BY <1>1, <2>1, AcknowledgedEffect DEF Whole
  <2>3. QED
    BY <1>1, <1>11, <2>2 DEF AcceptPush
<1>12. CASE UserEdit
  <2>1. disk \in Text /\ NextEdit \in Edits
    BY <1>1, <1>12, Spending, NextEditTyped DEF UserEdit, TypeInv, BudgetNames, MaybeText
  <2>2. QED
    BY <1>1, <1>12, <2>1, NothingIsNothing DEF UserEdit, Text
<1>13. CASE ApplyFails
  BY <1>1, <1>13 DEF ApplyFails
<1>14. CASE UNCHANGED <<disk, rec>>
  BY <1>1, <1>14
<1>15. QED
  BY <1>1, <1>4, <1>5, <1>6, <1>7, <1>8, <1>9, <1>10, <1>11, <1>12, <1>13, <1>14, NoDeletions, Steps
     DEF Apply, RemoteEdit, PreparePush, ListStates, SkipOldRevision, PreparePull, BeginApply,
         Checkpoint, DropEvent, vars

LEMMA DeletedStep ==
  ASSUME Recoverable, BaseInv, NothingDeleted, MergedPlans, [Next]_vars
  PROVE  NothingDeleted' /\ MergedPlans'
<1>1. TypeInv /\ NoDeleteEvent' /\ MergedPlans'
  BY EventsStep, MergedPlansStep DEF BaseInv
<1>2. ASSUME ~StatsFile
      PROVE  /\ disk' # NoFile /\ Whole(rec')
             /\ \A i \in 1 .. Len(log') : log'[i].text # NoFile
             /\ Sending' => push'.sent.text # NoFile
             /\ Applying' => Whole(pull'.saved)
  <2>1. /\ \A i \in 1 .. Len(log) : log[i].text # NoFile
        /\ Whole(rec)
        /\ Sending => push.sent.text # NoFile
        /\ Applying => Whole(pull.saved)
    BY <1>2 DEF NothingDeleted
  <2>2. \A i \in 1 .. Len(log') : log'[i].text # NoFile
    <3>1. log \in Seq([m : Nat, text : MaybeText]) /\ Len(log) \in Nat
      BY <1>1, SequenceElements DEF TypeInv, TypeOK
    <3>2. ASSUME NEW x \in [m : Nat, text : MaybeText], log' = Append(log, x), x.text # NoFile
          PROVE  \A i \in 1 .. Len(log') : log'[i].text # NoFile
      BY <2>1, <3>1, <3>2, AppendKeeps
    <3>3. CASE log' = log
      BY <2>1, <3>3
    <3>4. CASE RemoteEdit
      <4>1. PICK x \in [m : Nat, text : MaybeText] : log' = Append(log, x)
        BY <1>1, <3>4, RemoteStep
      <4>2. NextEdit \in Edits /\ Head1.text \in Text
        <5>1. log[Len(log)] \in [m : Nat, text : MaybeText]
          BY <1>1, SequenceElements DEF TypeInv, TypeOK, UnderWay
        <5>2. QED
          BY <1>1, <3>4, <5>1, Spending, NextEditTyped DEF RemoteEdit, TypeInv, BudgetNames, Head1, MaybeText
      <4>3. Head1.text \cup {NextEdit} # NoFile
        BY <4>2, NothingIsNothing DEF Text
      <4>4. log' = Append(log, [m |-> 0, text |-> Head1.text \cup {NextEdit}])
        BY <3>4 DEF RemoteEdit
      <4>5. x.text = Head1.text \cup {NextEdit}
        <5>1. log'[Len(log) + 1] = x
          BY <3>1, <4>1, AppendKeeps
        <5>2. log'[Len(log) + 1] = [m |-> 0, text |-> Head1.text \cup {NextEdit}]
          BY <3>1, <4>4
        <5>3. QED
          BY <5>1, <5>2
      <4>6. QED
        BY <3>2, <4>1, <4>3, <4>5
    <3>5. CASE Commit
      <4>1. push.sent.text # NoFile
        BY <1>1, <2>1, <3>5, CommitEffect DEF Sending
      <4>2. QED
        BY <1>1, <3>2, <3>3, <3>5, <4>1, CommitStep
    <3>6. CASE Work \/ Apply \/ Crash
      BY <1>1, <3>3, <3>6, WorkEffect, ConflictEffect, VaultEffect, RecordEffect, MergeEffect,
         CrashEffect DEF Apply
    <3>7. QED
      BY <1>1, <1>2, <3>3, <3>4, <3>5, <3>6, NoDeletions, Steps
         DEF UserEdit, PreparePush, AcceptPush, ListStates, SkipOldRevision,
             PreparePull, BeginApply, Checkpoint, ApplyFails, DropEvent, vars
  <2>3. Sending' => push'.sent.text # NoFile
    BY <1>1, <2>1, PushMoves DEF Whole
  <2>4. Applying' => Whole(pull'.saved)
    BY <1>1, <2>1, PullMoves
  <2>5. QED
    BY <1>2, <2>2, <2>3, <2>4, WholeFile
<1>3. QED
  BY <1>1, <1>2 DEF NothingDeleted

Bits(t) == IF t = NoFile THEN {} ELSE t
PendingText(r) == IF r.pending = NoMutation THEN {} ELSE Bits(r.pending.text)
Kept == (UNION copies) \cup (UNION others) \cup Committed
Writing == pull.pc \in {"write", "record", "merge"}
\* What a merge still carries counts, where merges are not interrupted.
Unqueued(r) == IF Mergeable THEN PendingText(r) ELSE {}

(* Until the vault is written a recorded edit is in the file and in the       *)
(* pending mutation; from then on it is where the pull put it.                *)
InFile == ~Writing => queued \subseteq Kept \cup Bits(disk)
InMutation == ~Writing => queued \subseteq Kept \cup PendingText(rec)
InHand == Writing => queued \subseteq Kept \cup (IF pull.kind = "local" THEN Bits(pull.body) ELSE {})
Begun == pull.pc = "clear" => queued \subseteq Kept \cup InMemory /\ pull.saved = rec
\* A plan that is fresh deals with everything but what came after it.
Planned ==
  pull.pc = "prepared" /\ pull.fresh =>
    queued \subseteq Kept \cup InMemory \cup (Bits(disk) \ Bits(pull.seen))
\* What the record takes for recorded has been.
Recorded ==
  ~Mergeable \/ pull.pc \notin {"write", "record"} =>
    mine \cap Bits(rec.local) \subseteq Kept \cup queued \cup Unqueued(rec)
RecordedSaved == ~Mergeable /\ Applying => mine \cap Bits(pull.saved.local) \subseteq Kept \cup queued

SurviveInv == InFile /\ InMutation /\ InHand /\ Begun /\ Planned /\ Recorded /\ RecordedSaved
SafeInv == BaseInv /\ UsedInv /\ NothingDeleted /\ MergedPlans /\ SurviveInv

(* A revision of the log keeps its edits.                                     *)
LEMMA KeptRevision ==
  ASSUME NEW i \in 1 .. Len(log)
  PROVE  Bits(log[i].text) \subseteq Kept
<1> DEFINE texts == {log[k].text : k \in {j \in 1 .. Len(log) : log[j].text # NoFile}}
<1>1. Committed = UNION texts
  BY DEF Committed
<1>2. log[i].text # NoFile => log[i].text \in texts
  OBVIOUS
<1>3. QED
  <2> HIDE DEF texts
  <2>1. log[i].text # NoFile => log[i].text \subseteq Committed
    BY <1>1, <1>2
  <2>2. QED
    BY <2>1 DEF Bits, Kept

(* What is kept stays kept.                                                   *)
LEMMA KeptGrows ==
  ASSUME TypeInv, [Next]_vars
  PROVE  Kept \subseteq Kept'
<1>1. copies \subseteq copies' /\ others \subseteq others'
  <2>1. CASE Work
    BY <2>1, WorkEffect, UpsertEffect
  <2>2. CASE ApplyConflict
    BY <2>2 DEF ApplyConflict
  <2>3. CASE ApplyVault \/ ApplyRecord \/ ApplyMerge
    BY <2>3, VaultEffect, RecordEffect, MergeEffect
  <2>4. CASE Commit \/ Crash
    BY <2>4, CommitEffect, CrashEffect
  <2>5. QED
    BY <2>1, <2>2, <2>3, <2>4, Steps
       DEF Apply, UserEdit, UserDelete, RemoteEdit, RemoteDelete, PreparePush, AcceptPush, ListStates,
           SkipOldRevision, PreparePull, BeginApply, Checkpoint, ApplyFails, DropEvent, vars
<1>2. Committed \subseteq Committed'
  BY LogExtends DEF Extends, Committed
<1>3. QED
  BY <1>1, <1>2 DEF Kept

(* Steps that leave file, record and history alone.                           *)
LEMMA SurviveQuiet ==
  ASSUME SurviveInv, Kept \subseteq Kept', UNCHANGED <<disk, rec, mine, queued>>,
         pull' = pull \/ (~Writing /\ pull'.pc \in {"idle", "listed", "checkpoint"})
  PROVE  SurviveInv'
<1>1. CASE pull' = pull
  BY <1>1 DEF SurviveInv, InFile, InMutation, InHand, Begun, Planned, Recorded, RecordedSaved,
              Writing, Applying, InMemory, PendingText, Unqueued, Bits
<1>2. CASE ~Writing /\ pull'.pc \in {"idle", "listed", "checkpoint"}
  BY <1>2 DEF SurviveInv, InFile, InMutation, InHand, Begun, Planned, Recorded, RecordedSaved,
              Writing, Applying, PendingText, Unqueued, Bits
<1>3. QED
  BY <1>1, <1>2

(* The user adds an edit that no text has yet.                                *)
LEMMA SurviveEdit ==
  ASSUME SafeInv, Next, UserEdit
  PROVE  SurviveInv'
<1>1. Kept \subseteq Kept' /\ UNCHANGED <<rec, pull, queued>>
  BY KeptGrows DEF SafeInv, BaseInv, UserEdit
<1>2. Bits(disk) \subseteq Bits(disk')
  <2>1. disk \in Text /\ NextEdit \in Edits
    BY Spending, NextEditTyped DEF SafeInv, BaseInv, UserEdit, TypeInv, TypeOK, BudgetNames, MaybeText
  <2>2. disk' # NoFile /\ disk \subseteq disk'
    BY <2>1, NothingIsNothing DEF UserEdit, Text
  <2>3. QED
    BY <2>1, <2>2, NothingIsNothing DEF Bits
<1>3. /\ NextEdit \in Nat /\ NextEdit \notin Bits(rec.local)
      /\ Applying => NextEdit \notin Bits(pull.saved.local)
  <2>1. NextEdit \in Nat
    BY NextEditGrows DEF SafeInv, BaseInv
  <2>2. QED
    BY <2>1 DEF SafeInv, UsedInv, OlderRecord, Older, Bits
<1>4. mine' = mine \cup {NextEdit}
  BY DEF UserEdit
<1>5. InFile' /\ InMutation' /\ InHand' /\ Begun' /\ Planned'
  BY <1>1, <1>2 DEF SafeInv, SurviveInv, InFile, InMutation, InHand, Begun, Planned, Writing,
                    InMemory, PendingText, Bits
<1>6. Recorded' /\ RecordedSaved'
  BY <1>1, <1>3, <1>4 DEF SafeInv, SurviveInv, Recorded, RecordedSaved, Applying, PendingText, Unqueued, Bits
<1>7. QED
  BY <1>5, <1>6 DEF SurviveInv

(* Or gives up all edits.                                                     *)
LEMMA SurviveDelete ==
  ASSUME SafeInv, UserDelete
  PROVE  SurviveInv'
<1>1. mine' = {} /\ queued' = {} /\ pull' = pull /\ rec' = rec
  BY DEF UserDelete
<1>2. QED
  BY <1>1 DEF SafeInv, SurviveInv, InFile, InMutation, InHand, Begun, Planned, Recorded, RecordedSaved

(* Where no pull is writing, and none is planned or what was planned is out   *)
(* of date, three things are to be shown.                                     *)
LEMMA SurviveBetween ==
  ASSUME ~Applying', ~(pull'.pc = "prepared" /\ pull'.fresh),
         queued' \subseteq Kept' \cup Bits(disk'),
         queued' \subseteq Kept' \cup PendingText(rec'),
         mine' \cap Bits(rec'.local) \subseteq Kept' \cup queued' \cup Unqueued(rec')
  PROVE  SurviveInv'
<1>1. ~Writing' /\ pull'.pc # "clear"
  BY DEF Writing, Applying
<1>2. QED
  BY <1>1 DEF SurviveInv, InFile, InMutation, InHand, Begun, Planned, Recorded, RecordedSaved

(* What recorder and scan have seen is in the file and in the mutation.       *)
LEMMA SurviveWork ==
  ASSUME Recoverable, SafeInv, Next, Work
  PROVE  SurviveInv'
<1>1. /\ TypeInv /\ Kept \subseteq Kept' /\ mine' = mine /\ ~Writing /\ ~Applying
      /\ rec \in Record /\ made \in Nat /\ disk \in MaybeText /\ NoFile \in MaybeText
      /\ events # << >> => Head(events) # "delete"
      /\ ~StatsFile => rec.local # NoFile
  <2>1. events # << >> => Len(events) \in Nat /\ 1 \in 1 .. Len(events) /\ Head(events) = events[1]
    BY SequenceElements DEF SafeInv, BaseInv, TypeInv, TypeOK
  <2>2. QED
    BY <2>1, KeptGrows, WorkEffect
       DEF SafeInv, BaseInv, TypeInv, TypeOK, NothingDeleted, NoDeleteEvent, Whole, MaybeText, Applying, Writing
<1>2. /\ queued \subseteq Kept \cup Bits(disk)
      /\ queued \subseteq Kept \cup PendingText(rec)
      /\ mine \cap Bits(rec.local) \subseteq Kept \cup queued \cup Unqueued(rec)
  BY <1>1 DEF SafeInv, SurviveInv, InFile, InMutation, Recorded, Writing
<1>3. ~Applying' /\ ~(pull'.pc = "prepared" /\ pull'.fresh)
  <2>1. CASE pull' = Stale(pull)
    BY <1>1, <2>1, StaleEffect DEF Applying, TypeInv, TypeOK
  <2>2. CASE pull' = NotPulling
    BY <2>2, NothingUnderWay DEF Applying
  <2>3. CASE pull' = PlannedAgain
    BY <1>1, <2>3, PlannedAgainEffect DEF Applying
  <2>4. QED
    BY <2>1, <2>2, <2>3, WorkEffect
<1>4. CASE UNCHANGED <<rec, made, others, disk, queued>>
  BY <1>1, <1>2, <1>3, <1>4, SurviveBetween DEF PendingText, Unqueued, Bits
<1>5. ASSUME disk # NoFile, queued' = Seen, Records(disk, disk), UNCHANGED <<others, disk>>
      PROVE  SurviveInv'
  <2>1. rec'.local = disk /\ PendingText(rec') = disk /\ Bits(disk) = disk
    BY <1>1, <1>5, RecordsEffect DEF PendingText, Bits
  <2>2. queued' = queued \cup (mine \cap disk)
    BY <1>5 DEF Seen
  <2>3. QED
    BY <1>1, <1>2, <1>3, <1>5, <2>1, <2>2, SurviveBetween
<1>6. ASSUME disk # NoFile, queued' = Seen, RecordUpsert(disk)
      PROVE  SurviveInv'
  <2>1. queued' = queued \cup (mine \cap disk) /\ Bits(disk) = disk
    BY <1>6 DEF Seen, Bits
  <2>2. CASE /\ UNCHANGED <<rec, made, others, disk>> /\ rec.local = disk
             /\ rec.pending = NoMutation \/ rec.pending.text = disk
    <3>1. PendingText(rec) = {} \/ PendingText(rec) = disk
      BY <2>1, <2>2 DEF PendingText
    <3>2. Unqueued(rec) \subseteq PendingText(rec)
      BY DEF Unqueued
    <3>3. rec' = rec /\ disk' = disk /\ Bits(rec'.local) = disk
      BY <2>1, <2>2
    <3>4. queued' \subseteq Kept' \cup PendingText(rec')
      BY <1>1, <1>2, <2>1, <2>2, <3>1, <3>2, <3>3
    <3>5. QED
      BY <1>1, <1>2, <1>3, <2>1, <3>3, <3>4, SurviveBetween
  <2>3. CASE UNCHANGED <<rec, made>> /\ rec.local = NoFile /\ others' = others \cup {disk} /\ disk' = NoFile
    <3>1. disk \subseteq Kept'
      BY <2>3 DEF Kept
    <3>2. Bits(rec'.local) = {} /\ rec' = rec
      BY <2>3 DEF Bits
    <3>3. QED
      BY <1>1, <1>2, <1>3, <2>1, <3>1, <3>2, SurviveBetween
  <2>4. QED
    BY <1>5, <1>6, <2>2, <2>3, UpsertEffect
<1>7. ASSUME disk = NoFile, RecordDelete, UNCHANGED <<others, disk, queued>>
      PROVE  SurviveInv'
  <2>1. Bits(disk) = {}
    BY <1>7 DEF Bits
  <2>2. CASE Records(NoFile, NoFile)
    <3>1. Bits(rec'.local) = {}
      BY <1>1, <2>2, RecordsEffect DEF Bits
    <3>2. QED
      BY <1>1, <1>2, <1>3, <1>7, <2>1, <3>1, SurviveBetween
  <2>3. CASE UNCHANGED <<rec, made>>
    BY <1>4, <1>7, <2>3
  <2>4. QED
    BY <1>7, <2>2, <2>3, DeleteEffect
<1>8. QED
  BY <1>1, <1>4, <1>5, <1>6, <1>7, WorkEffect

(* The mutation an accepted push takes from the record is in the log.         *)
LEMMA SurviveAccept ==
  ASSUME SafeInv, Next, AcceptPush
  PROVE  SurviveInv'
<1>1. /\ TypeInv /\ NamesUnique /\ AtHand /\ Kept \subseteq Kept' /\ ~Writing /\ ~Applying
      /\ rec \in Record /\ pull \in Pull
  BY KeptGrows DEF SafeInv, BaseInv, TypeInv, TypeOK, AcceptPush, Applying, Writing
<1>2. /\ push.pc = "accepted" /\ push.sent \in Mutation /\ push.rev \in 1 .. Len(log)
      /\ push.rev \in Nat /\ log[push.rev].text = push.sent.text /\ Sending
      /\ UNCHANGED <<log, disk, mine, queued>>
      /\ rec' = IF rec.rev > push.rev THEN rec ELSE Acknowledged(rec, push.sent, push.rev)
  BY <1>1 DEF AcceptPush, TypeInv, UnderWay, Sending, AtHand
<1>3. /\ queued \subseteq Kept \cup Bits(disk)
      /\ queued \subseteq Kept \cup PendingText(rec)
      /\ mine \cap Bits(rec.local) \subseteq Kept \cup queued \cup Unqueued(rec)
  BY <1>1 DEF SafeInv, SurviveInv, InFile, InMutation, Recorded, Writing
<1>4. ~Applying' /\ ~(pull'.pc = "prepared" /\ pull'.fresh)
  BY <1>1, StaleEffect DEF AcceptPush, Applying
<1>5. Bits(push.sent.text) \subseteq Kept
  BY <1>2, KeptRevision
<1>6. rec'.local = rec.local /\ PendingText(rec) \subseteq Kept \cup PendingText(rec')
  <2>1. CASE rec' = rec
    BY <2>1
  <2>2. CASE rec' = Acknowledged(rec, push.sent, push.rev)
    <3>1. rec'.local = rec.local
      BY <1>1, <1>2, <2>2, AcknowledgedEffect
    <3>2. CASE rec.pending = NoMutation
      BY <3>1, <3>2 DEF PendingText
    <3>3. CASE rec.pending # NoMutation /\ rec.pending.m = push.sent.m
      <4>1. rec.pending.text = push.sent.text
        <5>1. push.sent.m \in Nat
          BY <1>2 DEF Mutation
        <5>2. Names(push.sent.m, push.sent.text) /\ Names(push.sent.m, rec.pending.text)
          BY <1>2, <3>3 DEF Names, Wants
        <5>3. QED
          BY <1>1, <5>1, <5>2 DEF NamesUnique
      <4>2. QED
        BY <1>5, <3>1, <3>3, <4>1 DEF PendingText
    <3>4. CASE rec.pending # NoMutation /\ rec.pending.m # push.sent.m
      BY <1>1, <1>2, <2>2, <3>1, <3>4, AcknowledgedEffect DEF PendingText
    <3>5. QED
      BY <3>2, <3>3, <3>4
  <2>3. QED
    BY <1>2, <2>1, <2>2
<1>7. Unqueued(rec) \subseteq Kept \cup Unqueued(rec')
  BY <1>6 DEF Unqueued
<1>8. QED
  BY <1>1, <1>2, <1>3, <1>4, <1>6, <1>7, SurviveBetween

(* A plan keeps what the file and the pending mutation have.                  *)
LEMMA PlanKeeps ==
  ASSUME SafeInv, PreparePull
  PROVE  queued \subseteq Kept \cup InMemory'
<1>1. /\ TypeInv /\ UnderWay /\ AtHand /\ ~Writing /\ pull.pc = "listed"
      /\ Shows(rec, log)
  BY DEF SafeInv, BaseInv, TypeInv, PreparePull, Writing
<1>2. queued \subseteq Kept \cup Bits(disk) /\ queued \subseteq Kept \cup PendingText(rec)
  BY <1>1 DEF SafeInv, SurviveInv, InFile, InMutation
<1>3. Bits(pull.text) \subseteq Kept
  BY <1>1, KeptRevision DEF UnderWay, AtHand
<1>4. rec.pending # NoMutation => Bits(rec.pending.baseText) \subseteq Kept
  BY <1>1, KeptRevision DEF Shows
<1>5. PICK d \in Decide(rec.pending, pull.text) : pull'.kind = d.kind /\ pull'.body = d.body
  BY <1>1, PrepareEffect
<1>6. CASE rec.pending = NoMutation
  BY <1>2, <1>6 DEF PendingText
<1>7. CASE rec.pending # NoMutation /\ IsAlreadyRemote(rec.pending, pull.text)
  BY <1>2, <1>3, <1>7 DEF IsAlreadyRemote, PendingText
<1>8. ASSUME rec.pending # NoMutation, CanMerge(rec.pending, pull.text),
             d.body = Merge(rec.pending.baseText, disk, pull.text) \/ Merge(rec.pending.baseText, disk, pull.text) = pull.text
      PROVE  queued \subseteq Kept \cup Merge(rec.pending.baseText, disk, pull.text)
  <2>1. Bits(disk) = disk /\ Bits(rec.pending.baseText) = rec.pending.baseText
    BY <1>8 DEF CanMerge, Bits
  <2>2. QED
    BY <1>2, <1>4, <1>8, <2>1 DEF Merge
<1>9. CASE /\ rec.pending # NoMutation /\ CanMerge(rec.pending, pull.text)
           /\ Merge(rec.pending.baseText, disk, pull.text) = pull.text
  <2>1. pull.text = Bits(pull.text)
    BY <1>9 DEF CanMerge, Bits
  <2>2. QED
    BY <1>3, <1>8, <1>9, <2>1
<1>10. CASE /\ rec.pending # NoMutation /\ CanMerge(rec.pending, pull.text) /\ d.kind = "local"
            /\ d.body = Merge(rec.pending.baseText, disk, pull.text)
  <2>1. d.body # NoFile
    <3>1. disk \in Text /\ pull.text \in Text /\ rec.pending.baseText \in Text
      BY <1>1, <1>10 DEF CanMerge, MaybeText, TypeInv, TypeOK, Record, Mutation, Pull
    <3>2. d.body \in Text
      BY <1>10, <3>1 DEF Merge, Text
    <3>3. QED
      BY <3>2, NothingIsNothing
  <2>2. InMemory' = d.body
    BY <1>5, <1>10, <2>1 DEF InMemory
  <2>3. QED
    BY <1>8, <1>10, <2>2
<1>11. CASE /\ rec.pending # NoMutation /\ d.kind = "conflict"
            /\ d.body = IF rec.pending.text # NoFile THEN disk ELSE NoFile
  BY <1>2, <1>5, <1>11 DEF InMemory, PendingText, Bits
<1>12. QED
  BY <1>6, <1>7, <1>9, <1>10, <1>11, DecideEffect

LEMMA SurvivePrepare ==
  ASSUME SafeInv, Next, PreparePull
  PROVE  SurviveInv'
<1>1. /\ TypeInv /\ Kept \subseteq Kept' /\ ~Writing /\ UNCHANGED <<disk, rec, mine, queued>>
      /\ pull'.pc = "prepared" /\ pull'.seen = disk
  BY KeptGrows, PrepareEffect DEF SafeInv, BaseInv, PreparePull, Writing
<1>2. queued \subseteq Kept \cup InMemory'
  BY PlanKeeps
<1>3. ~Writing' /\ ~Applying'
  BY <1>1 DEF Writing, Applying
<1>4. Planned'
  BY <1>1, <1>2 DEF Planned
<1>5. InFile' /\ InMutation' /\ Recorded'
  BY <1>1 DEF SafeInv, SurviveInv, InFile, InMutation, Recorded, Writing, PendingText, Unqueued, Bits
<1>6. QED
  BY <1>1, <1>3, <1>4, <1>5 DEF SurviveInv, InHand, Begun, RecordedSaved

(* Nothing came between plan and application.                                 *)
LEMMA SurviveBegin ==
  ASSUME SafeInv, Next, BeginApply
  PROVE  SurviveInv'
<1>1. /\ TypeInv /\ Kept \subseteq Kept' /\ UNCHANGED <<disk, rec, mine, queued>>
      /\ pull.pc = "prepared" /\ pull.fresh /\ disk = pull.seen /\ ~Writing /\ pull'.pc = "clear"
      /\ pull'.saved = rec /\ pull'.kind = pull.kind /\ pull'.body = pull.body
  BY KeptGrows, BeginEffect DEF SafeInv, BaseInv, BeginApply, Writing
<1>2. queued \subseteq Kept \cup InMemory
  BY <1>1 DEF SafeInv, SurviveInv, Planned
<1>3. Begun' /\ ~Writing'
  BY <1>1, <1>2 DEF Begun, InMemory, Writing
<1>4. InFile' /\ InMutation' /\ Recorded' /\ RecordedSaved'
  BY <1>1 DEF SafeInv, SurviveInv, InFile, InMutation, Recorded, RecordedSaved, Writing, PendingText, Unqueued, Bits
<1>5. QED
  BY <1>1, <1>3, <1>4 DEF SurviveInv, InHand, Planned

(* The conflict copy has what the cleared mutation had.                       *)
LEMMA SurviveConflict ==
  ASSUME SafeInv, Next, ApplyConflict
  PROVE  SurviveInv'
<1>1. /\ TypeInv /\ Kept \subseteq Kept' /\ UNCHANGED <<disk, mine, queued>> /\ rec'.local = rec.local
      /\ pull.pc = "clear" /\ pull'.pc = "write" /\ pull'.saved = pull.saved
      /\ pull'.kind = pull.kind /\ pull'.body = pull.body /\ Applying
  BY KeptGrows, ConflictEffect, PullTyped DEF SafeInv, BaseInv, Applying
<1>2. queued \subseteq Kept \cup InMemory
  BY <1>1 DEF SafeInv, SurviveInv, Begun
<1>3. InMemory \subseteq Kept' \cup (IF pull.kind = "local" THEN Bits(pull.body) ELSE {})
  <2>1. CASE pull.kind = "conflict" /\ pull.body # NoFile
    <3>1. copies' = copies \cup {pull.body}
      BY <2>1 DEF ApplyConflict
    <3>2. QED
      BY <2>1, <3>1 DEF Kept, InMemory
  <2>2. CASE ~(pull.kind = "conflict" /\ pull.body # NoFile)
    BY <2>2 DEF InMemory, Bits
  <2>3. QED
    BY <2>1, <2>2
<1>4. InHand' /\ Writing'
  BY <1>1, <1>2, <1>3 DEF InHand, Writing, Bits
<1>5. Recorded' /\ RecordedSaved'
  BY <1>1 DEF SafeInv, SurviveInv, Recorded, RecordedSaved, Unqueued, Bits
<1>6. QED
  BY <1>1, <1>4, <1>5 DEF SurviveInv, InFile, InMutation, Begun, Planned

LEMMA SurviveVault ==
  ASSUME SafeInv, Next, ApplyVault
  PROVE  SurviveInv'
<1>1. /\ TypeInv /\ Kept \subseteq Kept' /\ UNCHANGED <<mine, queued>>
      /\ rec' = rec \/ rec'.local = NoFile
      /\ pull.pc = "write" /\ pull'.pc = "record" /\ pull'.saved = pull.saved
      /\ pull'.kind = pull.kind /\ pull'.body = pull.body /\ Applying
  BY KeptGrows, VaultEffect, PullTyped DEF SafeInv, BaseInv, Applying
<1>2. InHand' /\ Writing'
  BY <1>1 DEF SafeInv, SurviveInv, InHand, Writing, Bits
<1>3. Recorded' /\ RecordedSaved'
  BY <1>1 DEF SafeInv, SurviveInv, Recorded, RecordedSaved, Unqueued, Bits
<1>4. QED
  BY <1>1, <1>2, <1>3 DEF SurviveInv, InFile, InMutation, Begun, Planned

LEMMA SurviveRecord ==
  ASSUME SafeInv, Next, ApplyRecord
  PROVE  SurviveInv'
<1>1. /\ TypeInv /\ Kept \subseteq Kept' /\ UNCHANGED <<mine, queued>> /\ rec'.local = pull.text
      /\ pull.pc = "record" /\ pull'.pc = "merge" /\ pull'.saved = pull.saved
      /\ pull'.kind = pull.kind /\ pull'.body = pull.body /\ Applying
  BY KeptGrows, RecordEffect, PullTyped DEF SafeInv, BaseInv, Applying
<1>2. Bits(pull.text) \subseteq Kept
  BY <1>1, KeptRevision DEF SafeInv, BaseInv, TypeInv, UnderWay, AtHand
<1>3. InHand' /\ Writing'
  BY <1>1 DEF SafeInv, SurviveInv, InHand, Writing, Bits
<1>4. Recorded' /\ RecordedSaved'
  BY <1>1, <1>2 DEF SafeInv, SurviveInv, Recorded, RecordedSaved
<1>5. QED
  BY <1>1, <1>3, <1>4 DEF SurviveInv, InFile, InMutation, Begun, Planned

(* The merged text goes to the file and to a mutation.                        *)
LEMMA SurviveMerge ==
  ASSUME SafeInv, Next, ApplyMerge
  PROVE  SurviveInv'
<1>1. /\ TypeInv /\ Kept \subseteq Kept' /\ UNCHANGED <<mine, queued>>
      /\ pull.pc = "merge" /\ Writing /\ pull'.pc = "checkpoint" /\ ~Applying'
  BY KeptGrows, MergeEffect, PullTyped DEF SafeInv, BaseInv, Applying, Writing
<1>2. queued \subseteq Kept \cup (IF pull.kind = "local" THEN Bits(pull.body) ELSE {})
  BY <1>1 DEF SafeInv, SurviveInv, InHand
<1>3. mine \cap Bits(rec.local) \subseteq Kept \cup queued \cup Unqueued(rec)
  BY <1>1 DEF SafeInv, SurviveInv, Recorded
<1>4. CASE pull.kind # "local"
  <2>1. rec' = rec
    BY <1>1, <1>4, MergeEffect
  <2>2. QED
    BY <1>1, <1>2, <1>3, <1>4, <2>1, SurviveBetween
<1>5. CASE pull.kind = "local"
  <2>1. /\ disk' = pull.body /\ rec'.local = pull.body /\ rec'.pending # NoMutation
        /\ rec'.pending.text = pull.body /\ Mergeable
    BY <1>1, <1>5, MergeEffect DEF SafeInv, MergedPlans
  <2>2. PendingText(rec') = Bits(pull.body) /\ Unqueued(rec') = Bits(pull.body)
    BY <2>1 DEF PendingText, Unqueued
  <2>3. QED
    BY <1>1, <1>2, <1>5, <2>1, <2>2, SurviveBetween
<1>6. QED
  BY <1>4, <1>5

(* Files whose pulls may stop half way are not merged: a conflict copy is     *)
(* written before anything else is.                                           *)
LEMMA StopsAreSafe ==
  ASSUME Recoverable, SafeInv, Crash \/ ApplyFails
  PROVE  /\ ~Mergeable /\ pull.kind # "local"
         /\ queued \subseteq Kept \cup Bits(disk)
         /\ pull.pc # "clear" => queued \subseteq Kept \cup PendingText(rec)
         /\ Writing => queued \subseteq Kept
<1>1. TypeInv
  BY DEF SafeInv, BaseInv
<1>2. Crash => MaxCrashes # 0
  BY <1>1, CrashEffect DEF TypeInv, Budgets, BudgetNames
<1>3. ApplyFails => MaxFailures # 0
  BY <1>1 DEF ApplyFails, Spend, TypeInv, Budgets, BudgetNames
<1>4. ~Mergeable /\ pull.kind # "local"
  BY <1>2, <1>3 DEF Recoverable, SafeInv, MergedPlans
<1>5. QED
  BY <1>4 DEF SafeInv, SurviveInv, InFile, InMutation, InHand

LEMMA SurviveFails ==
  ASSUME Recoverable, SafeInv, Next, ApplyFails
  PROVE  SurviveInv'
<1>1. /\ TypeInv /\ Kept \subseteq Kept' /\ UNCHANGED <<disk, mine, queued>>
      /\ rec' = pull.saved /\ pull' = NotPulling /\ Applying
  BY KeptGrows DEF SafeInv, BaseInv, ApplyFails
<1>2. ~Applying' /\ pull'.pc = "idle"
  BY <1>1, NothingUnderWay DEF Applying
<1>3. queued \subseteq Kept \cup PendingText(pull.saved)
  <2>1. CASE pull.pc = "clear"
    BY <2>1 DEF SafeInv, SurviveInv, InMutation, Begun, Writing
  <2>2. CASE Writing
    BY <2>2, StopsAreSafe
  <2>3. QED
    BY <1>1, <2>1, <2>2 DEF Applying, Writing
<1>4. mine \cap Bits(pull.saved.local) \subseteq Kept \cup queued
  BY <1>1, StopsAreSafe DEF SafeInv, SurviveInv, RecordedSaved
<1>5. QED
  BY <1>1, <1>2, <1>3, <1>4, StopsAreSafe, SurviveBetween

LEMMA SurviveCrash ==
  ASSUME Recoverable, SafeInv, Next, Crash
  PROVE  SurviveInv'
<1>1. /\ TypeInv /\ Kept \subseteq Kept' /\ mine' = mine /\ queued' = queued /\ pull' = NotPulling
      /\ rec \in Record /\ made \in Nat /\ disk \in MaybeText /\ rec.local \in MaybeText
  BY KeptGrows, CrashEffect DEF SafeInv, BaseInv, TypeInv, TypeOK, Record, MaybeText
<1>2. /\ ~Applying' /\ pull'.pc = "idle" /\ ~Mergeable /\ pull.kind # "local"
      /\ queued \subseteq Kept \cup Bits(disk)
      /\ queued \subseteq Kept \cup PendingText(rec)
      /\ mine \cap Bits(rec.local) \subseteq Kept \cup queued
  <2>1. mine \cap Bits(rec.local) \subseteq Kept \cup queued
    BY StopsAreSafe DEF SafeInv, SurviveInv, Recorded, Unqueued
  <2>2. queued \subseteq Kept \cup PendingText(rec)
    BY StopsAreSafe DEF SafeInv, SurviveInv, InMutation
  <2>3. QED
    BY <1>1, <2>1, <2>2, StopsAreSafe, NothingUnderWay DEF Applying
<1>3. CASE UNCHANGED <<disk, rec, made>>
  BY <1>1, <1>2, <1>3, SurviveBetween
<1>4. ASSUME disk # NoFile, UNCHANGED disk, Records(rec.local, disk)
      PROVE  SurviveInv'
  <2>1. rec'.local = rec.local /\ PendingText(rec') = Bits(disk)
    BY <1>1, <1>4, RecordsEffect DEF PendingText
  <2>2. QED
    BY <1>1, <1>2, <1>4, <2>1, SurviveBetween
<1>5. ASSUME UNCHANGED disk, rec'.local = NoFile, disk = NoFile \/ (events # << >> /\ Head(events) = "delete")
      PROVE  SurviveInv'
  <2>1. events # << >> => Head(events) # "delete"
    <3>1. events # << >> => Len(events) \in Nat /\ 1 \in 1 .. Len(events) /\ Head(events) = events[1]
      BY <1>1, SequenceElements DEF TypeInv, TypeOK
    <3>2. QED
      BY <3>1 DEF SafeInv, NothingDeleted, NoDeleteEvent
  <2>2. Bits(disk) = {} /\ Bits(rec'.local) = {}
    BY <1>5, <2>1 DEF Bits
  <2>3. QED
    BY <1>1, <1>2, <1>5, <2>2, SurviveBetween
<1>6. QED
  BY <1>1, <1>2, <1>3, <1>4, <1>5, CrashEffect

LEMMA SafeInitially ==
  ASSUME Init
  PROVE  SafeInv
<1>1. BaseInv /\ UsedInv
  BY BaseInitially, UsedInitially
<1>2. /\ ~Applying /\ ~Sending /\ pull.pc = "idle" /\ pull.kind = "none"
  BY NothingUnderWay DEF Init, Applying, Sending, NotPulling
<1>3. /\ disk = {} /\ rec.local = {} /\ rec.pending = NoMutation /\ events = << >>
      /\ Len(log) = 1 /\ log[1].text = {} /\ mine = {} /\ queued = {}
  BY DEF Init
<1>4. {} # NoFile
  BY NothingIsNothing DEF Text
<1>5. NothingDeleted /\ MergedPlans
  BY <1>2, <1>3, <1>4 DEF NothingDeleted, NoDeleteEvent, MergedPlans, Whole
<1>6. SurviveInv
  BY <1>2, <1>3 DEF SurviveInv, InFile, InMutation, InHand, Begun, Planned, Recorded, RecordedSaved, Writing
<1>7. QED
  BY <1>1, <1>5, <1>6 DEF SafeInv

LEMMA SafeStep ==
  ASSUME Recoverable, SafeInv, [Next]_vars
  PROVE  SafeInv'
<1>1. /\ TypeInv /\ BaseInv' /\ UsedInv' /\ NothingDeleted' /\ MergedPlans'
      /\ SurviveInv /\ Kept \subseteq Kept'
  BY BaseStep, UsedStep, DeletedStep, KeptGrows DEF SafeInv, BaseInv
<1>2. CASE UNCHANGED vars \/ RemoteEdit \/ RemoteDelete \/ PreparePush \/ Commit \/ DropEvent
  <2>1. UNCHANGED <<disk, rec, mine, queued, pull>>
    BY <1>1, <1>2, CommitEffect DEF RemoteEdit, RemoteDelete, PreparePush, DropEvent, vars
  <2>2. QED
    BY <1>1, <2>1, SurviveQuiet DEF SafeInv
<1>3. CASE ListStates \/ SkipOldRevision \/ Checkpoint
  <2>1. pull'.pc \in {"idle", "listed", "checkpoint"}
    BY <1>1, <1>3, ListedEffect, PullTyped, NothingUnderWay DEF ListStates, SkipOldRevision, Checkpoint
  <2>2. UNCHANGED <<disk, rec, mine, queued>> /\ ~Writing
    BY <1>3 DEF ListStates, SkipOldRevision, Checkpoint, Writing
  <2>3. QED
    BY <1>1, <2>1, <2>2, SurviveQuiet DEF SafeInv
<1>4. CASE Next
  BY <1>1, <1>2, <1>3, <1>4, Steps, SurviveEdit, SurviveDelete, SurviveWork, SurviveAccept,
     SurvivePrepare, SurviveBegin, SurviveConflict, SurviveVault, SurviveRecord, SurviveMerge,
     SurviveFails, SurviveCrash DEF SafeInv, Apply
<1>5. QED
  BY <1>1, <1>2, <1>4 DEF SafeInv

(* An edit the recorder has seen is never lost: it stays in the file, in a    *)
(* conflict copy, in a file of its own, in a committed revision or in the     *)
(* text a pull is about to write; however edits, events, pushes, pulls and,   *)
(* for a file that is not merged, stops of the process interleave.            *)
THEOREM NoRecordedEditLost == Recoverable /\ Spec => []RecordedEditsSurvive
<1>1. Init => SafeInv
  BY SafeInitially
<1>2. Recoverable /\ SafeInv /\ [Next]_vars => SafeInv'
  BY SafeStep
<1>3. SafeInv => RecordedEditsSurvive
  <2> SUFFICES ASSUME SafeInv
               PROVE  queued \subseteq Files \cup Committed \cup InMemory
    BY DEF RecordedEditsSurvive
  <2>1. CASE ~Writing
    BY <2>1 DEF SafeInv, SurviveInv, InFile, Kept, Files, Bits
  <2>2. CASE Writing
    BY <2>2 DEF SafeInv, SurviveInv, InHand, MergedPlans, Kept, Files, InMemory, Bits
  <2>3. QED
    BY <2>1, <2>2
<1>4. QED
  <2>1. Recoverable /\ SafeInv /\ [Next]_vars => (SafeInv /\ Recoverable)'
    BY <1>2 DEF Recoverable
  <2>2. QED
    BY <1>1, <1>3, <2>1, PTL DEF Spec

-----------------------------------------------------------------------------
(* Pushes take nothing from the newest revision.                              *)

\* The text t has every edit of the first r revisions of the log l.
Full(l, t, r) == t # NoFile => \A i \in 1 .. r : Bits(l[i].text) \subseteq t
\* Only the k-th revision of the log l may be from the mutation m.
OnlyAt(l, m, k) == \A i \in 1 .. Len(l) : l[i].m = m => i = k

(* File and mutation have what the record's revision and all before it have,  *)
(* and a mutation is committed on top of its base or not at all.              *)
FullRecord(l, d, r) ==
  /\ Full(l, d, r.rev)
  /\ r.pending # NoMutation =>
       /\ r.pending.base = r.rev /\ Full(l, r.pending.text, r.rev)
       /\ OnlyAt(l, r.pending.m, r.rev + 1)
LogFull == \A j \in 1 .. Len(log) : Full(log, log[j].text, j)
\* Without restores from the history the sync loop pulls or pushes.
OneAtATime == pull.pc # "idle" => push.pc = "idle" /\ pull.by = "loop"
PullFull ==
  /\ Applying \/ (pull.pc = "prepared" /\ pull.fresh) =>
       /\ rec.rev <= pull.rev
       /\ pull.skip /\ pull.pc \in {"prepared", "clear", "write"} => rec.rev = pull.rev
       /\ pull.kind = "local" => Full(log, pull.body, pull.rev)
  /\ pull.pc \in {"record", "merge"} => Full(log, disk, pull.rev)
  /\ pull.pc = "merge" => rec.rev = pull.rev
  /\ Applying => pull.saved.rev <= pull.rev /\ FullRecord(log, disk, pull.saved)
\* A mutation queued after the one that was sent has what that one has.
Newer(l, r, m) ==
  r.pending # NoMutation /\ r.pending.m # m.m =>
    /\ \A i \in 1 .. Len(l) : l[i].m # r.pending.m
    /\ r.pending.text # NoFile => Bits(m.text) \subseteq r.pending.text
PushFull ==
  Sending =>
    /\ push.sent.base = rec.rev /\ Full(log, push.sent.text, rec.rev)
    /\ disk # NoFile => Bits(push.sent.text) \subseteq disk
    /\ OnlyAt(log, push.sent.m, rec.rev + 1)
    /\ Newer(log, rec, push.sent)
    /\ push.pc = "accepted" => push.rev = rec.rev + 1
PushInv == BaseInv /\ LogFull /\ FullRecord(log, disk, rec) /\ OneAtATime /\ PullFull /\ PushFull

(* Numbers and texts that the steps below are about.                          *)
LEMMA PushTypes ==
  ASSUME PushInv
  PROVE  /\ TypeInv /\ UnderWay /\ AtHand /\ NamesUnique /\ Shows(rec, log)
         /\ rec \in Record /\ made \in Nat /\ pull \in Pull /\ disk \in MaybeText /\ NoFile \in MaybeText
         /\ log \in Seq([m : Nat, text : MaybeText]) /\ Len(log) \in Nat /\ Len(log) >= 1
         /\ rec.rev \in Nat /\ rec.rev \in 1 .. Len(log) /\ rec.local \in MaybeText
         /\ pull.rev \in Nat /\ (pull.pc # "idle" => pull.rev \in 1 .. Len(log))
         /\ rec.pending # NoMutation => rec.pending \in Mutation /\ rec.pending.m \in Nat /\ rec.pending.m # 0
         /\ Sending => push.sent \in Mutation /\ push.sent.m \in Nat /\ push.sent.m # 0
         /\ Applying => /\ pull.saved \in Record /\ pull.saved.rev \in Nat /\ pull.saved.rev \in 1 .. Len(log)
                        /\ Shows(pull.saved, log)
                        /\ pull.saved.pending # NoMutation => pull.saved.pending.m \in Nat \ {0}
<1>1. /\ TypeInv /\ UnderWay /\ AtHand /\ NamesUnique /\ Shows(rec, log)
      /\ rec \in Record /\ made \in Nat /\ pull \in Pull /\ disk \in MaybeText /\ NoFile \in MaybeText
      /\ log \in Seq([m : Nat, text : MaybeText]) /\ Len(log) >= 1
  BY DEF PushInv, BaseInv, TypeInv, TypeOK, UnderWay, MaybeText
<1>2. Len(log) \in Nat
  BY <1>1, SequenceElements
<1>3. \A r \in Record : /\ r.rev \in Nat /\ r.local \in MaybeText
                        /\ r.pending # NoMutation => /\ r.pending \in Mutation
                                                     /\ r.pending.m \in Nat /\ r.pending.m # 0
  BY DEF Record, Mutation
<1>4. rec.rev \in 1 .. Len(log) /\ pull.rev \in Nat
  BY <1>1 DEF Shows, Pull
<1>5. Sending => push.sent \in Mutation /\ push.sent.m \in Nat /\ push.sent.m # 0
  BY <1>1 DEF UnderWay, Mutation
<1>6. Applying => /\ pull.saved \in Record /\ Shows(pull.saved, log) /\ pull.saved.rev \in 1 .. Len(log)
  BY <1>1 DEF UnderWay, AtHand, Shows
<1>7. pull.pc # "idle" => pull.rev \in 1 .. Len(log)
  BY <1>1 DEF UnderWay
<1>8. QED
  BY <1>1, <1>2, <1>3, <1>4, <1>5, <1>6, <1>7

(* What holds of a log holds of a longer one.                                 *)
LEMMA FullKept ==
  ASSUME NEW l, NEW k, Extends(k, l), NEW t, NEW r \in Nat, r <= Len(l), Full(l, t, r)
  PROVE  Full(k, t, r)
BY DEF Extends, Full

LEMMA OnlyAtKept ==
  ASSUME NEW S, NEW l \in Seq(S), NEW x \in S, NEW m, NEW k, OnlyAt(l, m, k), x.m = m => Len(l) + 1 = k
  PROVE  OnlyAt(Append(l, x), m, k)
<1>1. \A i \in 1 .. Len(l) + 1 : i \in 1 .. Len(l) \/ i = Len(l) + 1
  BY SequenceElements
<1>2. QED
  BY <1>1, AppendKeeps DEF OnlyAt

(* A revision that has all before it keeps the log that way.                  *)
LEMMA LogFullGrows ==
  ASSUME PushInv, NEW x \in [m : Nat, text : MaybeText], log' = Append(log, x), Extends(log', log),
         Full(log, x.text, Len(log))
  PROVE  LogFull'
<1>1. /\ log \in Seq([m : Nat, text : MaybeText]) /\ Len(log) \in Nat /\ Len(log') = Len(log) + 1
      /\ log'[Len(log) + 1] = x
  BY PushTypes, AppendKeeps
<1>2. Full(log', x.text, Len(log) + 1)
  <2>1. Full(log', x.text, Len(log))
    BY <1>1, FullKept
  <2>2. \A i \in 1 .. Len(log) + 1 : i \in 1 .. Len(log) \/ i = Len(log) + 1
    BY <1>1
  <2>3. Bits(x.text) \subseteq x.text \/ x.text = NoFile
    BY DEF Bits
  <2>4. QED
    BY <1>1, <2>1, <2>2, <2>3 DEF Full
<1>3. ASSUME NEW j \in 1 .. Len(log')
      PROVE  Full(log', log'[j].text, j)
  <2>1. CASE j = Len(log) + 1
    BY <1>1, <1>2, <2>1
  <2>2. CASE j \in 1 .. Len(log)
    <3>1. log'[j] = log[j] /\ Full(log, log[j].text, j)
      BY <2>2 DEF Extends, PushInv, LogFull
    <3>2. QED
      BY <1>1, <2>2, <3>1, FullKept
  <2>3. QED
    BY <1>1, <2>1, <2>2
<1>4. QED
  BY <1>3 DEF LogFull

LEMMA FullRecordGrows ==
  ASSUME PushInv, NEW x \in [m : Nat, text : MaybeText], log' = Append(log, x), Extends(log', log),
         NEW r, r.rev \in Nat, r.rev <= Len(log), FullRecord(log, disk, r),
         r.pending # NoMutation /\ x.m = r.pending.m => Len(log) = r.rev
  PROVE  FullRecord(log', disk, r)
<1>1. log \in Seq([m : Nat, text : MaybeText]) /\ Len(log) \in Nat
  BY PushTypes
<1>2. Full(log', disk, r.rev)
  BY <1>1, FullKept DEF FullRecord
<1>3. ASSUME r.pending # NoMutation
      PROVE  /\ r.pending.base = r.rev /\ Full(log', r.pending.text, r.rev)
             /\ OnlyAt(log', r.pending.m, r.rev + 1)
  <2>1. r.pending.base = r.rev /\ Full(log', r.pending.text, r.rev)
    BY <1>1, <1>3, FullKept DEF FullRecord
  <2>2. OnlyAt(log, r.pending.m, r.rev + 1) /\ (x.m = r.pending.m => Len(log) + 1 = r.rev + 1)
    BY <1>3 DEF FullRecord
  <2>3. OnlyAt(Append(log, x), r.pending.m, r.rev + 1)
    <3> DEFINE S == [m : Nat, text : MaybeText]
    <3>1. x \in S /\ log \in Seq(S)
      BY <1>1
    <3> HIDE DEF S
    <3>2. QED
      BY <2>2, <3>1, OnlyAtKept
  <2>4. QED
    BY <2>1, <2>3
<1>4. QED
  BY <1>2, <1>3 DEF FullRecord

(* A file that gains edits, or is gone, still has what it must.               *)
LEMMA FullRecordFile ==
  ASSUME NEW l, NEW d, NEW e, NEW r, e = NoFile \/ (d # NoFile /\ d \subseteq e), FullRecord(l, d, r)
  PROVE  FullRecord(l, e, r)
BY DEF FullRecord, Full

(* Steps of the pull that leave file, record and log alone.                   *)
LEMMA PushQuiet ==
  ASSUME PushInv, BaseInv', UNCHANGED <<log, disk, rec, push>>,
         \/ pull' = pull
         \/ /\ pull'.pc \in {"idle", "checkpoint"}
            /\ pull'.pc # "idle" => pull.pc # "idle" /\ pull'.by = pull.by
  PROVE  PushInv'
<1>1. LogFull' /\ FullRecord(log, disk, rec)'
  BY DEF PushInv, LogFull
<1>2. OneAtATime' /\ PullFull'
  BY DEF PushInv, OneAtATime, PullFull, Applying
<1>3. PushFull'
  BY DEF PushInv, PushFull, Sending
<1>4. QED
  BY <1>1, <1>2, <1>3 DEF PushInv

(* The user.                                                                  *)
LEMMA PushUser ==
  ASSUME PushInv, BaseInv', UserEdit \/ UserDelete
  PROVE  PushInv'
<1>1. UNCHANGED <<log, rec, push, pull>>
  BY DEF UserEdit, UserDelete
<1>2. disk' = NoFile \/ (disk # NoFile /\ disk \subseteq disk')
  <2>1. CASE UserDelete
    BY <2>1 DEF UserDelete
  <2>2. CASE UserEdit
    BY <2>2 DEF UserEdit
  <2>3. QED
    BY <2>1, <2>2
<1>3. LogFull' /\ FullRecord(log, disk, rec)' /\ OneAtATime'
  BY <1>1, <1>2, FullRecordFile DEF PushInv, LogFull, OneAtATime
<1>4. PullFull'
  <2>1. pull.pc \in {"record", "merge"} => Full(log, disk', pull.rev)
    BY <1>2 DEF PushInv, PullFull, Full
  <2>2. Applying => FullRecord(log, disk', pull.saved)
    BY <1>2, FullRecordFile DEF PushInv, PullFull
  <2>3. QED
    BY <1>1, <2>1, <2>2 DEF PushInv, PullFull, Applying
<1>5. PushFull'
  BY <1>1, <1>2 DEF PushInv, PushFull, Sending
<1>6. QED
  BY <1>3, <1>4, <1>5 DEF PushInv

(* Other devices commit on top of what there is.                              *)
LEMMA PushRemote ==
  ASSUME PushInv, BaseInv', Next, RemoteEdit \/ RemoteDelete
  PROVE  PushInv'
<1>1. TypeInv /\ Extends(log', log) /\ UNCHANGED <<disk, rec, push, pull>>
  BY LogExtends, PushTypes DEF RemoteEdit, RemoteDelete
<1>2. PICK x \in [m : Nat, text : MaybeText] : log' = Append(log, x) /\ x.m = 0
  BY <1>1, RemoteStep
<1>3. /\ log \in Seq([m : Nat, text : MaybeText]) /\ Len(log) \in Nat /\ Len(log) >= 1
      /\ log'[Len(log) + 1] = x
  BY <1>2, PushTypes, AppendKeeps
<1>4. Full(log, x.text, Len(log))
  <2>1. CASE RemoteEdit
    <3>1. x.text = Head1.text \cup {NextEdit} /\ Head1.text # NoFile
      <4>1. log' = Append(log, [m |-> 0, text |-> Head1.text \cup {NextEdit}]) /\ Head1.text # NoFile
        BY <2>1 DEF RemoteEdit
      <4>2. log'[Len(log) + 1] = [m |-> 0, text |-> Head1.text \cup {NextEdit}]
        BY <1>3, <4>1
      <4>3. QED
        BY <1>3, <4>1, <4>2
    <3>2. Full(log, Head1.text, Len(log))
      BY <1>3 DEF PushInv, LogFull, Head1
    <3>3. QED
      BY <3>1, <3>2 DEF Full
  <2>2. CASE RemoteDelete
    <3>1. log' = Append(log, [m |-> 0, text |-> NoFile])
      BY <2>2 DEF RemoteDelete
    <3>2. log'[Len(log) + 1] = [m |-> 0, text |-> NoFile]
      BY <1>3, <3>1
    <3>3. x.text = NoFile
      BY <1>3, <3>2
    <3>4. QED
      BY <3>3 DEF Full
  <2>3. QED
    BY <2>1, <2>2
<1>5. LogFull'
  BY <1>1, <1>2, <1>4, LogFullGrows
<1>6. FullRecord(log', disk', rec')
  <2>1. rec.pending # NoMutation => x.m # rec.pending.m
    BY <1>2, PushTypes
  <2>2. rec.rev \in Nat /\ rec.rev <= Len(log) /\ FullRecord(log, disk, rec)
    BY PushTypes DEF PushInv
  <2>3. QED
    BY <1>1, <1>2, <2>1, <2>2, FullRecordGrows
<1>7. PullFull'
  <2>1. Applying => FullRecord(log', disk, pull.saved)
    <3>1. Applying => /\ pull.saved.pending # NoMutation => x.m # pull.saved.pending.m
                      /\ pull.saved.rev \in Nat /\ pull.saved.rev <= Len(log) /\ FullRecord(log, disk, pull.saved)
      BY <1>2, PushTypes DEF PushInv, PullFull
    <3>2. QED
      BY <1>1, <1>2, <3>1, FullRecordGrows
  <2>2. pull.pc # "idle" => pull.rev \in Nat /\ pull.rev <= Len(log)
    BY PushTypes
  <2>3. \A t : pull.pc # "idle" /\ Full(log, t, pull.rev) => Full(log', t, pull.rev)
    BY <1>1, <2>2, FullKept
  <2>4. QED
    BY <1>1, <2>1, <2>3 DEF PushInv, PullFull, Applying
<1>8. PushFull'
  <2>1. ASSUME Sending
        PROVE  /\ Full(log', push.sent.text, rec.rev) /\ OnlyAt(log', push.sent.m, rec.rev + 1)
               /\ Newer(log', rec, push.sent)
    <3>1. /\ push.sent.m # 0 /\ rec.rev \in Nat /\ rec.rev <= Len(log)
          /\ Full(log, push.sent.text, rec.rev) /\ OnlyAt(log, push.sent.m, rec.rev + 1)
          /\ Newer(log, rec, push.sent)
          /\ rec.pending # NoMutation => rec.pending.m # 0
      BY <2>1, PushTypes DEF PushInv, PushFull
    <3>2. Full(log', push.sent.text, rec.rev)
      BY <1>1, <3>1, FullKept
    <3>3. \A i \in 1 .. Len(log') : log'[i].m = 0 \/ (i \in 1 .. Len(log) /\ log'[i] = log[i])
      BY <1>2, <1>3, AppendKeeps
    <3>4. QED
      BY <3>1, <3>2, <3>3 DEF OnlyAt, Newer
  <2>2. QED
    BY <1>1, <2>1 DEF PushInv, PushFull, Sending
<1>9. OneAtATime'
  BY <1>1 DEF PushInv, OneAtATime
<1>10. QED
  BY <1>5, <1>6, <1>7, <1>8, <1>9 DEF PushInv

(* The id of the next mutation is not in use.                                 *)
LEMMA FreshId ==
  ASSUME PushInv
  PROVE  /\ \A i \in 1 .. Len(log) : log[i].m # made + 1
         /\ Sending => push.sent.m # made + 1
<1>1. NamesUnique /\ made \in Nat /\ (Sending => push.sent.m \in Nat)
  BY PushTypes
<1>2. ASSUME NEW i \in 1 .. Len(log), log[i].m = made + 1
      PROVE  FALSE
  <2>1. made + 1 \in Nat /\ made + 1 # 0
    BY <1>1
  <2>2. InLog(log, made + 1, log[i].text)
    BY <1>2, <2>1 DEF InLog
  <2>3. QED
    BY <1>1, <2>1, <2>2 DEF NamesUnique, Names
<1>3. Sending => Names(push.sent.m, push.sent.text)
  BY DEF Names
<1>4. QED
  BY <1>1, <1>2, <1>3 DEF NamesUnique

(* A mutation of the file as it is has what the record's revision has.        *)
LEMMA RecordsFull ==
  ASSUME PushInv, NEW local \in MaybeText, NEW text \in {disk, NoFile}, Records(local, text),
         UNCHANGED <<log, disk>>
  PROVE  /\ FullRecord(log, disk, rec) /\ FullRecord(log', disk', rec') /\ rec'.rev = rec.rev
         /\ Sending => Newer(log', rec', push.sent)
<1>1. /\ rec \in Record /\ made \in Nat /\ text \in MaybeText /\ FullRecord(log, disk, rec)
  BY PushTypes DEF PushInv
<1>2. /\ rec'.rev = rec.rev /\ rec'.pending.m = made + 1 /\ rec'.pending.text = text
      /\ rec'.pending.base = rec.rev
  BY <1>1, RecordsEffect
<1>3. Full(log, text, rec.rev)
  BY <1>1 DEF FullRecord, Full
<1>4. FullRecord(log', disk', rec')
  BY <1>1, <1>2, <1>3, FreshId DEF FullRecord, OnlyAt
<1>5. Sending => Newer(log', rec', push.sent)
  BY <1>2, FreshId DEF PushInv, PushFull, Newer
<1>6. QED
  BY <1>1, <1>2, <1>4, <1>5

(* Recorder and scan.                                                         *)
LEMMA PushWork ==
  ASSUME PushInv, BaseInv', Work
  PROVE  PushInv'
<1>1. /\ TypeInv /\ pull \in Pull /\ NoFile \in MaybeText /\ disk \in MaybeText
      /\ log' = log /\ push' = push /\ ~Applying
  BY PushTypes, WorkEffect
<1>2. /\ ~Applying' /\ ~(pull'.pc = "prepared" /\ pull'.fresh)
      /\ pull'.pc # "idle" => pull.pc # "idle" /\ pull'.by = pull.by
  <2>1. CASE pull' = Stale(pull)
    BY <1>1, <2>1, StaleEffect DEF Applying
  <2>2. CASE pull' = NotPulling
    BY <2>2, NothingUnderWay DEF Applying
  <2>3. CASE pull.pc = "prepared" /\ pull' = PlannedAgain
    BY <1>1, <2>3, PlannedAgainEffect DEF Applying
  <2>4. QED
    BY <2>1, <2>2, <2>3, WorkEffect
<1>3. LogFull' /\ OneAtATime' /\ PullFull'
  BY <1>1, <1>2 DEF PushInv, LogFull, OneAtATime, PullFull, Applying
<1>4. CASE UNCHANGED <<rec, disk>>
  BY <1>1, <1>3, <1>4 DEF PushInv, PushFull, Sending
<1>5. CASE UNCHANGED rec /\ disk' = NoFile
  <2>1. FullRecord(log', disk', rec')
    BY <1>1, <1>5, FullRecordFile DEF PushInv
  <2>2. PushFull'
    BY <1>1, <1>5 DEF PushInv, PushFull, Sending
  <2>3. QED
    BY <1>3, <2>1, <2>2 DEF PushInv
<1>6. ASSUME NEW text \in {disk, NoFile}, Records(text, text), disk' = disk
      PROVE  PushInv'
  <2>1. text \in MaybeText
    BY <1>1
  <2>2. FullRecord(log', disk', rec') /\ rec'.rev = rec.rev /\ (Sending => Newer(log', rec', push.sent))
    BY <1>1, <1>6, <2>1, RecordsFull
  <2>3. PushFull'
    BY <1>1, <1>6, <2>2 DEF PushInv, PushFull, Sending
  <2>4. QED
    BY <1>3, <2>2, <2>3 DEF PushInv
<1>7. QED
  BY <1>4, <1>5, <1>6, WorkEffect, UpsertEffect, DeleteEffect

(* A push is prepared while nothing is pulled, with the text of the file.     *)
LEMMA PushPrepare ==
  ASSUME PushInv, BaseInv', PreparePush
  PROVE  PushInv'
<1>1. /\ UNCHANGED <<log, disk, rec, pull>> /\ rec.pending # NoMutation /\ rec.pending.text \in {NoFile, disk}
      /\ push' = [NotPushing EXCEPT !.pc = "sent", !.sent = rec.pending]
      /\ pull.pc = "idle" \/ pull.by = "history"
  BY DEF PreparePush, PushTurn
<1>2. push'.pc = "sent" /\ push'.sent = rec.pending
  BY <1>1 DEF NotPushing
<1>3. pull.pc = "idle"
  BY <1>1 DEF PushInv, OneAtATime
<1>4. LogFull' /\ FullRecord(log, disk, rec)' /\ OneAtATime' /\ PullFull'
  BY <1>1, <1>3 DEF PushInv, LogFull, OneAtATime, PullFull, Applying
<1>5. PushFull'
  BY <1>1, <1>2 DEF PushInv, PushFull, FullRecord, Newer, Bits
<1>6. QED
  BY <1>4, <1>5 DEF PushInv

(* A commit is on top of its base.                                            *)
LEMMA PushCommit ==
  ASSUME PushInv, BaseInv', Next, Commit
  PROVE  PushInv'
<1> DEFINE x == [m |-> push.sent.m, text |-> push.sent.text]
<1>1. /\ TypeInv /\ Extends(log', log) /\ log \in Seq([m : Nat, text : MaybeText])
      /\ Len(log) \in Nat /\ Len(log) >= 1 /\ rec.rev \in Nat /\ rec.rev <= Len(log)
  BY PushTypes, LogExtends
<1>2. /\ push.pc = "sent" /\ Sending /\ UNCHANGED <<disk, rec, pull>>
      /\ push.sent.base = rec.rev /\ Full(log, push.sent.text, rec.rev)
      /\ disk # NoFile => Bits(push.sent.text) \subseteq disk
      /\ OnlyAt(log, push.sent.m, rec.rev + 1) /\ Newer(log, rec, push.sent)
  BY <1>1, CommitEffect DEF PushInv, PushFull, Sending
<1>3. x \in [m : Nat, text : MaybeText] /\ x.m = push.sent.m /\ x.text = push.sent.text
  BY <1>1, CommitStep
<1>4. \/ log' = log
      \/ log' = Append(log, x) /\ rec.rev = Len(log)
  BY <1>1, <1>2, CommitEffect
<1>5. push'.pc = "behind" \/ (push'.pc = "accepted" /\ push'.sent = push.sent /\ push'.rev = rec.rev + 1)
  <2>1. CASE Head1.m = push.sent.m
    <3>1. log' = log
      BY <1>1, <2>1, CommitEffect
    <3>2. Len(log) = rec.rev + 1
      BY <1>1, <1>2, <2>1 DEF OnlyAt, Head1
    <3>3. QED
      BY <1>1, <3>1, <3>2, CommitEffect
  <2>2. CASE Head1.m # push.sent.m /\ push.sent.base = Len(log)
    <3>1. Len(log') = Len(log) + 1
      <4>1. log' = Append(log, [m |-> push.sent.m, text |-> push.sent.text])
        BY <1>1, <2>2, CommitEffect
      <4>2. QED
        BY <1>1, <1>3, <4>1, AppendKeeps
    <3>2. QED
      BY <1>1, <1>2, <2>2, <3>1, CommitEffect
  <2>3. CASE Head1.m # push.sent.m /\ push.sent.base # Len(log)
    BY <1>1, <2>3, CommitEffect
  <2>4. QED
    BY <2>1, <2>2, <2>3
<1>6. pull.pc = "idle" /\ ~Applying
  BY <1>2 DEF PushInv, OneAtATime, Applying
<1>7. OneAtATime' /\ PullFull'
  BY <1>2, <1>6 DEF OneAtATime, PullFull, Applying
<1>8. CASE log' = log
  <2>1. LogFull' /\ FullRecord(log, disk, rec)'
    BY <1>2, <1>8 DEF PushInv, LogFull
  <2>2. PushFull'
    BY <1>2, <1>5, <1>8 DEF PushFull, Sending
  <2>3. QED
    BY <1>7, <2>1, <2>2 DEF PushInv
<1>9. CASE log' = Append(log, x) /\ rec.rev = Len(log)
  <2> HIDE DEF x
  <2>1. LogFull'
    BY <1>1, <1>2, <1>3, <1>9, LogFullGrows
  <2>2. FullRecord(log', disk', rec')
    <3>1. FullRecord(log, disk, rec)
      BY DEF PushInv
    <3>2. QED
      BY <1>1, <1>2, <1>3, <1>9, <3>1, FullRecordGrows
  <2>3. /\ Full(log', push.sent.text, rec.rev) /\ OnlyAt(log', push.sent.m, rec.rev + 1)
        /\ Newer(log', rec, push.sent)
    <3>1. Full(log', push.sent.text, rec.rev)
      BY <1>1, <1>2, FullKept
    <3>2. \A i \in 1 .. Len(log') :
            \/ i \in 1 .. Len(log) /\ log'[i] = log[i]
            \/ i = rec.rev + 1 /\ log'[i].m = push.sent.m
      BY <1>1, <1>3, <1>9, AppendKeeps
    <3>3. QED
      BY <1>2, <3>1, <3>2 DEF OnlyAt, Newer
  <2>4. PushFull'
    BY <1>2, <1>5, <2>3 DEF PushFull, Sending
  <2>5. QED
    BY <1>7, <2>1, <2>2, <2>4 DEF PushInv
<1>10. QED
  BY <1>4, <1>8, <1>9

(* The record moves to the revision that was accepted.                        *)
LEMMA PushAccept ==
  ASSUME PushInv, BaseInv', AcceptPush
  PROVE  PushInv'
<1>1. /\ rec \in Record /\ pull \in Pull /\ rec.rev \in Nat /\ rec.rev \in 1 .. Len(log) /\ AtHand
      /\ UnderWay
  BY PushTypes
<1>2. /\ push.pc = "accepted" /\ Sending /\ push.sent \in Mutation
      /\ push.rev = rec.rev + 1 /\ push.rev \in Nat
      /\ disk # NoFile => Bits(push.sent.text) \subseteq disk
      /\ Newer(log, rec, push.sent)
  BY <1>1, PushTypes DEF AcceptPush, PushInv, PushFull, Sending
<1>3. /\ UNCHANGED <<log, disk>> /\ push' = NotPushing /\ pull' = Stale(pull)
      /\ rec' = Acknowledged(rec, push.sent, push.rev)
  BY <1>1, <1>2 DEF AcceptPush
<1>4. pull.pc = "idle" /\ pull'.pc = "idle" /\ push'.pc = "idle"
  BY <1>1, <1>2, <1>3, StaleEffect, NothingUnderWay DEF PushInv, OneAtATime
<1>5. LogFull' /\ OneAtATime' /\ PullFull' /\ PushFull'
  BY <1>3, <1>4 DEF PushInv, LogFull, OneAtATime, PullFull, PushFull, Applying, Sending
<1>6. /\ log[push.rev].text = push.sent.text /\ FullRecord(log, disk, rec)
      /\ \A i \in 1 .. push.rev : i \in 1 .. rec.rev \/ i = push.rev
  BY <1>1, <1>2 DEF AtHand, PushInv
<1>7. rec'.rev = push.rev /\ Full(log, disk, push.rev)
  BY <1>1, <1>2, <1>3, <1>6, AcknowledgedEffect DEF FullRecord, Full
<1>8. ASSUME rec'.pending # NoMutation
      PROVE  /\ rec'.pending.base = push.rev /\ Full(log, rec'.pending.text, push.rev)
             /\ OnlyAt(log, rec'.pending.m, push.rev + 1)
  <2>1. /\ rec.pending # NoMutation /\ rec.pending.m # push.sent.m
        /\ rec'.pending.m = rec.pending.m /\ rec'.pending.text = rec.pending.text
        /\ rec'.pending.base = push.rev
    BY <1>1, <1>2, <1>3, <1>8, AcknowledgedEffect
  <2>2. Full(log, rec.pending.text, rec.rev) /\ \A i \in 1 .. Len(log) : log[i].m # rec.pending.m
    BY <1>2, <1>6, <2>1 DEF FullRecord, Newer
  <2>3. rec.pending.text # NoFile => Bits(log[push.rev].text) \subseteq rec.pending.text
    BY <1>2, <1>6, <2>1 DEF Newer
  <2>4. QED
    BY <1>6, <2>1, <2>2, <2>3 DEF Full, OnlyAt
<1>9. FullRecord(log', disk', rec')
  BY <1>3, <1>7, <1>8 DEF FullRecord
<1>10. QED
  BY <1>5, <1>9 DEF PushInv

(* A list is taken when nothing is being pushed.                              *)
LEMMA PushList ==
  ASSUME MaxRestores = 0, PushInv, BaseInv', ListStates
  PROVE  PushInv'
<1>1. TypeInv /\ budget["restores"] \in Nat /\ budget["restores"] <= 0
  BY PushTypes DEF TypeInv, Budgets, BudgetNames
<1>2. /\ UNCHANGED <<log, disk, rec>> /\ pull' = Listed("loop") /\ pull.pc = "idle"
      /\ push' = NotPushing \/ (push' = push /\ push.pc = "idle")
  BY <1>1 DEF ListStates, Spend
<1>3. pull'.pc = "listed" /\ pull'.by = "loop" /\ push'.pc = "idle"
  BY <1>1, <1>2, ListedEffect, NothingUnderWay
<1>4. QED
  BY <1>2, <1>3 DEF PushInv, LogFull, OneAtATime, PullFull, PushFull, Applying, Sending

(* A merge keeps every edit of the listed revision: the file has those of the *)
(* revision it is merged against.                                             *)
LEMMA MergeFull ==
  ASSUME PushInv, pull.pc # "idle", rec.pending # NoMutation, CanMerge(rec.pending, pull.text)
  PROVE  Full(log, Merge(rec.pending.baseText, disk, pull.text), pull.rev)
<1>1. /\ rec.rev \in 1 .. Len(log) /\ pull.rev \in 1 .. Len(log) /\ AtHand /\ Shows(rec, log)
  BY PushTypes
<1>2. pull.text # NoFile /\ disk # NoFile /\ rec.pending.baseText # NoFile
  BY DEF CanMerge
<1>3. Full(log, pull.text, pull.rev)
  BY <1>1 DEF PushInv, LogFull, AtHand
<1>4. rec.pending.baseText \subseteq disk
  <2>1. rec.pending.base = rec.rev /\ Full(log, disk, rec.rev)
    BY DEF PushInv, FullRecord
  <2>2. rec.pending.baseText = log[rec.rev].text /\ rec.rev \in 1 .. rec.rev
    BY <1>1, <2>1 DEF Shows
  <2>3. Bits(rec.pending.baseText) \subseteq disk
    BY <1>2, <2>1, <2>2 DEF Full
  <2>4. QED
    BY <1>2, <2>3 DEF Bits
<1>5. pull.text \subseteq Merge(rec.pending.baseText, disk, pull.text)
  BY <1>4 DEF Merge
<1>6. QED
  BY <1>2, <1>3, <1>5 DEF Full

LEMMA PushPlan ==
  ASSUME PushInv, BaseInv', PreparePull
  PROVE  PushInv'
<1>1. /\ UNCHANGED <<log, disk, rec, push>> /\ pull.pc = "listed" /\ rec.rev <= pull.rev
      /\ pull'.pc = "prepared" /\ pull'.rev = pull.rev /\ pull'.by = pull.by
      /\ pull'.skip => rec.rev = pull.rev
  <2>1. pull.pc = "listed" /\ rec.rev <= pull.rev
    BY PushTypes DEF PreparePull
  <2>2. QED
    BY <2>1, PushTypes, PrepareEffect DEF PreparePull, AlreadyApplied
<1>2. pull'.kind = "local" => Full(log, pull'.body, pull.rev)
  <2>1. PICK d \in Decide(rec.pending, pull.text) : pull'.kind = d.kind /\ pull'.body = d.body
    BY PushTypes, PrepareEffect
  <2>2. d.kind = "local" => /\ rec.pending # NoMutation /\ CanMerge(rec.pending, pull.text)
                           /\ d.body = Merge(rec.pending.baseText, disk, pull.text)
    BY DecideEffect
  <2>3. QED
    BY <1>1, <2>1, <2>2, MergeFull
<1>3. LogFull' /\ FullRecord(log, disk, rec)' /\ OneAtATime' /\ PushFull'
  BY <1>1 DEF PushInv, LogFull, OneAtATime, PushFull, Sending
<1>4. PullFull'
  BY <1>1, <1>2 DEF PullFull, Applying
<1>5. QED
  BY <1>3, <1>4 DEF PushInv

LEMMA PushBegin ==
  ASSUME PushInv, BaseInv', BeginApply
  PROVE  PushInv'
<1>1. /\ UNCHANGED <<log, disk, rec, push>> /\ pull.pc = "prepared" /\ pull.fresh
      /\ pull'.pc = "clear" /\ pull'.saved = rec /\ pull'.by = pull.by /\ pull'.rev = pull.rev
      /\ pull'.skip = pull.skip /\ pull'.kind = pull.kind /\ pull'.body = pull.body
  BY PushTypes, BeginEffect DEF BeginApply
<1>2. LogFull' /\ FullRecord(log, disk, rec)' /\ OneAtATime' /\ PushFull'
  BY <1>1 DEF PushInv, LogFull, OneAtATime, PushFull, Sending
<1>3. PullFull'
  BY <1>1 DEF PushInv, PullFull, Applying
<1>4. QED
  BY <1>2, <1>3 DEF PushInv

(* What a pull that writes has in common.                                     *)
LEMMA PushApplying ==
  ASSUME PushInv, BaseInv', Applying, UNCHANGED <<log, push>>, pull'.by = pull.by,
         FullRecord(log, disk', rec'), PullFull'
  PROVE  PushInv'
<1>1. push.pc = "idle" /\ pull.by = "loop"
  BY DEF PushInv, OneAtATime, Applying
<1>2. OneAtATime' /\ PushFull' /\ LogFull'
  BY <1>1 DEF PushInv, OneAtATime, PushFull, Sending, LogFull
<1>3. QED
  BY <1>2 DEF PushInv

LEMMA PushConflict ==
  ASSUME PushInv, BaseInv', ApplyConflict
  PROVE  PushInv'
<1>1. /\ UNCHANGED <<log, disk, push>> /\ pull.pc = "clear" /\ pull'.pc = "write"
      /\ rec'.rev = rec.rev /\ (rec'.pending = rec.pending \/ rec'.pending = NoMutation)
      /\ pull'.by = pull.by /\ pull'.rev = pull.rev /\ pull'.skip = pull.skip
      /\ pull'.kind = pull.kind /\ pull'.body = pull.body /\ pull'.saved = pull.saved
  BY PushTypes, ConflictEffect, PullTyped
<1>2. FullRecord(log, disk', rec')
  BY <1>1 DEF PushInv, FullRecord
<1>3. PullFull'
  BY <1>1 DEF PushInv, PullFull, Applying
<1>4. QED
  BY <1>1, <1>2, <1>3, PushApplying DEF Applying

(* The file becomes the listed revision, which has all before it.             *)
LEMMA PushVault ==
  ASSUME PushInv, BaseInv', ApplyVault
  PROVE  PushInv'
<1>1. /\ UNCHANGED <<log, push>> /\ pull.pc = "write" /\ pull'.pc = "record" /\ rec'.rev = rec.rev
      /\ rec'.pending = rec.pending \/ rec'.pending = NoMutation
      /\ disk' = pull.text \/ (pull.skip /\ disk' = disk)
      /\ pull'.by = pull.by /\ pull'.rev = pull.rev /\ pull'.skip = pull.skip
      /\ pull'.kind = pull.kind /\ pull'.body = pull.body /\ pull'.saved = pull.saved
  BY PushTypes, VaultEffect, PullTyped
<1>2. /\ Applying /\ rec.rev \in Nat /\ pull.saved.rev \in Nat /\ pull.rev \in 1 .. Len(log)
      /\ rec.rev <= pull.rev /\ pull.saved.rev <= pull.rev /\ FullRecord(log, disk, pull.saved)
  BY <1>1, PushTypes DEF PushInv, PullFull, Applying
<1>3. Full(log, disk', pull.rev)
  <2>1. CASE disk' = pull.text
    BY <1>1, <1>2, <2>1, PushTypes DEF PushInv, LogFull, AtHand
  <2>2. CASE pull.skip /\ disk' = disk
    BY <1>1, <2>2 DEF PushInv, PullFull, Applying, FullRecord
  <2>3. QED
    BY <1>1, <2>1, <2>2
<1>4. \A k \in Nat : k <= pull.rev => Full(log, disk', k)
  BY <1>2, <1>3 DEF Full
<1>5. FullRecord(log, disk', rec')
  BY <1>1, <1>2, <1>4 DEF PushInv, FullRecord
<1>6. FullRecord(log, disk', pull.saved)
  BY <1>2, <1>4 DEF FullRecord
<1>7. PullFull'
  BY <1>1, <1>2, <1>3, <1>6 DEF PushInv, PullFull, Applying
<1>8. QED
  BY <1>1, <1>2, <1>5, <1>7, PushApplying

LEMMA PushRecord ==
  ASSUME PushInv, BaseInv', ApplyRecord
  PROVE  PushInv'
<1>1. /\ UNCHANGED <<log, disk, push>> /\ pull.pc = "record" /\ pull'.pc = "merge"
      /\ rec'.rev = pull.rev /\ rec'.pending = NoMutation
      /\ pull'.by = pull.by /\ pull'.rev = pull.rev /\ pull'.skip = pull.skip
      /\ pull'.kind = pull.kind /\ pull'.body = pull.body /\ pull'.saved = pull.saved
      /\ pull.rev \in Nat
  BY PushTypes, RecordEffect, PullTyped
<1>2. FullRecord(log, disk', rec')
  BY <1>1 DEF PushInv, PullFull, FullRecord
<1>3. PullFull'
  BY <1>1 DEF PushInv, PullFull, Applying
<1>4. QED
  BY <1>1, <1>2, <1>3, PushApplying DEF Applying

(* The merged text is queued on top of the revision it was merged with.       *)
LEMMA PushMerge ==
  ASSUME PushInv, BaseInv', ApplyMerge
  PROVE  PushInv'
<1>1. /\ UNCHANGED <<log, push>> /\ pull.pc = "merge" /\ pull'.pc = "checkpoint" /\ pull'.by = pull.by
      /\ Applying /\ rec.rev = pull.rev
  BY PushTypes, MergeEffect, PullTyped DEF PushInv, PullFull, Applying
<1>2. PullFull'
  BY <1>1 DEF PullFull, Applying
<1>3. CASE UNCHANGED <<disk, rec>>
  BY <1>1, <1>2, <1>3, PushApplying DEF PushInv
<1>4. ASSUME pull.kind = "local", disk' = pull.body, rec'.rev = rec.rev,
             rec'.pending.m = made + 1, rec'.pending.text = pull.body, rec'.pending.base = pull.rev
      PROVE  PushInv'
  <2>1. Full(log, pull.body, pull.rev)
    BY <1>1, <1>4 DEF PushInv, PullFull
  <2>2. FullRecord(log, disk', rec')
    BY <1>1, <1>4, <2>1, FreshId DEF FullRecord, OnlyAt
  <2>3. QED
    BY <1>1, <1>2, <2>2, PushApplying
<1>5. QED
  BY <1>3, <1>4, PushTypes, MergeEffect

(* Stops.                                                                     *)
LEMMA PushFails ==
  ASSUME PushInv, BaseInv', ApplyFails
  PROVE  PushInv'
<1>1. /\ UNCHANGED <<log, disk, push>> /\ rec' = pull.saved /\ pull' = NotPulling /\ Applying
  BY DEF ApplyFails
<1>2. pull'.pc = "idle" /\ pull'.by = "loop" /\ push.pc = "idle" /\ pull.by = "loop"
  BY <1>1, NothingUnderWay DEF PushInv, OneAtATime, Applying
<1>3. FullRecord(log, disk', rec')
  BY <1>1 DEF PushInv, PullFull
<1>4. PullFull'
  BY <1>2 DEF PullFull, Applying
<1>5. QED
  BY <1>1, <1>2, <1>3, <1>4, PushApplying

LEMMA PushCrash ==
  ASSUME PushInv, BaseInv', Crash
  PROVE  PushInv'
<1>1. /\ TypeInv /\ rec.local \in MaybeText /\ log' = log /\ pull' = NotPulling /\ push' = NotPushing
  BY PushTypes, CrashEffect
<1>2. pull'.pc = "idle" /\ push'.pc = "idle"
  BY <1>1, NothingUnderWay
<1>3. LogFull' /\ OneAtATime' /\ PullFull' /\ PushFull'
  BY <1>1, <1>2 DEF PushInv, LogFull, OneAtATime, PullFull, PushFull, Applying, Sending
<1>4. FullRecord(log, disk', rec')
  <2>1. CASE UNCHANGED <<disk, rec>>
    BY <2>1 DEF PushInv
  <2>2. CASE UNCHANGED disk /\ Records(rec.local, disk)
    BY <1>1, <2>2, RecordsFull
  <2>3. CASE UNCHANGED disk /\ rec'.rev = rec.rev /\ rec'.pending = NoMutation
    BY <2>3 DEF PushInv, FullRecord
  <2>4. CASE pull.pc = "merge" /\ pull.kind = "local" /\ disk' = pull.body /\ UNCHANGED rec
    BY <2>4 DEF PushInv, PullFull, FullRecord, Applying
  <2>5. QED
    BY <1>1, <2>1, <2>2, <2>3, <2>4, CrashEffect
<1>5. QED
  BY <1>1, <1>3, <1>4 DEF PushInv

LEMMA PushInitially ==
  ASSUME Init
  PROVE  PushInv
<1>1. BaseInv
  BY BaseInitially
<1>2. ~Applying /\ ~Sending /\ pull.pc = "idle"
  BY NothingUnderWay DEF Init, Applying, Sending
<1>3. /\ disk = {} /\ rec.pending = NoMutation /\ rec.rev = 1
      /\ Len(log) = 1 /\ log[1].text = {}
  BY DEF Init
<1>4. LogFull /\ FullRecord(log, disk, rec)
  BY <1>3 DEF LogFull, FullRecord, Full, Bits
<1>5. QED
  BY <1>1, <1>2, <1>4 DEF PushInv, OneAtATime, PullFull, PushFull

LEMMA PushStepKeeps ==
  ASSUME MaxRestores = 0, PushInv, [Next]_vars
  PROVE  PushInv'
<1>1. BaseInv' /\ TypeInv
  BY BaseStep, PushTypes DEF PushInv
<1>2. CASE UNCHANGED vars \/ DropEvent
  BY <1>1, <1>2, PushQuiet DEF vars, DropEvent
<1>3. CASE SkipOldRevision \/ Checkpoint
  <2>1. /\ UNCHANGED <<log, disk, rec, push>> /\ pull'.pc \in {"idle", "checkpoint"}
        /\ pull'.pc # "idle" => pull.pc # "idle" /\ pull'.by = pull.by
    BY <1>1, <1>3, PullTyped, NothingUnderWay DEF SkipOldRevision, Checkpoint
  <2>2. QED
    BY <1>1, <2>1, PushQuiet
<1>4. CASE Next
  BY <1>1, <1>2, <1>3, <1>4, Steps, PushUser, PushRemote, PushWork, PushPrepare, PushCommit,
     PushAccept, PushList, PushPlan, PushBegin, PushConflict, PushVault, PushRecord, PushMerge,
     PushFails, PushCrash DEF Apply
<1>5. QED
  BY <1>2, <1>4

(* Every revision that has a text has the text of the one before it.          *)
LEMMA PushKeeps ==
  ASSUME PushInv, [Next]_vars, Len(log') > Len(log), log'[Len(log')].text # NoFile
  PROVE  Theirs(Head1.text) \subseteq log'[Len(log')].text
<1>1. /\ TypeInv /\ log \in Seq([m : Nat, text : MaybeText]) /\ Len(log) \in Nat /\ Len(log) >= 1
  BY PushTypes
<1>2. PICK x \in [m : Nat, text : MaybeText] :
        /\ log' = Append(log, x)
        /\ \/ x.text = NoFile
           \/ Sending /\ x.text = push.sent.text
           \/ RemoteEdit /\ x.text = Head1.text \cup {NextEdit} /\ Head1.text # NoFile
  BY <1>1, LogMoves
<1>3. log'[Len(log')] = x /\ x.text # NoFile
  BY <1>1, <1>2, AppendKeeps
<1>4. Theirs(Head1.text) \subseteq Bits(Head1.text)
  BY DEF Theirs, Bits
<1>5. CASE RemoteEdit /\ x.text = Head1.text \cup {NextEdit} /\ Head1.text # NoFile
  BY <1>3, <1>4, <1>5 DEF Bits
<1>6. CASE Sending /\ x.text = push.sent.text /\ ~RemoteEdit
  <2>1. Commit
    <3>1. ~RemoteDelete
      <4>1. RemoteDelete => log' = Append(log, [m |-> 0, text |-> NoFile])
        BY DEF RemoteDelete
      <4>2. Append(log, [m |-> 0, text |-> NoFile])[Len(log) + 1].text = NoFile
        BY <1>1
      <4>3. Append(log, x)[Len(log) + 1] = x
        BY <1>1, AppendKeeps
      <4>4. QED
        BY <1>2, <1>3, <4>1, <4>2, <4>3
    <3>2. log' # log
      OBVIOUS
    <3>3. ~Work /\ ~Apply /\ ~Crash
      BY <1>1, <3>2, WorkEffect, ConflictEffect, VaultEffect, RecordEffect, MergeEffect, CrashEffect DEF Apply
    <3>4. QED
      BY <1>6, <3>1, <3>2, <3>3, Steps
         DEF UserEdit, UserDelete, PreparePush, AcceptPush, ListStates, SkipOldRevision,
             PreparePull, BeginApply, Checkpoint, ApplyFails, DropEvent, vars
  <2>2. push.sent.base = Len(log)
    BY <1>1, <2>1, CommitEffect
  <2>3. Full(log, push.sent.text, Len(log))
    BY <1>6, <2>2 DEF PushInv, PushFull
  <2>4. Bits(log[Len(log)].text) \subseteq push.sent.text
    BY <1>1, <1>3, <1>6, <2>3 DEF Full
  <2>5. QED
    BY <1>3, <1>4, <1>6, <2>4 DEF Head1
<1>7. CASE RemoteEdit
  <2>1. log' = Append(log, [m |-> 0, text |-> Head1.text \cup {NextEdit}]) /\ Head1.text # NoFile
    BY <1>7 DEF RemoteEdit
  <2>2. log'[Len(log) + 1] = [m |-> 0, text |-> Head1.text \cup {NextEdit}]
    BY <1>1, <2>1
  <2>3. log'[Len(log) + 1] = x
    BY <1>1, <1>2, AppendKeeps
  <2>4. x.text = Head1.text \cup {NextEdit}
    BY <2>2, <2>3
  <2>5. QED
    BY <1>5, <1>7, <2>1, <2>4
<1>8. QED
  BY <1>2, <1>3, <1>6, <1>7

(* What another device committed is never undone by a push from here, unless  *)
(* the push deletes the file; as long as nothing is restored from the         *)
(* history, which pulls while the sync loop may be pushing.                   *)
THEOREM PushesKeepTheirs == MaxRestores = 0 /\ Spec => PushKeepsTheirs
<1>1. Init => PushInv
  BY PushInitially
<1>2. MaxRestores = 0 /\ PushInv /\ [Next]_vars => PushInv'
  BY PushStepKeeps
<1>3. PushInv /\ [Next]_vars =>
        [Len(log') > Len(log) /\ log'[Len(log')].text # NoFile
           => Theirs(Head1.text) \subseteq log'[Len(log')].text]_vars
  BY PushKeeps
<1>4. QED
  <2>1. MaxRestores = 0 /\ PushInv /\ [Next]_vars => (MaxRestores = 0 /\ PushInv)'
    BY <1>2
  <2>2. QED
    BY <1>1, <1>3, <2>1, PTL DEF Spec, PushKeepsTheirs

=============================================================================

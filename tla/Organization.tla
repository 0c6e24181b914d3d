---------------------------- MODULE Organization ----------------------------
(***************************************************************************)
(* SharingService and DrizzleSharingStore: the members of an organization   *)
(* whose plan has a limited number of seats.  Managers invite, cancel, remove*)
(* and promote, those invited accept or reject.  A call reads what it needs  *)
(* to allow itself, then makes one atomic statement or batch, and calls      *)
(* overlap between the two.                                                  *)
(***************************************************************************)
EXTENDS Naturals, FiniteSets

CONSTANTS
  Users,         \* accounts, by their addresses
  Owner,         \* who made the organization
  MemberLimit,   \* seats of the plan
  Invitations,   \* ids of invitations
  Calls,         \* requests being handled at a time
  MaxCalls,      \* Bound: requests
  MaxExpiries    \* Bound: invitations that expire

ASSUME OwnerAssumption == Owner \in Users
ASSUME MemberLimitAssumption == MemberLimit \in Nat \ {0}
ASSUME FiniteAssumption == IsFiniteSet(Users) /\ IsFiniteSet(Invitations)
ASSUME BoundsAssumption == MaxCalls \in Nat /\ MaxExpiries \in Nat

VARIABLES
  role,      \* [Users -> role in the organization]
  invite,    \* [Invitations -> invitation]
  call,      \* [Calls -> the request being handled]
  made,      \* requests made, for their bound
  expiries,  \* invitations that expired, for their bound
  out        \* invitations made before their recipient was last removed

vars == <<role, invite, call, made, expiries, out>>

Roles == {"none", "member", "admin", "owner"}
isManager(r) == r \in {"owner", "admin"}

NoInvite == [status |-> "none", email |-> Owner, role |-> "member", inviter |-> Owner, expired |-> FALSE]

Invites ==
  [status : {"none", "pending", "accepted", "rejected", "canceled"},
   email : Users, role : {"member", "admin"}, inviter : Users, expired : BOOLEAN]

Idle == [op |-> "idle"]

\* A request and how far it is: "start", then what it reads next or will write.
Requests ==
  [op : {"invite"}, pc : {"start", "write"}, actor : Users, email : Users, role : {"member", "admin"}]
  \cup [op : {"cancel"}, pc : {"start", "write"}, actor : Users, id : Invitations]
  \cup [op : {"respond"}, pc : {"start", "inviter", "write", "reject"}, actor : Users, id : Invitations,
        accept : BOOLEAN]
  \cup [op : {"change"}, pc : {"start", "write"}, actor : Users, target : Users,
        role : {"member", "admin", "none"}]

TypeOK ==
  /\ role \in [Users -> Roles]
  /\ invite \in [Invitations -> Invites]
  /\ call \in [Calls -> Requests \cup {Idle}]
  /\ made \in 0..MaxCalls
  /\ expiries \in 0..MaxExpiries
  /\ out \subseteq Invitations

Init ==
  /\ role = [u \in Users |-> IF u = Owner THEN "owner" ELSE "none"]
  /\ invite = [i \in Invitations |-> NoInvite]
  /\ call = [c \in Calls |-> Idle]
  /\ made = 0
  /\ expiries = 0
  /\ out = {}

Members == {u \in Users : role[u] # "none"}
IsPending(i) == invite[i].status = "pending" /\ ~invite[i].expired
Pending == {i \in Invitations : IsPending(i)}

-----------------------------------------------------------------------------

\* A call ends, or goes on at pc.
Ends(c) == call' = [call EXCEPT ![c] = Idle]
GoesOn(c, pc) == call' = [call EXCEPT ![c].pc = pc]

request(c) ==
  /\ call[c] = Idle
  /\ c = CHOOSE d \in Calls : call[d] = Idle
  /\ made < MaxCalls
  /\ \E r \in Requests : r.pc = "start" /\ call' = [call EXCEPT ![c] = r]
  /\ made' = made + 1
  /\ UNCHANGED <<role, invite, expiries, out>>

At(c, op, pc) == call[c] # Idle /\ call[c].op = op /\ call[c].pc = pc

\* requireOrganization(), and what is asked of who gives others a role.
inviteAllowed(c) ==
  /\ At(c, "invite", "start")
  /\ LET r == role[call[c].actor]
     IN  IF isManager(r) /\ (call[c].role = "admin" => r = "owner") THEN GoesOn(c, "write") ELSE Ends(c)
  /\ UNCHANGED <<role, invite, made, expiries, out>>

\* Faulty variant: an open invitation takes no seat.
HasSeatMembers(email) ==
  /\ role[email] = "none"
  /\ \A i \in Pending : invite[i].email # email
  /\ Cardinality(Members) < MemberLimit

\* Faulty variant: who is a member may be invited once more.
HasSeatInvited(email) ==
  /\ \A i \in Pending : invite[i].email # email
  /\ Cardinality(Members) + Cardinality(Pending) < MemberLimit

\* What the INSERT of an invitation asks for.
HasSeat(email) ==
  /\ role[email] = "none"
  /\ \A i \in Pending : invite[i].email # email
  /\ Cardinality(Members) + Cardinality(Pending) < MemberLimit

createInvitation(c) ==
  /\ At(c, "invite", "write")
  /\ LET r == call[c]
     IN  IF HasSeat(r.email)
         THEN /\ \E i \in Invitations : invite[i] = NoInvite
              /\ invite' = [invite EXCEPT ![CHOOSE i \in Invitations : invite[i] = NoInvite] =
                   [status |-> "pending", email |-> r.email, role |-> r.role,
                    inviter |-> r.actor, expired |-> FALSE]]
         ELSE UNCHANGED invite
  /\ Ends(c)
  /\ UNCHANGED <<role, made, expiries, out>>

cancelAllowed(c) ==
  /\ At(c, "cancel", "start")
  /\ IF isManager(role[call[c].actor]) /\ invite[call[c].id] # NoInvite THEN GoesOn(c, "write") ELSE Ends(c)
  /\ UNCHANGED <<role, invite, made, expiries, out>>

\* Faulty variant: an answer overwrites whatever the invitation has become.
setInvitationStatusAlways(c, status) ==
  invite' = [invite EXCEPT ![call[c].id].status = status]

\* Only while it is pending; an expired one is, too.
setInvitationStatus(c, status) ==
  invite' = IF invite[call[c].id].status = "pending"
            THEN [invite EXCEPT ![call[c].id].status = status] ELSE invite

cancel(c) ==
  /\ At(c, "cancel", "write")
  /\ setInvitationStatus(c, "canceled")
  /\ Ends(c)
  /\ UNCHANGED <<role, made, expiries, out>>

\* recipient(), and the state of the invitation.
respondAllowed(c) ==
  /\ At(c, "respond", "start")
  /\ IF invite[call[c].id] # NoInvite /\ invite[call[c].id].email = call[c].actor /\ IsPending(call[c].id)
     THEN GoesOn(c, IF call[c].accept THEN "inviter" ELSE "reject")
     ELSE Ends(c)
  /\ UNCHANGED <<role, invite, made, expiries, out>>

reject(c) ==
  /\ At(c, "respond", "reject")
  /\ setInvitationStatus(c, "rejected")
  /\ Ends(c)
  /\ UNCHANGED <<role, made, expiries, out>>

\* Who invited must still be allowed to.
inviterAllowed(c) ==
  /\ At(c, "respond", "inviter")
  /\ LET i == invite[call[c].id]
     IN  IF isManager(role[i.inviter]) /\ (i.role = "admin" => role[i.inviter] = "owner")
         THEN GoesOn(c, "write") ELSE Ends(c)
  /\ UNCHANGED <<role, invite, made, expiries, out>>

\* Faulty variant: an invitation that was pending when it was read is accepted.
AcceptableOnceRead(i) == invite[i].status # "none"

\* Faulty variant: an invitation that has expired since it was read is accepted.
AcceptableExpired(i) == invite[i].status = "pending"

\* What the statements of the batch ask for.
Acceptable(i) == IsPending(i)

\* Faulty variant: the columns of the new row are in another order.
JoinsSwapped(i) == IF role[i.email] = "none" THEN [role EXCEPT ![i.email] = i.status] ELSE role

Joins(i) == IF role[i.email] = "none" THEN [role EXCEPT ![i.email] = i.role] ELSE role

acceptInvitation(c) ==
  /\ At(c, "respond", "write")
  /\ LET id == call[c].id
         i == invite[id]
     IN  IF Acceptable(id)
         THEN /\ role' = Joins(i)
              /\ invite' = [invite EXCEPT ![id].status = "accepted"]
         ELSE UNCHANGED <<role, invite>>
  /\ Ends(c)
  /\ UNCHANGED <<made, expiries, out>>

\* changeMember(): who may remove or promote whom.
changeAllowed(c) ==
  /\ At(c, "change", "start")
  /\ LET r == call[c]
         actor == role[r.actor]
         target == role[r.target]
     IN  IF /\ actor # "none" /\ target \in {"member", "admin"}
            /\ IF r.role # "none" THEN actor = "owner"
               ELSE r.actor = r.target \/ (isManager(actor) /\ (target = "admin" => actor = "owner"))
         THEN GoesOn(c, "write") ELSE Ends(c)
  /\ UNCHANGED <<role, invite, made, expiries, out>>

\* Faulty variant: the row of the member is written, whether or not it is there.
changeOrganizationRoleUpsert(c) ==
  /\ At(c, "change", "write")
  /\ call[c].role # "none"
  /\ role' = [role EXCEPT ![call[c].target] = call[c].role]
  /\ Ends(c)
  /\ UNCHANGED <<invite, made, expiries, out>>

changeOrganizationRole(c) ==
  /\ At(c, "change", "write")
  /\ call[c].role # "none"
  /\ role' = IF role[call[c].target] \in {"member", "admin"}
             THEN [role EXCEPT ![call[c].target] = call[c].role] ELSE role
  /\ Ends(c)
  /\ UNCHANGED <<invite, made, expiries, out>>

removeOrganizationMember(c) ==
  /\ At(c, "change", "write")
  /\ call[c].role = "none"
  /\ role' = [role EXCEPT ![call[c].target] = "none"]
  /\ out' = IF role[call[c].target] = "none" THEN out
            ELSE out \cup {i \in Invitations : invite[i] # NoInvite /\ invite[i].email = call[c].target}
  /\ Ends(c)
  /\ UNCHANGED <<invite, made, expiries>>

\* Its 48 hours are over.
expire(i) ==
  /\ IsPending(i)
  /\ expiries < MaxExpiries
  /\ invite' = [invite EXCEPT ![i].expired = TRUE]
  /\ expiries' = expiries + 1
  /\ UNCHANGED <<role, call, made, out>>

Next ==
  \/ \E c \in Calls :
       \/ request(c)
       \/ inviteAllowed(c) \/ createInvitation(c)
       \/ cancelAllowed(c) \/ cancel(c)
       \/ respondAllowed(c) \/ reject(c) \/ inviterAllowed(c) \/ acceptInvitation(c)
       \/ changeAllowed(c) \/ changeOrganizationRole(c) \/ removeOrganizationMember(c)
  \/ \E i \in Invitations : expire(i)

Spec == Init /\ [][Next]_vars

-----------------------------------------------------------------------------

\* Members and open invitations never take more seats than the plan has, however
\* invitations, answers, expiries and removals overlap.
SeatsHeld == Cardinality(Members) + Cardinality(Pending) <= MemberLimit

\* Nobody has two open invitations, nor one beside a membership: neither an
\* answer that comes twice nor an invitation in flight can give a second one.
InvitedOnce ==
  \A i \in Pending : /\ role[invite[i].email] = "none"
                     /\ \A j \in Pending : invite[j].email = invite[i].email => j = i

\* Who was removed comes back only by an invitation made after that: no answer
\* and no change of role that was under way restores the membership.
RemovedStaysOut ==
  [][\A u \in Users : role[u] = "none" /\ role'[u] # "none" =>
       \E i \in Pending \ out : invite[i].email = u /\ invite'[i].status = "accepted"]_vars

\* An invitation that was canceled, rejected or accepted stays so: what was
\* decided first holds.
FirstAnswerHolds ==
  [][\A i \in Invitations : invite[i].status \in {"accepted", "rejected", "canceled"} =>
       invite'[i] = invite[i]]_vars
=============================================================================

-------------------------- MODULE OrganizationProofs --------------------------
(* The seats, invitations and members of an organization, for any number of   *)
(* accounts, invitations, requests at a time and seats.                       *)
EXTENDS Organization, FiniteSetTheorems, TLAPS

SeatsTaken == Cardinality(Members) + Cardinality(Pending)

\* An invitation from before its recipient was removed has been decided or has expired.
OutIsOver == \A i \in out : invite[i] # NoInvite /\ ~IsPending(i)

IInv == TypeOK /\ SeatsHeld /\ InvitedOnce /\ OutIsOver

-----------------------------------------------------------------------------
(* What the requests are made of.                                             *)

(* A request that goes on is the same request further on.                     *)
LEMMA GoesOnTyped ==
  ASSUME TypeOK, NEW c \in Calls, NEW pc, call[c] # Idle, GoesOn(c, pc),
         \/ call[c].op \in {"invite", "cancel", "change"} /\ pc = "write"
         \/ call[c].op = "respond" /\ pc \in {"inviter", "write", "reject"}
  PROVE  call' \in [Calls -> Requests \cup {Idle}]
<1>1. call[c] \in Requests
  BY DEF TypeOK
<1>2. [call[c] EXCEPT !.pc = pc] \in Requests
  <2>1. CASE call[c] \in [op : {"invite"}, pc : {"start", "write"}, actor : Users, email : Users,
                          role : {"member", "admin"}]
    <3>1. pc = "write"
      BY <2>1
    <3>2. QED
      BY <2>1, <3>1 DEF Requests
  <2>2. CASE call[c] \in [op : {"cancel"}, pc : {"start", "write"}, actor : Users, id : Invitations]
    <3>1. pc = "write"
      BY <2>2
    <3>2. QED
      BY <2>2, <3>1 DEF Requests
  <2>3. CASE call[c] \in [op : {"respond"}, pc : {"start", "inviter", "write", "reject"},
                          actor : Users, id : Invitations, accept : BOOLEAN]
    <3>1. pc \in {"inviter", "write", "reject"}
      BY <2>3
    <3>2. QED
      BY <2>3, <3>1 DEF Requests
  <2>4. CASE call[c] \in [op : {"change"}, pc : {"start", "write"}, actor : Users, target : Users,
                          role : {"member", "admin", "none"}]
    <3>1. pc = "write"
      BY <2>4
    <3>2. QED
      BY <2>4, <3>1 DEF Requests
  <2>5. QED
    BY <1>1, <2>1, <2>2, <2>3, <2>4 DEF Requests
<1>3. call' = [call EXCEPT ![c] = [call[c] EXCEPT !.pc = pc]]
  BY DEF GoesOn
<1>4. QED
  BY <1>2, <1>3 DEF TypeOK

(* A call that ends is idle.                                                  *)
LEMMA EndsTyped ==
  ASSUME TypeOK, NEW c \in Calls, Ends(c)
  PROVE  call' \in [Calls -> Requests \cup {Idle}]
BY DEF TypeOK, Ends

(* What a request is about.                                                   *)
LEMMA Fields ==
  ASSUME TypeOK, NEW c \in Calls, call[c] # Idle
  PROVE  /\ call[c].op = "invite" => call[c].email \in Users /\ call[c].actor \in Users
                                     /\ call[c].role \in {"member", "admin"}
         /\ call[c].op \in {"cancel", "respond"} => call[c].id \in Invitations
         /\ call[c].op = "change" => call[c].target \in Users
                                     /\ call[c].role \in {"member", "admin", "none"}
BY DEF TypeOK, Requests

-----------------------------------------------------------------------------
(* Seats.                                                                     *)

(* Members and open invitations are finitely many.                            *)
LEMMA SeatsCounted ==
  ASSUME TypeOK
  PROVE  /\ IsFiniteSet(Members) /\ IsFiniteSet(Pending)
         /\ Cardinality(Members) \in Nat /\ Cardinality(Pending) \in Nat
<1>1. Members \in SUBSET Users /\ Pending \in SUBSET Invitations
  BY DEF Members, Pending
<1>2. QED
  BY <1>1, FS_Subset, FS_CardinalityType, FiniteAssumption

(* One element more makes a set larger by one at most.                        *)
LEMMA OneMore ==
  ASSUME NEW S, IsFiniteSet(S), NEW x, NEW T \in SUBSET (S \cup {x})
  PROVE  Cardinality(T) \in Nat /\ Cardinality(T) <= Cardinality(S) + 1
<1>1. IsFiniteSet(S \cup {x}) /\ Cardinality(S) \in Nat
  BY FS_AddElement, FS_CardinalityType
<1>2. Cardinality(S \cup {x}) = Cardinality(S) \/ Cardinality(S \cup {x}) = Cardinality(S) + 1
  BY FS_AddElement
<1>3. IsFiniteSet(T) /\ Cardinality(T) <= Cardinality(S \cup {x})
  BY <1>1, FS_Subset
<1>4. Cardinality(T) \in Nat
  BY <1>3, FS_CardinalityType
<1>5. QED
  BY <1>1, <1>2, <1>3, <1>4

(* Nothing is taken when neither members nor open invitations are added.      *)
LEMMA NoMoreSeats ==
  ASSUME TypeOK, SeatsHeld, Members' \subseteq Members, Pending' \subseteq Pending
  PROVE  SeatsHeld'
<1>1. /\ Cardinality(Members') <= Cardinality(Members) /\ Cardinality(Members') \in Nat
      /\ Cardinality(Pending') <= Cardinality(Pending) /\ Cardinality(Pending') \in Nat
  BY SeatsCounted, FS_Subset, FS_CardinalityType
<1>2. QED
  BY <1>1, SeatsCounted, MemberLimitAssumption DEF SeatsHeld

-----------------------------------------------------------------------------
(* The steps, by what they do to members and invitations.                     *)

\* They stay as they are.
Quiet == UNCHANGED <<role, invite, out>>

\* The invitation i is made, for somebody who has a seat to take.
Invited(i) ==
  /\ invite[i] = NoInvite /\ UNCHANGED <<role, out>>
  /\ \E x \in Invites :
       /\ x.status = "pending" /\ HasSeat(x.email)
       /\ invite' = [invite EXCEPT ![i] = x]

\* The invitation i was open and is decided, or expires, without giving a seat.
Closed(i) ==
  /\ UNCHANGED <<role, out>> /\ invite[i].status = "pending"
  /\ \E x \in Invites :
       /\ x.status \in {"pending", "canceled", "rejected"}
       /\ x.status = "pending" => x.expired
       /\ x.email = invite[i].email
       /\ invite' = [invite EXCEPT ![i] = x]

\* The invitation i is accepted.
Accepted(i) ==
  /\ IsPending(i) /\ UNCHANGED out
  /\ role' = Joins(invite[i])
  /\ invite' = [invite EXCEPT ![i].status = "accepted"]

\* A member gets another role.
Changed(u) ==
  /\ role[u] \in {"member", "admin"} /\ UNCHANGED <<invite, out>>
  /\ \E r \in {"member", "admin"} : role' = [role EXCEPT ![u] = r]

\* A member leaves.
Removed(u) ==
  /\ role' = [role EXCEPT ![u] = "none"] /\ UNCHANGED invite
  /\ \/ out' = out
     \/ role[u] # "none" /\ out' = out \cup {i \in Invitations : invite[i] # NoInvite /\ invite[i].email = u}

Effects ==
  \/ Quiet
  \/ \E i \in Invitations : Invited(i) \/ Closed(i) \/ Accepted(i)
  \/ \E u \in Users : Changed(u) \/ Removed(u)

\* The variables that only guide the requests.
Guides == call' \in [Calls -> Requests \cup {Idle}] /\ made' \in 0..MaxCalls /\ expiries' \in 0..MaxExpiries

(* What stays as it is keeps its type.                                        *)
LEMMA Bounded ==
  ASSUME TypeOK
  PROVE  /\ UNCHANGED made => made' \in 0..MaxCalls
         /\ UNCHANGED expiries => expiries' \in 0..MaxExpiries
         /\ UNCHANGED call => call' \in [Calls -> Requests \cup {Idle}]
BY DEF TypeOK

(* An invitation is canceled or rejected if it is pending.                    *)
LEMMA StatusSet ==
  ASSUME TypeOK, NEW c \in Calls, call[c].id \in Invitations,
         NEW status \in {"canceled", "rejected"},
         setInvitationStatus(c, status), UNCHANGED <<role, out>>
  PROVE  Effects
<1>1. CASE invite[call[c].id].status = "pending"
  <2> DEFINE i == call[c].id
             x == [invite[i] EXCEPT !.status = status]
  <2>1. invite' = [invite EXCEPT ![i] = x]
    BY <1>1 DEF setInvitationStatus
  <2>2. invite[i] \in Invites
    BY DEF TypeOK
  <2>3. x \in Invites /\ x.status = status /\ x.email = invite[i].email
    BY <2>2 DEF Invites
  <2>4. Closed(i)
    BY <1>1, <2>1, <2>3 DEF Closed
  <2>5. QED
    BY <2>4 DEF Effects
<1>2. CASE invite[call[c].id].status # "pending"
  BY <1>2 DEF setInvitationStatus, Effects, Quiet
<1>3. QED
  BY <1>1, <1>2

(* Every step of a request has one of these effects.                          *)
LEMMA StepEffects ==
  ASSUME TypeOK, [Next]_vars
  PROVE  Effects /\ Guides
<1>1. CASE UNCHANGED vars
  BY <1>1, Bounded DEF vars, Effects, Quiet, Guides
<1>2. ASSUME NEW c \in Calls, request(c)
      PROVE  Effects /\ Guides
  <2>1. PICK r \in Requests : call' = [call EXCEPT ![c] = r]
    BY <1>2 DEF request
  <2>2. call' \in [Calls -> Requests \cup {Idle}]
    BY <2>1 DEF TypeOK
  <2>3. made' \in 0..MaxCalls
    BY <1>2, BoundsAssumption DEF request, TypeOK
  <2>4. QED
    BY <1>2, <2>2, <2>3, Bounded DEF request, Effects, Quiet, Guides
<1>3. ASSUME NEW c \in Calls,
             inviteAllowed(c) \/ cancelAllowed(c) \/ respondAllowed(c) \/ inviterAllowed(c) \/ changeAllowed(c)
      PROVE  Effects /\ Guides
  <2>1. UNCHANGED <<role, invite, made, expiries, out>>
    BY <1>3 DEF inviteAllowed, cancelAllowed, respondAllowed, inviterAllowed, changeAllowed
  <2>2. call[c] # Idle
    BY <1>3 DEF inviteAllowed, cancelAllowed, respondAllowed, inviterAllowed, changeAllowed, At
  <2>3. \/ Ends(c)
        \/ call[c].op \in {"invite", "cancel", "change"} /\ GoesOn(c, "write")
        \/ call[c].op = "respond" /\ \E pc \in {"inviter", "write", "reject"} : GoesOn(c, pc)
    BY <1>3 DEF inviteAllowed, cancelAllowed, respondAllowed, inviterAllowed, changeAllowed, At
  <2>4. call' \in [Calls -> Requests \cup {Idle}]
    BY <2>2, <2>3, EndsTyped, GoesOnTyped
  <2>5. QED
    BY <2>1, <2>4, Bounded DEF Effects, Quiet, Guides
<1>4. ASSUME NEW c \in Calls, createInvitation(c)
      PROVE  Effects /\ Guides
  <2> DEFINE r == call[c]
             i == CHOOSE j \in Invitations : invite[j] = NoInvite
             x == [status |-> "pending", email |-> r.email, role |-> r.role,
                   inviter |-> r.actor, expired |-> FALSE]
  <2>1. Ends(c) /\ UNCHANGED <<role, made, expiries, out>> /\ call[c] # Idle /\ call[c].op = "invite"
    BY <1>4 DEF createInvitation, At
  <2>2. Guides
    BY <2>1, EndsTyped, Bounded DEF Guides
  <2>3. CASE ~HasSeat(r.email)
    BY <1>4, <2>1, <2>2, <2>3 DEF createInvitation, Effects, Quiet
  <2>4. CASE HasSeat(r.email)
    <3>1. i \in Invitations /\ invite[i] = NoInvite
      BY <1>4, <2>4 DEF createInvitation
    <3>2. invite' = [invite EXCEPT ![i] = x]
      BY <1>4, <2>4 DEF createInvitation
    <3>3. x \in Invites /\ x.status = "pending" /\ x.email = r.email
      BY <2>1, Fields DEF Invites
    <3>4. Invited(i)
      BY <2>1, <2>4, <3>1, <3>2, <3>3 DEF Invited
    <3>5. QED
      BY <2>2, <3>1, <3>4 DEF Effects
  <2>5. QED
    BY <2>3, <2>4
<1>5. ASSUME NEW c \in Calls, cancel(c) \/ reject(c)
      PROVE  Effects /\ Guides
  <2>1. Ends(c) /\ UNCHANGED <<role, made, expiries, out>>
    BY <1>5 DEF cancel, reject
  <2>2. call[c] # Idle /\ call[c].op \in {"cancel", "respond"}
    BY <1>5 DEF cancel, reject, At
  <2>3. setInvitationStatus(c, "canceled") \/ setInvitationStatus(c, "rejected")
    BY <1>5 DEF cancel, reject
  <2>4. Effects
    BY <2>1, <2>2, <2>3, Fields, StatusSet
  <2>5. QED
    BY <2>1, <2>4, EndsTyped, Bounded DEF Guides
<1>6. ASSUME NEW c \in Calls, acceptInvitation(c)
      PROVE  Effects /\ Guides
  <2>1. /\ Ends(c) /\ UNCHANGED <<made, expiries, out>>
        /\ call[c] # Idle /\ call[c].op = "respond"
    BY <1>6 DEF acceptInvitation, At
  <2>2. call[c].id \in Invitations
    BY <2>1, Fields
  <2>3. Accepted(call[c].id) \/ Quiet
    BY <1>6, <2>1 DEF acceptInvitation, Acceptable, Accepted, Quiet
  <2>4. QED
    BY <2>1, <2>2, <2>3, EndsTyped, Bounded DEF Effects, Guides
<1>7. ASSUME NEW c \in Calls, changeOrganizationRole(c) \/ removeOrganizationMember(c)
      PROVE  Effects /\ Guides
  <2>1. Ends(c) /\ UNCHANGED <<invite, made, expiries>> /\ call[c] # Idle /\ call[c].op = "change"
    BY <1>7 DEF changeOrganizationRole, removeOrganizationMember, At
  <2>2. call[c].target \in Users /\ call[c].role \in {"member", "admin", "none"}
    BY <2>1, Fields
  <2>3. CASE changeOrganizationRole(c)
    BY <2>1, <2>2, <2>3, EndsTyped, Bounded
       DEF changeOrganizationRole, Effects, Quiet, Changed, Guides
  <2>4. CASE removeOrganizationMember(c)
    <3>1. Removed(call[c].target)
      BY <2>1, <2>4 DEF removeOrganizationMember, Removed
    <3>2. QED
      BY <2>1, <2>2, <3>1, EndsTyped, Bounded DEF Effects, Guides
  <2>5. QED
    BY <1>7, <2>3, <2>4
<1>8. ASSUME NEW i \in Invitations, expire(i)
      PROVE  Effects /\ Guides
  <2> DEFINE x == [invite[i] EXCEPT !.expired = TRUE]
  <2>1. IsPending(i) /\ UNCHANGED <<role, call, made, out>> /\ invite' = [invite EXCEPT ![i] = x]
    BY <1>8 DEF expire
  <2>2. invite[i] \in Invites /\ invite[i].status = "pending"
    BY <2>1 DEF TypeOK, IsPending
  <2>3. x \in Invites /\ x.status = "pending" /\ x.expired /\ x.email = invite[i].email
    BY <2>2 DEF Invites
  <2>4. Closed(i)
    BY <2>1, <2>2, <2>3 DEF Closed
  <2>5. expiries' \in 0..MaxExpiries
    BY <1>8, BoundsAssumption DEF expire, TypeOK
  <2>6. QED
    BY <2>1, <2>4, <2>5, Bounded DEF Effects, Guides
<1>9. QED
  BY <1>1, <1>2, <1>3, <1>4, <1>5, <1>6, <1>7, <1>8 DEF Next

-----------------------------------------------------------------------------
(* What each effect does to the open invitations and the members.             *)

(* Writing one invitation opens it or closes it, and no other.                *)
LEMMA Opens ==
  ASSUME TypeOK, NEW i \in Invitations, NEW x \in Invites, invite' = [invite EXCEPT ![i] = x]
  PROVE  /\ invite' \in [Invitations -> Invites]
         /\ invite'[i] = x /\ \A j \in Invitations \ {i} : invite'[j] = invite[j]
         /\ Pending' \subseteq Pending \cup {i}
         /\ x.status # "pending" \/ x.expired => Pending' = Pending \ {i}
         /\ \A j \in Invitations : IsPending(j)' <=> invite'[j].status = "pending" /\ ~invite'[j].expired
<1>1. /\ invite' \in [Invitations -> Invites]
      /\ invite'[i] = x /\ \A j \in Invitations \ {i} : invite'[j] = invite[j]
  BY DEF TypeOK
<1>2. QED
  BY <1>1 DEF Pending, IsPending

(* What is accepted was open and is not any more.                             *)
LEMMA AcceptedOpens ==
  ASSUME TypeOK, NEW i \in Invitations, Accepted(i)
  PROVE  /\ invite[i] \in Invites /\ invite'[i].status = "accepted"
         /\ invite' \in [Invitations -> Invites]
         /\ i \in Pending /\ Pending' = Pending \ {i}
         /\ \A j \in Invitations \ {i} : invite'[j] = invite[j]
<1> DEFINE x == [invite[i] EXCEPT !.status = "accepted"]
<1>1. invite[i] \in Invites /\ invite' = [invite EXCEPT ![i] = x]
  BY DEF TypeOK, Accepted
<1>2. x \in Invites /\ x.status = "accepted" /\ x.email = invite[i].email
  BY <1>1 DEF Invites
<1>3. /\ invite' \in [Invitations -> Invites] /\ invite'[i] = x
      /\ \A j \in Invitations \ {i} : invite'[j] = invite[j]
      /\ x.status # "pending" \/ x.expired => Pending' = Pending \ {i}
  BY <1>1, <1>2, Opens
<1>4. i \in Pending
  BY DEF Accepted, Pending
<1>5. QED
  BY <1>1, <1>2, <1>3, <1>4

(* What is closed was open and is not any more.                               *)
LEMMA ClosedOpens ==
  ASSUME TypeOK, NEW i \in Invitations, Closed(i)
  PROVE  /\ role' = role /\ Members' = Members /\ Pending' = Pending \ {i}
         /\ invite'[i].status # "none" /\ \A j \in Invitations \ {i} : invite'[j] = invite[j]
<1>1. PICK x \in Invites : /\ x.status \in {"pending", "canceled", "rejected"}
                           /\ x.status = "pending" => x.expired
                           /\ invite' = [invite EXCEPT ![i] = x]
  BY DEF Closed
<1>2. role' = role
  BY DEF Closed
<1>3. /\ invite'[i] = x /\ \A j \in Invitations \ {i} : invite'[j] = invite[j]
      /\ x.status # "pending" \/ x.expired => Pending' = Pending \ {i}
  BY <1>1, Opens
<1>4. x.status # "none" /\ (x.status # "pending" \/ x.expired)
  BY <1>1
<1>5. QED
  BY <1>2, <1>3, <1>4 DEF Members

(* Who joins is the one who was invited.                                      *)
LEMMA AcceptedJoins ==
  ASSUME TypeOK, NEW i \in Invitations, Accepted(i)
  PROVE  /\ invite[i].email \in Users /\ role' \in [Users -> Roles]
         /\ Members' \subseteq Members \cup {invite[i].email}
         /\ \A u \in Users \ {invite[i].email} : role'[u] = role[u]
<1>1. invite[i].email \in Users /\ invite[i].role \in {"member", "admin"}
  BY DEF TypeOK, Invites
<1>2. role' \in [Users -> Roles] /\ \A u \in Users \ {invite[i].email} : role'[u] = role[u]
  BY <1>1 DEF TypeOK, Accepted, Joins, Roles
<1>3. QED
  BY <1>1, <1>2 DEF Members

(* A change or a removal makes nobody a member.                               *)
LEMMA RolesKept ==
  ASSUME TypeOK, NEW u \in Users, Changed(u) \/ Removed(u)
  PROVE  /\ role' \in [Users -> Roles] /\ Members' \subseteq Members /\ Pending' = Pending
         /\ \A v \in Users : role[v] = "none" => role'[v] = "none"
<1>1. role' \in [Users -> Roles] /\ \A v \in Users : role[v] = "none" => role'[v] = "none"
  BY DEF TypeOK, Changed, Removed, Roles
<1>2. invite' = invite
  BY DEF Changed, Removed
<1>3. QED
  BY <1>1, <1>2 DEF Members, Pending, IsPending

-----------------------------------------------------------------------------
(* The invariant.                                                             *)

(* The types,                                                                 *)
LEMMA TypeKept ==
  ASSUME TypeOK, Effects, Guides
  PROVE  TypeOK'
<1>1. CASE Quiet
  BY <1>1 DEF TypeOK, Quiet, Guides
<1>2. ASSUME NEW i \in Invitations, Invited(i) \/ Closed(i)
      PROVE  TypeOK'
  BY <1>2, Opens DEF TypeOK, Invited, Closed, Guides
<1>3. ASSUME NEW i \in Invitations, Accepted(i)
      PROVE  TypeOK'
  <2>1. invite' \in [Invitations -> Invites]
    BY <1>3, AcceptedOpens
  <2>2. QED
    BY <1>3, <2>1, AcceptedJoins DEF TypeOK, Accepted, Guides
<1>4. ASSUME NEW u \in Users, Changed(u) \/ Removed(u)
      PROVE  TypeOK'
  BY <1>4, RolesKept DEF TypeOK, Changed, Removed, Guides
<1>5. QED
  BY <1>1, <1>2, <1>3, <1>4 DEF Effects

(* the seats,                                                                 *)
LEMMA SeatsStep ==
  ASSUME TypeOK, SeatsHeld, Effects
  PROVE  SeatsHeld'
<1>1. CASE Quiet
  BY <1>1 DEF Quiet, SeatsHeld, Members, Pending, IsPending
<1>2. ASSUME NEW i \in Invitations, Invited(i)
      PROVE  SeatsHeld'
  <2>1. PICK x \in Invites : HasSeat(x.email) /\ invite' = [invite EXCEPT ![i] = x]
    BY <1>2 DEF Invited
  <2>2. Members' = Members /\ Pending' \in SUBSET (Pending \cup {i})
    BY <1>2, <2>1, Opens DEF Invited, Members
  <2>3. Cardinality(Pending') <= Cardinality(Pending) + 1 /\ Cardinality(Pending') \in Nat
    BY <2>2, SeatsCounted, OneMore
  <2>4. Cardinality(Members) + Cardinality(Pending) < MemberLimit
    BY <2>1 DEF HasSeat
  <2>5. QED
    BY <2>2, <2>3, <2>4, SeatsCounted, MemberLimitAssumption DEF SeatsHeld
<1>3. ASSUME NEW i \in Invitations, Closed(i)
      PROVE  SeatsHeld'
  <2>1. Members' = Members /\ Pending' \subseteq Pending
    BY <1>3, ClosedOpens
  <2>2. QED
    BY <2>1, NoMoreSeats
<1>4. ASSUME NEW i \in Invitations, Accepted(i)
      PROVE  SeatsHeld'
  <2> DEFINE u == invite[i].email
  <2>1. Members' \in SUBSET (Members \cup {u})
    BY <1>4, AcceptedJoins
  <2>2. Cardinality(Members') <= Cardinality(Members) + 1 /\ Cardinality(Members') \in Nat
    BY <2>1, SeatsCounted, OneMore
  <2>3. i \in Pending /\ Pending' = Pending \ {i}
    BY <1>4, AcceptedOpens
  <2>4. Cardinality(Pending') = Cardinality(Pending) - 1
    BY <2>3, SeatsCounted, FS_RemoveElement
  <2>5. QED
    BY <2>2, <2>4, SeatsCounted, MemberLimitAssumption DEF SeatsHeld
<1>5. ASSUME NEW u \in Users, Changed(u) \/ Removed(u)
      PROVE  SeatsHeld'
  BY <1>5, RolesKept, NoMoreSeats
<1>6. QED
  BY <1>1, <1>2, <1>3, <1>4, <1>5 DEF Effects

(* one invitation each,                                                       *)
LEMMA OnceStep ==
  ASSUME TypeOK, InvitedOnce, Effects
  PROVE  InvitedOnce'
<1>1. CASE Quiet
  BY <1>1 DEF Quiet, InvitedOnce, Pending, IsPending
<1>2. ASSUME NEW i \in Invitations, Invited(i)
      PROVE  InvitedOnce'
  <2>1. PICK x \in Invites : HasSeat(x.email) /\ invite' = [invite EXCEPT ![i] = x]
    BY <1>2 DEF Invited
  <2>2. role' = role /\ role[x.email] = "none" /\ \A j \in Pending : invite[j].email # x.email
    BY <1>2, <2>1 DEF Invited, HasSeat
  <2>3. /\ Pending' \subseteq Pending \cup {i} /\ invite'[i] = x
        /\ \A j \in Pending \ {i} : invite'[j] = invite[j]
    BY <2>1, Opens DEF Pending
  <2>4. i \notin Pending
    BY <1>2 DEF Invited, NoInvite, Pending, IsPending
  <2>5. QED
    BY <2>2, <2>3, <2>4 DEF InvitedOnce
<1>3. ASSUME NEW i \in Invitations, Closed(i)
      PROVE  InvitedOnce'
  <2>1. role' = role /\ Pending' \subseteq Pending \ {i}
    BY <1>3, ClosedOpens
  <2>2. \A j \in Pending' : invite'[j] = invite[j]
    BY <1>3, <2>1, ClosedOpens DEF Pending
  <2>3. QED
    BY <2>1, <2>2 DEF InvitedOnce
<1>4. ASSUME NEW i \in Invitations, Accepted(i)
      PROVE  InvitedOnce'
  <2>1. i \in Pending /\ Pending' = Pending \ {i}
    BY <1>4, AcceptedOpens
  <2>2. \A j \in Pending' : invite'[j] = invite[j]
    BY <1>4, <2>1, AcceptedOpens DEF Pending
  <2>3. \A j \in Pending' : invite[j].email \in Users /\ invite[j].email # invite[i].email
    BY <2>1 DEF InvitedOnce, Pending, TypeOK, Invites
  <2>4. \A j \in Pending' : role'[invite[j].email] = role[invite[j].email]
    BY <1>4, <2>3, AcceptedJoins
  <2>5. QED
    BY <2>1, <2>2, <2>4 DEF InvitedOnce
<1>5. ASSUME NEW u \in Users, Changed(u) \/ Removed(u)
      PROVE  InvitedOnce'
  <2>1. invite' = invite /\ Pending' = Pending
    BY <1>5, RolesKept DEF Changed, Removed
  <2>2. \A j \in Pending : invite[j].email \in Users
    BY DEF Pending, TypeOK, Invites
  <2>3. QED
    BY <1>5, <2>1, <2>2, RolesKept DEF InvitedOnce
<1>6. QED
  BY <1>1, <1>2, <1>3, <1>4, <1>5 DEF Effects

(* and nothing left over from before a removal.                               *)
LEMMA OverStep ==
  ASSUME TypeOK, InvitedOnce, OutIsOver, Effects
  PROVE  OutIsOver'
<1>1. CASE Quiet
  BY <1>1 DEF Quiet, OutIsOver, IsPending
<1>2. ASSUME NEW i \in Invitations, Invited(i) \/ Closed(i) \/ Accepted(i)
      PROVE  OutIsOver'
  <2>1. out' = out /\ out \subseteq Invitations
    BY <1>2 DEF Invited, Closed, Accepted, TypeOK
  <2>2. i \notin out \/ (Closed(i) /\ ~IsPending(i))
    BY <1>2 DEF OutIsOver, Invited, Closed, Accepted
  <2>3. \A j \in Invitations \ {i} : invite'[j] = invite[j]
    <3>1. CASE Invited(i)
      BY <3>1, Opens DEF Invited
    <3>2. CASE Closed(i) \/ Accepted(i)
      BY <3>2, ClosedOpens, AcceptedOpens
    <3>3. QED
      BY <1>2, <3>1, <3>2
  <2>4. Closed(i) => invite'[i] # NoInvite /\ ~IsPending(i)'
    BY ClosedOpens DEF NoInvite, Pending, IsPending
  <2>5. QED
    BY <2>1, <2>2, <2>3, <2>4 DEF OutIsOver, IsPending
<1>3. ASSUME NEW u \in Users, Changed(u) \/ Removed(u)
      PROVE  OutIsOver'
  <2>1. invite' = invite
    BY <1>3 DEF Changed, Removed
  <2>2. \A i \in out' \ out : i \in Invitations /\ invite[i] # NoInvite /\ role[invite[i].email] # "none"
    BY <1>3 DEF Changed, Removed
  <2>3. \A i \in out' \ out : ~IsPending(i)
    BY <2>2 DEF InvitedOnce, Pending
  <2>4. QED
    BY <2>1, <2>2, <2>3 DEF OutIsOver, IsPending
<1>4. QED
  BY <1>1, <1>2, <1>3 DEF Effects

(* They hold at first,                                                        *)
LEMMA Initially == Init => IInv
<1> SUFFICES ASSUME Init
             PROVE  IInv
  OBVIOUS
<1>1. TypeOK
  BY OwnerAssumption, BoundsAssumption DEF Init, TypeOK, Roles, NoInvite, Invites
<1>2. Members = {Owner} /\ Pending = {}
  BY OwnerAssumption DEF Init, Members, Pending, IsPending, NoInvite
<1>3. SeatsHeld
  <2>1. Cardinality({Owner}) = 1
    BY FS_Singleton
  <2>2. Cardinality({}) = 0
    BY FS_EmptySet
  <2>3. QED
    BY <1>2, <2>1, <2>2, MemberLimitAssumption DEF SeatsHeld
<1>4. InvitedOnce /\ OutIsOver
  BY <1>2 DEF InvitedOnce, OutIsOver, Init
<1>5. QED
  BY <1>1, <1>3, <1>4 DEF IInv

(* and every step keeps them.                                                 *)
LEMMA Step == IInv /\ [Next]_vars => IInv'
BY StepEffects, TypeKept, SeatsStep, OnceStep, OverStep DEF IInv

-----------------------------------------------------------------------------
(* Every variable of Organization keeps its type.                             *)
THEOREM OrganizationTypeCorrect == Spec => []TypeOK
<1>1. IInv => TypeOK
  BY DEF IInv
<1>2. QED
  BY <1>1, Initially, Step, PTL DEF Spec

(* Members and open invitations never take more seats than the plan has: the  *)
(* INSERT of an invitation counts both, and an answer only moves a seat.      *)
THEOREM SeatsNeverOversold == Spec => []SeatsHeld
<1>1. IInv => SeatsHeld
  BY DEF IInv
<1>2. QED
  BY <1>1, Initially, Step, PTL DEF Spec

(* Nobody has two open invitations, nor one beside a membership.              *)
THEOREM OneInvitationEach == Spec => []InvitedOnce
<1>1. IInv => InvitedOnce
  BY DEF IInv
<1>2. QED
  BY <1>1, Initially, Step, PTL DEF Spec

(* Who was removed comes back only by an invitation made after that: at the   *)
(* removal none is open for a member, so those from before are over.          *)
THEOREM RemovedMembersStayOut == Spec => RemovedStaysOut
<1>1. IInv /\ [Next]_vars =>
        [\A u \in Users : role[u] = "none" /\ role'[u] # "none" =>
           \E i \in Pending \ out : invite[i].email = u /\ invite'[i].status = "accepted"]_vars
  <2> SUFFICES ASSUME IInv, [Next]_vars, NEW u \in Users, role[u] = "none", role'[u] # "none"
               PROVE  \E i \in Pending \ out : invite[i].email = u /\ invite'[i].status = "accepted"
    OBVIOUS
  <2>1. TypeOK /\ OutIsOver /\ Effects
    BY StepEffects DEF IInv
  <2>2. role' # role
    OBVIOUS
  <2>3. PICK i \in Invitations : Accepted(i)
    BY <2>1, <2>2, RolesKept DEF Effects, Quiet, Invited, Closed
  <2>4. i \in Pending \ out
    BY <2>1, <2>3 DEF Accepted, Pending, OutIsOver
  <2>5. invite[i].email = u
    BY <2>1, <2>3, AcceptedJoins
  <2>6. QED
    BY <2>1, <2>3, <2>4, <2>5, AcceptedOpens
<1>2. QED
  BY <1>1, Initially, Step, PTL DEF Spec, RemovedStaysOut

(* An invitation that was canceled, rejected or accepted stays so.            *)
THEOREM DecidedForGood == Spec => FirstAnswerHolds
<1>1. IInv /\ [Next]_vars =>
        [\A i \in Invitations : invite[i].status \in {"accepted", "rejected", "canceled"} =>
           invite'[i] = invite[i]]_vars
  <2> SUFFICES ASSUME IInv, [Next]_vars, NEW j \in Invitations,
                      invite[j].status \in {"accepted", "rejected", "canceled"}
               PROVE  invite'[j] = invite[j]
    OBVIOUS
  <2>1. TypeOK /\ Effects
    BY StepEffects DEF IInv
  <2>2. ASSUME NEW i \in Invitations, Invited(i) \/ Closed(i) \/ Accepted(i)
        PROVE  invite'[j] = invite[j]
    <3>1. i # j
      BY <2>2 DEF Invited, Closed, Accepted, IsPending, NoInvite
    <3>2. CASE Invited(i)
      BY <2>1, <3>1, <3>2, Opens DEF Invited
    <3>3. CASE Closed(i) \/ Accepted(i)
      BY <2>1, <3>1, <3>3, ClosedOpens, AcceptedOpens
    <3>4. QED
      BY <2>2, <3>2, <3>3
  <2>3. QED
    BY <2>1, <2>2 DEF Effects, Quiet, Changed, Removed
<1>2. QED
  BY <1>1, Initially, Step, PTL DEF Spec, FirstAnswerHolds
=============================================================================

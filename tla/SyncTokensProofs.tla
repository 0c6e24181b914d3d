--------------------------- MODULE SyncTokensProofs ---------------------------
(* Nobody is handed a token of an earlier session, and no request is refused   *)
(* for its token twice: for any number of callers, vaults, sessions and        *)
(* connections, any lifetime of a token and any lag of the clock.              *)
EXTENDS SyncTokens, TLAPS

-----------------------------------------------------------------------------
(* The invariants.                                                             *)

\* What a caller remembers.
Points == {"idle", "issuing", "issued", "sending", "again", "unauthorized", "done", "refused", "failed"}
Memory == [at : Points, session : {None} \union Nat, vault : {None} \union Vaults, local : {None} \union Nat,
           token : {None} \union Tokens, retrying : BOOLEAN]

InFlight == {"issuing", "issued", "sending"}

\* Who asks has what it asked with: the session, the vault and the local id.
CallsTyped ==
  /\ call \in [Callers -> Memory]
  /\ \A c \in Callers : call[c].at \in InFlight =>
       call[c].session \in 1 .. sessions /\ call[c].vault \in Vaults /\ call[c].local \in 1 .. locals
  /\ \A c \in Callers : call[c].at \in {"issued", "sending"} => call[c].token \in Tokens
TypeInv == TypeOK /\ CallsTyped

\* A local vault id belongs to one session: its tokens are of the session that
\* connected the vault, and whoever asks for one asks in it.
OneSession ==
  /\ session = None => local = None
  /\ cached # None => cached.local \in 1 .. locals /\ (cached.local = local => cached.session = session)
  /\ \A c \in Callers :
       /\ call[c].at \in InFlight /\ call[c].local = local => call[c].session = session
       /\ call[c].at \in {"issued", "sending"} =>
            call[c].token.session = call[c].session /\ call[c].token.local = call[c].local

\* A token that is of no age, as a message takes less than a tick.
New(token) == token.exp = now + Lifetime

\* While somebody tries again, what is cached is new, and so is what it gets.
RetriesNew ==
  \A c \in Callers :
    /\ call[c].at = "idle" => ~call[c].retrying
    /\ call[c].at = "issued" => New(call[c].token)
    /\ call[c].at = "again" => call[c].retrying /\ (cached = None \/ New(cached))
    /\ call[c].at = "sending" /\ call[c].retrying => New(call[c].token)
    /\ call[c].at = "unauthorized" => ~call[c].retrying
    /\ call[c].at # "refused"

SessionInv == TypeInv /\ OneSession
RetryInv == TypeInv /\ RetriesNew

-----------------------------------------------------------------------------
(* The callers.                                                                *)

(* The constants are what they should be.                                      *)
LEMMA Constants ==
  ASSUME TokenAssumption
  PROVE  /\ None \notin Vaults /\ None \notin Nat
         /\ Lifetime \in Nat /\ Lifetime > 0 /\ MaxTime \in Nat /\ MaxSessions \in Nat /\ MaxLocals \in Nat
BY DEF TokenAssumption

(* What the state is made of.                                                  *)
LEMMA Typed ==
  ASSUME TokenAssumption, TypeInv
  PROVE  /\ now \in Nat /\ now <= MaxTime /\ sessions \in Nat /\ sessions <= MaxSessions
         /\ locals \in Nat /\ locals <= MaxLocals
         /\ session # None => session \in 1 .. sessions
         /\ local # None => local \in 1 .. locals
         /\ vault # None => vault \in Vaults
         /\ vault = None <=> local = None
         /\ cached # None => cached \in Tokens
         /\ call \in [Callers -> Memory]
BY Constants DEF TypeInv, TypeOK, CallsTyped

(* A step of a caller is its own.                                              *)
LEMMA OwnStep ==
  ASSUME TypeInv, NEW c \in Callers, NEW x \in Memory, call' = [call EXCEPT ![c] = x]
  PROVE  /\ call' \in [Callers -> Memory] /\ call'[c] = x
         /\ \A d \in Callers \ {c} : call'[d] = call[d]
BY DEF TypeInv, CallsTyped

\* A caller goes on with x while nothing around it changes.
Goes(c, x) ==
  /\ x \in Memory /\ call' = [call EXCEPT ![c] = x]
  /\ x.at \in InFlight => x.session \in 1 .. sessions /\ x.vault \in Vaults /\ x.local \in 1 .. locals
  /\ x.at \in {"issued", "sending"} => x.token \in Tokens
  /\ cached' \in {None} \union Tokens
  /\ UNCHANGED <<now, who>>

(* The types are kept by a caller that goes on.                                *)
LEMMA GoesTyped ==
  ASSUME TypeInv, NEW c \in Callers, NEW x, Goes(c, x)
  PROVE  TypeInv'
<1>1. call' \in [Callers -> Memory] /\ call'[c] = x /\ \A d \in Callers \ {c} : call'[d] = call[d]
  BY OwnStep DEF Goes
<1>2. UNCHANGED <<now, session, sessions, vault, local, locals, clearing>>
  BY DEF Goes, who
<1>3. TypeOK'
  <2>1. \A d \in Callers : call'[d].at \in Points /\ call'[d].token \in {None} \union Tokens
    BY <1>1 DEF Memory
  <2>2. QED
    BY <1>2, <2>1 DEF TypeInv, TypeOK, Goes, Points
<1>4. CallsTyped'
  <2>1. ASSUME NEW d \in Callers
        PROVE  /\ call'[d].at \in InFlight =>
                    call'[d].session \in 1 .. sessions' /\ call'[d].vault \in Vaults
                    /\ call'[d].local \in 1 .. locals'
               /\ call'[d].at \in {"issued", "sending"} => call'[d].token \in Tokens
    <3>1. CASE d = c
      BY <1>1, <1>2, <3>1 DEF Goes
    <3>2. CASE d # c
      BY <1>1, <1>2, <3>2 DEF TypeInv, CallsTyped
    <3>3. QED
      BY <3>1, <3>2
  <2>2. QED
    BY <1>1, <2>1 DEF CallsTyped, InFlight
<1>5. QED
  BY <1>3, <1>4 DEF TypeInv

(* One session for each local id is kept by a caller that goes on, if what it  *)
(* goes on with and what it caches is of one session.                          *)
LEMMA GoesInOneSession ==
  ASSUME SessionInv, NEW c \in Callers, NEW x, Goes(c, x),
         cached' # None => cached'.local \in 1 .. locals /\ (cached'.local = local => cached'.session = session),
         x.at \in InFlight /\ x.local = local => x.session = session,
         x.at \in {"issued", "sending"} => x.token.session = x.session /\ x.token.local = x.local
  PROVE  SessionInv'
<1>1. /\ call'[c] = x /\ \A d \in Callers \ {c} : call'[d] = call[d]
      /\ UNCHANGED <<session, local, locals>>
  BY OwnStep DEF Goes, SessionInv, who
<1>2. TypeInv'
  BY GoesTyped DEF SessionInv
<1>3. ASSUME NEW d \in Callers
      PROVE  /\ call'[d].at \in InFlight /\ call'[d].local = local => call'[d].session = session
             /\ call'[d].at \in {"issued", "sending"} =>
                  call'[d].token.session = call'[d].session /\ call'[d].token.local = call'[d].local
  <2>1. CASE d = c
    BY <1>1, <2>1
  <2>2. CASE d # c
    BY <1>1, <2>2 DEF SessionInv, OneSession
  <2>3. QED
    BY <2>1, <2>2
<1>4. QED
  BY <1>1, <1>2, <1>3 DEF SessionInv, OneSession, InFlight

(* What is tried again is new if what it goes on with and what it caches are.  *)
LEMMA GoesNew ==
  ASSUME RetryInv, NEW c \in Callers, NEW x, Goes(c, x),
         cached' \in {None, cached} \/ New(cached'),
         x.at = "idle" => ~x.retrying,
         x.at = "issued" => New(x.token),
         x.at = "again" => x.retrying /\ (cached' = None \/ New(cached')),
         x.at = "sending" /\ x.retrying => New(x.token),
         x.at = "unauthorized" => ~x.retrying,
         x.at # "refused"
  PROVE  RetryInv'
<1>1. /\ call'[c] = x /\ \A d \in Callers \ {c} : call'[d] = call[d]
      /\ UNCHANGED now
  BY OwnStep DEF Goes, RetryInv
<1>2. TypeInv'
  BY GoesTyped DEF RetryInv
<1>3. ASSUME NEW d \in Callers
      PROVE  /\ call'[d].at = "idle" => ~call'[d].retrying
             /\ call'[d].at = "issued" => New(call'[d].token)
             /\ call'[d].at = "again" => call'[d].retrying /\ (cached' = None \/ New(cached'))
             /\ call'[d].at = "sending" /\ call'[d].retrying => New(call'[d].token)
             /\ call'[d].at = "unauthorized" => ~call'[d].retrying
             /\ call'[d].at # "refused"
  <2>1. CASE d = c
    BY <1>1, <2>1
  <2>2. CASE d # c
    BY <1>1, <2>2 DEF RetryInv, RetriesNew
  <2>3. QED
    BY <2>1, <2>2
<1>4. QED
  BY <1>1, <1>2, <1>3 DEF RetryInv, RetriesNew, New

(* A token is asked for: the session, vault and local id are those of now, and *)
(* a cached token is taken only under the same local id.                       *)
LEMMA GetTokenGoes ==
  ASSUME TokenAssumption, TypeInv, NEW c \in Callers, getToken(c)
  PROVE  \E x \in Memory :
           /\ Goes(c, x) /\ cached' = cached /\ call[c].at \in {"idle", "again"} /\ x.retrying = call[c].retrying
           /\ x.at \in {"failed", "issuing", "sending"}
           /\ x.at # "failed" => x.session = session /\ x.local = local
           /\ x.at = "sending" => cached # None /\ x.token = cached /\ cached.local = local
<1> DEFINE reuse == IF cached = None THEN FALSE ELSE Reusable(cached, vault, local)
           failed == [call[c] EXCEPT !.at = "failed"]
           asked == [at |-> IF reuse THEN "sending" ELSE "issuing", session |-> session, vault |-> vault,
                     local |-> local, token |-> IF reuse THEN cached ELSE None, retrying |-> call[c].retrying]
<1>1. /\ call[c].at \in {"idle", "again"} /\ cached' = cached /\ UNCHANGED <<now, who>>
      /\ call' = [call EXCEPT ![c] = IF None \in {session, vault, local} THEN failed ELSE asked]
  BY DEF getToken
<1>2. call[c] \in Memory
  BY Typed
<1>3. cached' \in {None} \union Tokens
  BY <1>1 DEF TypeInv, TypeOK
<1>4. CASE None \in {session, vault, local}
  <2>1. failed \in Memory /\ failed.at = "failed" /\ failed.retrying = call[c].retrying
    BY <1>2 DEF Memory, Points
  <2> HIDE DEF failed
  <2>2. Goes(c, failed)
    BY <1>1, <1>3, <1>4, <2>1 DEF Goes, InFlight
  <2>3. QED
    BY <1>1, <2>1, <2>2
<1>5. CASE None \notin {session, vault, local}
  <2>1. session \in 1 .. sessions /\ local \in 1 .. locals /\ vault \in Vaults /\ sessions \in Nat /\ locals \in Nat
    BY <1>5, Typed
  <2>2. reuse => cached # None /\ cached \in Tokens /\ cached.local = local
    BY Typed DEF Reusable
  <2>3. reuse \in BOOLEAN
    BY DEF Reusable
  <2> HIDE DEF reuse
  <2>4. asked \in Memory
    BY <1>2, <2>1, <2>2, <2>3 DEF Memory, Points
  <2>5. /\ asked.at \in {"issuing", "sending"} /\ (asked.at = "sending" <=> reuse) /\ asked.session = session
        /\ asked.local = local /\ asked.vault = vault /\ asked.retrying = call[c].retrying
        /\ reuse => asked.token = cached
    OBVIOUS
  <2> HIDE DEF asked
  <2>6. Goes(c, asked)
    BY <1>1, <1>3, <1>5, <2>1, <2>2, <2>4, <2>5 DEF Goes, InFlight
  <2>7. QED
    BY <1>1, <2>2, <2>4, <2>5, <2>6
<1>6. QED
  BY <1>4, <1>5

(* The server's token is of the session that asked, and new.                   *)
LEMMA IssueGoes ==
  ASSUME TokenAssumption, TypeInv, NEW c \in Callers, issue(c)
  PROVE  \E x \in Memory :
           /\ Goes(c, x) /\ cached' = cached /\ call[c].at = "issuing" /\ x.at = "issued"
           /\ x.session = call[c].session /\ x.local = call[c].local /\ New(x.token)
           /\ x.token.session = x.session /\ x.token.local = x.local
<1> DEFINE token == [session |-> call[c].session, vault |-> call[c].vault, local |-> call[c].local,
                     exp |-> now + Lifetime]
           x == [call[c] EXCEPT !.at = "issued", !.token = token]
<1>1. /\ call[c].at = "issuing" /\ cached' = cached /\ UNCHANGED <<now, who>>
      /\ call[c].session \in 1 .. sessions /\ call[c].vault \in Vaults /\ call[c].local \in 1 .. locals
  BY DEF issue, TypeInv, CallsTyped, InFlight
<1>2. token \in Tokens
  BY <1>1, Typed, Constants DEF Tokens
<1>3. call[c] \in Memory /\ call' = [call EXCEPT ![c] = x]
  BY Typed DEF issue
<1>4. /\ x \in Memory /\ x.at = "issued" /\ x.token = token /\ x.session = call[c].session
      /\ x.local = call[c].local /\ x.vault = call[c].vault
  BY <1>2, <1>3 DEF Memory, Points
<1>5. token.session = call[c].session /\ token.local = call[c].local /\ token.exp = now + Lifetime
  OBVIOUS
<1>6. cached' \in {None} \union Tokens
  BY <1>1 DEF TypeInv, TypeOK
<1> HIDE DEF x, token
<1>7. Goes(c, x)
  BY <1>1, <1>2, <1>3, <1>4, <1>6 DEF Goes, InFlight
<1>8. QED
  BY <1>1, <1>4, <1>5, <1>7 DEF New

(* A caller moves on to another point with what it remembers.                  *)
LEMMA MoveGoes ==
  ASSUME TypeInv, NEW c \in Callers, NEW x \in Memory, call' = [call EXCEPT ![c] = x],
         x.session = call[c].session, x.vault = call[c].vault, x.local = call[c].local, x.token = call[c].token,
         x.at \in InFlight => call[c].at \in InFlight,
         x.at \in {"issued", "sending"} => call[c].at \in {"issued", "sending"},
         cached' \in {None} \union Tokens, UNCHANGED <<now, who>>
  PROVE  Goes(c, x)
BY DEF Goes, TypeInv, CallsTyped

(* The token that has arrived is cached, and sent.                             *)
LEMMA IssuedGoes ==
  ASSUME TypeInv, NEW c \in Callers, issued(c)
  PROVE  \E x \in Memory :
           /\ Goes(c, x) /\ call[c].at = "issued" /\ x.at = "sending" /\ x.retrying = call[c].retrying
           /\ cached' = call[c].token /\ x.token = call[c].token
           /\ x.session = call[c].session /\ x.local = call[c].local
<1> DEFINE x == [call[c] EXCEPT !.at = "sending"]
<1>1. call[c].at = "issued" /\ cached' = call[c].token /\ UNCHANGED <<now, who>>
  BY DEF issued
<1>2. cached' \in {None} \union Tokens /\ call[c] \in Memory
  BY <1>1 DEF TypeInv, CallsTyped
<1>3. call' = [call EXCEPT ![c] = x]
  BY <1>2 DEF issued
<1>4. /\ x \in Memory /\ x.at = "sending" /\ x.retrying = call[c].retrying /\ x.session = call[c].session
      /\ x.vault = call[c].vault /\ x.local = call[c].local /\ x.token = call[c].token
  BY <1>2 DEF Memory, Points
<1> HIDE DEF x
<1>5. Goes(c, x)
  BY <1>1, <1>2, <1>3, <1>4, MoveGoes DEF InFlight
<1>6. QED
  BY <1>1, <1>4, <1>5

(* What else a caller does ends its request, or begins it again with nothing   *)
(* cached.                                                                     *)
LEMMA OtherGoes ==
  ASSUME TypeInv, NEW c \in Callers,
         issueFails(c) \/ serve(c) \/ retry(c) \/ giveUp(c) \/ next(c)
  PROVE  \E x \in Memory :
           /\ Goes(c, x) /\ x.at \in Points \ InFlight
           /\ cached' \in {None, cached}
           /\ x.at = "idle" => ~x.retrying
           /\ x.at = "again" => x.retrying /\ cached' = None
           /\ x.at = "unauthorized" =>
                call[c].at = "sending" /\ ~(call[c].token.exp > now) /\ x.retrying = call[c].retrying
           /\ x.at = "refused" => call[c].at = "unauthorized" /\ call[c].retrying
<1>1. call[c] \in Memory /\ cached \in {None} \union Tokens
  BY DEF TypeInv, TypeOK, CallsTyped
<1>2. CASE issueFails(c) \/ serve(c) \/ giveUp(c)
  <2>1. PICK at \in {"failed", "done", "unauthorized", "refused"} :
          /\ call' = [call EXCEPT ![c].at = at] /\ cached' = cached /\ UNCHANGED <<now, who>>
          /\ at = "unauthorized" => call[c].at = "sending" /\ ~(call[c].token.exp > now)
          /\ at = "refused" => call[c].at = "unauthorized" /\ call[c].retrying
    BY <1>2 DEF issueFails, serve, giveUp
  <2> DEFINE x == [call[c] EXCEPT !.at = at]
  <2>2. call' = [call EXCEPT ![c] = x]
    BY <1>1, <2>1
  <2>3. /\ x \in Memory /\ x.at = at /\ x.retrying = call[c].retrying /\ x.session = call[c].session
        /\ x.vault = call[c].vault /\ x.local = call[c].local /\ x.token = call[c].token
    BY <1>1 DEF Memory, Points
  <2>4. at \in Points \ InFlight /\ at \notin {"issued", "sending", "idle", "again"}
    BY DEF Points, InFlight
  <2> HIDE DEF x
  <2>5. Goes(c, x)
    BY <1>1, <2>1, <2>2, <2>3, <2>4, MoveGoes
  <2>6. QED
    BY <2>1, <2>3, <2>4, <2>5
<1>3. CASE retry(c)
  <2> DEFINE x == [call[c] EXCEPT !.at = "again", !.retrying = TRUE]
  <2>1. cached' = None /\ UNCHANGED <<now, who>> /\ call' = [call EXCEPT ![c] = x]
    BY <1>1, <1>3 DEF retry
  <2>2. /\ x \in Memory /\ x.at = "again" /\ x.retrying = TRUE /\ x.session = call[c].session
        /\ x.vault = call[c].vault /\ x.local = call[c].local /\ x.token = call[c].token
    BY <1>1 DEF Memory, Points
  <2>3. "again" \in Points \ InFlight
    BY DEF Points, InFlight
  <2> HIDE DEF x
  <2>4. Goes(c, x)
    BY <2>1, <2>2, <2>3, MoveGoes
  <2>5. QED
    BY <2>1, <2>2, <2>3, <2>4
<1>4. CASE next(c)
  <2>1. Idle \in Memory /\ Idle.at = "idle" /\ ~Idle.retrying
    BY DEF Idle, Memory, Points
  <2>2. Goes(c, Idle) /\ cached' = cached
    BY <1>1, <1>4, <2>1 DEF next, Goes, InFlight
  <2>3. QED
    BY <2>1, <2>2 DEF Points, InFlight
<1>5. QED
  BY <1>2, <1>3, <1>4

(* Each of its steps keeps a caller in one session.                            *)
LEMMA CallsInOneSession ==
  ASSUME TokenAssumption, SessionInv, NEW c \in Callers, Calls(c)
  PROVE  SessionInv'
<1>1. TypeInv
  BY DEF SessionInv
<1>2. cached # None => cached.local \in 1 .. locals /\ (cached.local = local => cached.session = session)
  BY DEF SessionInv, OneSession
<1>3. /\ call[c].at \in InFlight /\ call[c].local = local => call[c].session = session
      /\ call[c].at \in {"issued", "sending"} =>
           call[c].token.session = call[c].session /\ call[c].token.local = call[c].local
      /\ call[c].at \in InFlight => call[c].local \in 1 .. locals
  BY <1>1 DEF SessionInv, OneSession, TypeInv, CallsTyped
<1>4. CASE getToken(c)
  <2>1. PICK x \in Memory :
          /\ Goes(c, x) /\ cached' = cached /\ x.at \in {"failed", "issuing", "sending"}
          /\ x.at # "failed" => x.session = session /\ x.local = local
          /\ x.at = "sending" => cached # None /\ x.token = cached /\ cached.local = local
    BY <1>1, <1>4, GetTokenGoes
  <2>2. x.at \in {"issued", "sending"} => x.token.session = x.session /\ x.token.local = x.local
    BY <1>2, <2>1
  <2>3. x.at \in InFlight => x.session = session
    BY <2>1 DEF InFlight
  <2>4. QED
    BY <1>2, <2>1, <2>2, <2>3, GoesInOneSession
<1>5. CASE issue(c)
  <2>1. PICK x \in Memory :
          /\ Goes(c, x) /\ cached' = cached /\ call[c].at = "issuing" /\ x.at = "issued"
          /\ x.session = call[c].session /\ x.local = call[c].local
          /\ x.token.session = x.session /\ x.token.local = x.local
    BY <1>1, <1>5, IssueGoes
  <2>2. x.local = local => x.session = session
    BY <1>3, <2>1 DEF InFlight
  <2>3. QED
    BY <1>2, <2>1, <2>2, GoesInOneSession
<1>6. CASE issued(c)
  <2>1. PICK x \in Memory :
          /\ Goes(c, x) /\ call[c].at = "issued" /\ x.at = "sending"
          /\ cached' = call[c].token /\ x.token = call[c].token
          /\ x.session = call[c].session /\ x.local = call[c].local
    BY <1>1, <1>6, IssuedGoes
  <2>2. /\ x.local = local => x.session = session
        /\ x.token.session = x.session /\ x.token.local = x.local /\ x.local \in 1 .. locals
    BY <1>3, <2>1 DEF InFlight
  <2>3. QED
    BY <2>1, <2>2, GoesInOneSession
<1>7. CASE issueFails(c) \/ serve(c) \/ retry(c) \/ giveUp(c) \/ next(c)
  <2>1. PICK x \in Memory : Goes(c, x) /\ x.at \in Points \ InFlight /\ cached' \in {None, cached}
    BY <1>1, <1>7, OtherGoes
  <2>2. x.at \notin {"issued", "sending"} /\ x.at \notin InFlight
    BY <2>1 DEF InFlight
  <2>3. QED
    BY <1>2, <2>1, <2>2, GoesInOneSession
<1>8. QED
  BY <1>4, <1>5, <1>6, <1>7 DEF Calls

(* Each of its steps keeps what is tried again new.                            *)
LEMMA CallsNew ==
  ASSUME TokenAssumption, RetryInv, NEW c \in Callers, Calls(c)
  PROVE  RetryInv'
<1>1. TypeInv
  BY DEF RetryInv
<1>2. /\ call[c].at = "idle" => ~call[c].retrying
      /\ call[c].at = "issued" => New(call[c].token)
      /\ call[c].at = "again" => call[c].retrying /\ (cached = None \/ New(cached))
      /\ call[c].at = "sending" /\ call[c].retrying => New(call[c].token)
      /\ call[c].at = "unauthorized" => ~call[c].retrying
      /\ call[c].retrying \in BOOLEAN
  BY <1>1 DEF RetryInv, RetriesNew, TypeInv, CallsTyped, Memory
<1>3. CASE getToken(c)
  <2>1. PICK x \in Memory :
          /\ Goes(c, x) /\ cached' = cached /\ call[c].at \in {"idle", "again"} /\ x.retrying = call[c].retrying
          /\ x.at \in {"failed", "issuing", "sending"}
          /\ x.at = "sending" => cached # None /\ x.token = cached
    BY <1>1, <1>3, GetTokenGoes
  <2>2. x.at = "sending" /\ x.retrying => New(x.token)
    BY <1>2, <2>1
  <2>3. QED
    BY <2>1, <2>2, GoesNew
<1>4. CASE issue(c)
  <2>1. PICK x \in Memory : Goes(c, x) /\ cached' = cached /\ x.at = "issued" /\ New(x.token)
    BY <1>1, <1>4, IssueGoes
  <2>2. QED
    BY <2>1, GoesNew
<1>5. CASE issued(c)
  <2>1. PICK x \in Memory :
          /\ Goes(c, x) /\ call[c].at = "issued" /\ x.at = "sending"
          /\ cached' = call[c].token /\ x.token = call[c].token
    BY <1>1, <1>5, IssuedGoes
  <2>2. now' = now
    BY <2>1 DEF Goes
  <2>3. New(x.token) /\ New(cached')
    BY <1>2, <2>1
  <2>4. QED
    BY <2>1, <2>3, GoesNew
<1>6. CASE issueFails(c) \/ serve(c) \/ retry(c) \/ giveUp(c) \/ next(c)
  <2>1. PICK x \in Memory :
           /\ Goes(c, x) /\ x.at \in Points \ InFlight
           /\ cached' \in {None, cached}
           /\ x.at = "idle" => ~x.retrying
           /\ x.at = "again" => x.retrying /\ cached' = None
           /\ x.at = "unauthorized" =>
                call[c].at = "sending" /\ ~(call[c].token.exp > now) /\ x.retrying = call[c].retrying
           /\ x.at = "refused" => call[c].at = "unauthorized" /\ call[c].retrying
    BY <1>1, <1>6, OtherGoes
  <2>2. x.at # "refused"
    BY <1>2, <2>1
  <2>3. x.at = "unauthorized" => ~x.retrying
    <3>1. SUFFICES ASSUME x.at = "unauthorized", x.retrying PROVE FALSE
      BY <1>2, <2>1
    <3>2. call[c].token.exp = now + Lifetime /\ ~(call[c].token.exp > now)
      BY <1>2, <2>1, <3>1 DEF New
    <3>3. QED
      BY <1>1, <3>2, Typed, Constants
  <2>4. x.at \notin {"issued", "sending"}
    BY <2>1 DEF InFlight
  <2>5. QED
    BY <2>1, <2>2, <2>3, <2>4, GoesNew
<1>7. QED
  BY <1>3, <1>4, <1>5, <1>6 DEF Calls

-----------------------------------------------------------------------------
(* The session, the vault and the clock.                                       *)

\* Something around the callers changes.
Changes == login \/ clear \/ disconnect \/ signOutDevice \/ \E v \in Vaults : connect(v)

(* The counters only grow, and what is cached is dropped or stays.             *)
LEMMA ChangesTyped ==
  ASSUME TokenAssumption, TypeInv, Changes \/ Tick
  PROVE  /\ TypeInv' /\ call' = call /\ cached' \in {None, cached}
         /\ Changes => now' = now
<1>1. /\ call' = call /\ cached' \in {None, cached}
      /\ now' \in 0 .. MaxTime /\ clearing' \in BOOLEAN
      /\ sessions' \in 0 .. MaxSessions /\ sessions <= sessions' /\ session' \in {None} \union (1 .. sessions')
      /\ locals' \in 0 .. MaxLocals /\ locals <= locals' /\ local' \in {None} \union (1 .. locals')
      /\ vault' \in {None} \union Vaults /\ (vault' = None <=> local' = None)
  <2>1. CASE login
    BY <2>1, Typed, Constants DEF login, TypeInv, TypeOK
  <2>2. CASE clear
    <3>1. /\ UNCHANGED <<now, session, sessions, vault, local, locals, call>>
          /\ clearing' = FALSE /\ cached' = None
      BY <2>2 DEF clear
    <3>2. /\ now \in 0 .. MaxTime /\ sessions \in 0 .. MaxSessions /\ session \in {None} \union (1 .. sessions)
          /\ locals \in 0 .. MaxLocals /\ local \in {None} \union (1 .. locals)
          /\ vault \in {None} \union Vaults /\ (vault = None <=> local = None)
      BY DEF TypeInv, TypeOK
    <3>3. clearing' \in BOOLEAN
      BY <3>1
    <3>4. QED
      BY <3>1, <3>2, <3>3
  <2>3. CASE disconnect
    BY <2>3, Typed, Constants DEF disconnect, TypeInv, TypeOK
  <2>4. CASE signOutDevice
    BY <2>4, Typed, Constants DEF signOutDevice, TypeInv, TypeOK
  <2>5. CASE \E v \in Vaults : connect(v)
    BY <2>5, Typed, Constants DEF connect, TypeInv, TypeOK
  <2>6. CASE Tick
    BY <2>6, Typed, Constants DEF Tick, who, TypeInv, TypeOK
  <2>7. QED
    BY <2>1, <2>2, <2>3, <2>4, <2>5, <2>6 DEF Changes
<1>2. TypeOK'
  BY <1>1 DEF TypeInv, TypeOK
<1>3. CallsTyped'
  BY <1>1, Typed DEF TypeInv, CallsTyped
<1>4. Changes => now' = now
  BY DEF Changes, login, clear, disconnect, signOutDevice, connect
<1>5. QED
  BY <1>1, <1>2, <1>3, <1>4 DEF TypeInv

(* A session begins with no vault connected, and a connection with a local id  *)
(* that nobody has used.                                                       *)
LEMMA ChangesInOneSession ==
  ASSUME TokenAssumption, ~LogsInConnected, SessionInv, Changes \/ Tick
  PROVE  SessionInv'
<1>1. TypeInv' /\ call' = call /\ cached' \in {None, cached}
  BY ChangesTyped DEF SessionInv
<1>2. /\ session = None => local = None
      /\ cached # None => cached.local \in 1 .. locals /\ (cached.local = local => cached.session = session)
      /\ \A c \in Callers : call[c].at \in InFlight =>
           call[c].local \in 1 .. locals /\ (call[c].local = local => call[c].session = session)
      /\ sessions \in Nat /\ locals \in Nat /\ (vault = None <=> local = None)
  BY Typed DEF SessionInv, OneSession, TypeInv, CallsTyped
<1>3. \/ session' = session /\ local' = local /\ locals' = locals
      \/ local' = None /\ locals' = locals
      \/ session' = session /\ session # None /\ local' = locals + 1 /\ locals' = locals + 1
  BY <1>2 DEF Changes, login, clear, disconnect, signOutDevice, connect, Tick, who
<1>4. session' = None => local' = None
  BY <1>2, <1>3, Constants
<1>5. \A l \in 1 .. locals : l \in 1 .. locals' /\ (l = local' => l = local /\ session' = session)
  BY <1>2, <1>3, Constants
<1>6. OneSession'
  BY <1>1, <1>2, <1>4, <1>5 DEF SessionInv, OneSession, InFlight
<1>7. QED
  BY <1>1, <1>6 DEF SessionInv

(* The clock waits for whoever has a message under way.                        *)
LEMMA ChangesNew ==
  ASSUME TokenAssumption, RetryInv, Changes \/ Tick
  PROVE  RetryInv'
<1>1. TypeInv' /\ call' = call /\ cached' \in {None, cached} /\ (Changes => now' = now)
  BY ChangesTyped DEF RetryInv
<1>2. CASE Changes
  BY <1>1, <1>2 DEF RetryInv, RetriesNew, New
<1>3. CASE Tick
  <2>1. \A c \in Callers : call[c].at \notin {"issuing", "issued", "sending", "again"}
    BY <1>3 DEF Tick
  <2>2. QED
    BY <1>1, <2>1 DEF RetryInv, RetriesNew
<1>4. QED
  BY <1>2, <1>3

-----------------------------------------------------------------------------
(* The theorems.                                                               *)

(* A device begins with no session, no vault and no token.                     *)
LEMMA Initially ==
  ASSUME TokenAssumption, Init
  PROVE  SessionInv /\ RetryInv
<1>1. call \in [Callers -> Memory] /\ \A c \in Callers : call[c] = Idle
  BY DEF Init, Idle, Memory, Points
<1>2. Idle.at = "idle" /\ ~Idle.retrying /\ Idle.token = None
  BY DEF Idle
<1>3. TypeOK
  <2>1. \A c \in Callers : call[c].at \in Points /\ call[c].token \in {None} \union Tokens
    BY <1>1, <1>2 DEF Points
  <2>2. /\ now \in 0 .. MaxTime /\ sessions \in 0 .. MaxSessions /\ locals \in 0 .. MaxLocals
        /\ session = None /\ local = None /\ vault = None /\ cached = None
    BY Constants DEF Init
  <2>3. clearing \in BOOLEAN /\ (vault = None) = (local = None)
    BY DEF Init
  <2>4. QED
    BY <2>1, <2>2, <2>3 DEF TypeOK, Points
<1>4. CallsTyped /\ OneSession /\ RetriesNew
  BY <1>1, <1>2 DEF Init, CallsTyped, InFlight, OneSession, RetriesNew
<1>5. QED
  BY <1>3, <1>4 DEF SessionInv, RetryInv, TypeInv

(* A step is one of a caller, or a change around them.                         *)
LEMMA Steps ==
  ASSUME [Next]_vars
  PROVE  UNCHANGED vars \/ (\E c \in Callers : Calls(c)) \/ Changes \/ Tick
BY DEF Next, Changes

(* What is tried again is always new.                                          *)
LEMMA RetriesAreNew ==
  ASSUME TokenAssumption
  PROVE  Spec => []RetryInv
<1>1. Init => RetryInv
  BY Initially
<1>2. ASSUME RetryInv, [Next]_vars
      PROVE  RetryInv'
  <2>1. CASE UNCHANGED vars
    BY <1>2, <2>1 DEF vars, who, RetryInv, TypeInv, TypeOK, CallsTyped, RetriesNew, New
  <2>2. QED
    BY <1>2, <2>1, Steps, CallsNew, ChangesNew
<1>3. QED
  BY <1>1, <1>2, PTL DEF Spec

(* The callers and their tokens keep to their types.                           *)
THEOREM TokensTypeCorrect ==
  ASSUME TokenAssumption
  PROVE  Spec => []TypeOK
<1>1. RetryInv => TypeOK
  BY DEF RetryInv, TypeInv
<1>2. QED
  BY <1>1, RetriesAreNew, PTL

(* A request is never refused for its token a second time: what is cached      *)
(* after the refusal, by whomever, is new.                                     *)
THEOREM RefusedAtMostOnce ==
  ASSUME TokenAssumption
  PROVE  Spec => []RefusedOnce
<1>1. RetryInv => RefusedOnce
  BY DEF RetryInv, RetriesNew, RefusedOnce
<1>2. QED
  BY <1>1, RetriesAreNew, PTL

(* Where a login needs a sign-out before it, nobody who asks in a session is   *)
(* handed a token of an earlier one, whenever that token arrived.              *)
THEOREM TokensOfTheirSession ==
  ASSUME TokenAssumption, ~LogsInConnected
  PROVE  Spec => []NoOldSession
<1>1. Init => SessionInv
  BY Initially
<1>2. ASSUME SessionInv, [Next]_vars
      PROVE  SessionInv'
  <2>1. CASE UNCHANGED vars
    BY <1>2, <2>1 DEF vars, who, SessionInv, TypeInv, TypeOK, CallsTyped, OneSession
  <2>2. QED
    BY <1>2, <2>1, Steps, CallsInOneSession, ChangesInOneSession
<1>3. ASSUME SessionInv
      PROVE  NoOldSession
  <2>1. \A c \in Callers : call[c].at = "sending" =>
          call[c].token.session = call[c].session /\ call[c].session \in 1 .. sessions
    BY <1>3 DEF SessionInv, OneSession, TypeInv, CallsTyped, InFlight
  <2>2. QED
    BY <2>1 DEF NoOldSession
<1>4. QED
  BY <1>1, <1>2, <1>3, PTL DEF Spec
=============================================================================

---------------------------- MODULE DeviceSession ----------------------------
(***************************************************************************)
(* The account of a device, as AuthManager keeps it: the stored session    *)
(* token, what is known of it, the device login that replaces it and the   *)
(* sign-out that drops it.                                                 *)
(*                                                                         *)
(* Identity lookups, logins and sign-outs await the server and overlap.    *)
(* The server serves a request at one time and its answer arrives at       *)
(* another, so an answer may be about a token that has been replaced.  A   *)
(* token is named by the login that obtained it.                           *)
(***************************************************************************)
EXTENDS Naturals, FiniteSets

CONSTANTS
    Logins,         \* device logins, each named by the token it may obtain
    Stored,         \* the token of an earlier start of the program
    Callers,        \* callers of refreshReadiness()
    None,
    Prompt,         \* is a lookup answered before the token is replaced
    MaxPolls,       \* polls until the device code expires
    MaxOutages,     \* bound: losses of the network
    MaxErrors       \* bound: requests the server fails

SessionAssumption ==
    /\ Stored \notin Logins /\ None \notin Logins \union {Stored}
    /\ Prompt \in BOOLEAN /\ MaxPolls \in Nat \ {0}
    /\ {MaxOutages, MaxErrors} \subseteq Nat

Tokens == Logins \union {Stored}

VARIABLES
    token,          \* authSessionToken, as stored, or None
    status,         \* unknown, verified, pending or relogin
    name,           \* whose display name is shown: of which token
    stage,          \* where each device login is
    answer,         \* the server's answer under way to a login
    polls,          \* polls of each login
    cancelled,      \* logins the user cancelled
    current,        \* deviceLoginRun, or None
    shown,          \* deviceAuthorization: the login it belongs to, or None
    lookup,         \* each caller's lookup: its token and the answer to it
    leaving,        \* the sign-out in flight: its token and whether served
    grant,          \* the server's device codes
    live,           \* the server's sessions
    online, outages, errors,
    invited         \* history: the login the user last began, None if cancelled

client == <<token, status, name>>
runs == <<stage, answer, polls, cancelled, current, shown>>
server == <<grant, live>>
net == <<online, outages, errors>>
vars == <<client, runs, lookup, leaving, server, net, invited>>

NoLookup == [token |-> None, answer |-> "idle"]
Staying == [token |-> None, served |-> FALSE]

Active(r) == current = r /\ r \notin cancelled

\* The token may be replaced or dropped now.
MayReplace == Prompt => \A c \in Callers : lookup[c] = NoLookup

Init ==
    /\ \/ token = Stored /\ live \in SUBSET {Stored}
       \/ token = None /\ live = {}
    /\ status = "unknown" /\ name = None
    /\ stage = [r \in Logins |-> "idle"]
    /\ answer = [r \in Logins |-> "none"]
    /\ polls = [r \in Logins |-> 0]
    /\ cancelled = {} /\ current = None /\ shown = None
    /\ lookup = [c \in Callers |-> NoLookup] /\ leaving = Staying
    /\ grant = [r \in Logins |-> "none"]
    /\ online = TRUE /\ outages = 0 /\ errors = 0
    /\ invited = None

-----------------------------------------------------------------------------
(* beginDeviceLogin()                                                       *)

\* Faulty variant: the run clears whatever run is the current one.
FinishAnyway(r) ==
    /\ stage' = [stage EXCEPT ![r] = "ended"]
    /\ current' = None /\ shown' = None

\* Faulty variant: a run that ends stays the current one.
FinishKeepsRun(r) ==
    /\ stage' = [stage EXCEPT ![r] = "ended"]
    /\ UNCHANGED <<current, shown>>

\* The finally clause: only the current run clears itself.
Finish(r) ==
    /\ stage' = [stage EXCEPT ![r] = "ended"]
    /\ current' = IF current = r THEN None ELSE current
    /\ shown' = IF current = r THEN None ELSE shown

GoOn(r, to) ==
    /\ stage' = [stage EXCEPT ![r] = to]
    /\ UNCHANGED <<current, shown>>

\* A login starts unless one is under way; a cancelled one does not count.
begin(r) ==
    /\ stage[r] = "idle"
    /\ current = None \/ current \in cancelled
    /\ stage' = [stage EXCEPT ![r] = "starting"]
    /\ current' = r /\ shown' = None /\ invited' = r
    /\ UNCHANGED <<client, answer, polls, cancelled, lookup, leaving, server,
                   net>>

\* Faulty variant: a late authorization is opened after the cancellation.
startedAnyway(r) ==
    /\ stage[r] = "starting" /\ online
    /\ grant' = [grant EXCEPT ![r] = "pending"]
    /\ stage' = [stage EXCEPT ![r] = "waiting"]
    /\ shown' = r
    /\ UNCHANGED <<client, current, answer, polls, cancelled, lookup, leaving,
                   live, net, invited>>

\* The device code arrives: it is shown, and its page opened, by an active run.
started(r) ==
    /\ stage[r] = "starting" /\ online
    /\ \/ /\ Active(r)
          /\ grant' = [grant EXCEPT ![r] = "pending"]
          /\ stage' = [stage EXCEPT ![r] = "waiting"]
          /\ shown' = r
          /\ UNCHANGED current
       \/ ~Active(r) /\ Finish(r) /\ UNCHANGED grant
    /\ UNCHANGED <<client, answer, polls, cancelled, lookup, leaving, live, net,
                   invited>>

\* The interval is over: an active run polls.
waited(r) ==
    /\ stage[r] = "waiting"
    /\ \/ /\ Active(r)
          /\ polls' = [polls EXCEPT ![r] = @ + 1]
          /\ GoOn(r, "polling")
       \/ ~Active(r) /\ Finish(r) /\ UNCHANGED polls
    /\ UNCHANGED <<client, answer, cancelled, lookup, leaving, server, net,
                   invited>>

\* The server serves a poll; an approved code becomes a session at once.
servePoll(r) ==
    /\ stage[r] = "polling" /\ answer[r] = "none" /\ online
    /\ answer' = [answer EXCEPT ![r] = grant[r]]
    /\ live' = IF grant[r] = "approved" THEN live \union {r} ELSE live
    /\ grant' = [grant EXCEPT ![r] = IF @ = "approved" THEN "spent" ELSE @]
    /\ UNCHANGED <<client, stage, polls, cancelled, current, shown, lookup,
                   leaving, net, invited>>

\* Faulty variant: the deadline is not looked at.
polledOn(r) ==
    /\ stage[r] = "polling" /\ answer[r] # "none"
    /\ \/ /\ Active(r) /\ answer[r] = "approved"
          /\ GoOn(r, "completing")
       \/ /\ Active(r) /\ answer[r] = "pending"
          /\ GoOn(r, "waiting")
       \/ /\ ~Active(r) \/ answer[r] \notin {"approved", "pending"}
          /\ Finish(r)
    /\ answer' = [answer EXCEPT ![r] = "none"]
    /\ UNCHANGED <<client, polls, cancelled, lookup, leaving, server, net,
                   invited>>

\* The answer of the poll: a run that is no longer active ends.
polled(r) ==
    /\ stage[r] = "polling" /\ answer[r] # "none"
    /\ \/ /\ Active(r) /\ answer[r] = "approved"
          /\ GoOn(r, "completing")
       \/ /\ Active(r) /\ answer[r] = "pending" /\ polls[r] < MaxPolls
          /\ GoOn(r, "waiting")
       \/ /\ \/ ~Active(r)
             \/ answer[r] = "pending" /\ polls[r] = MaxPolls
             \/ answer[r] \notin {"approved", "pending"}
          /\ Finish(r)
    /\ answer' = [answer EXCEPT ![r] = "none"]
    /\ UNCHANGED <<client, polls, cancelled, lookup, leaving, server, net,
                   invited>>

\* completeDeviceLogin(): whose session the new token is.
serveUser(r) ==
    /\ stage[r] = "completing" /\ answer[r] = "none" /\ online
    /\ answer' = [answer EXCEPT ![r] = IF r \in live THEN "user" ELSE "gone"]
    /\ UNCHANGED <<client, stage, polls, cancelled, current, shown, lookup,
                   leaving, server, net, invited>>

\* Faulty variant: the run is not looked at again after the lookup.
completedAnyway(r) ==
    /\ stage[r] = "completing" /\ answer[r] # "none" /\ MayReplace
    /\ \/ /\ answer[r] = "user"
          /\ token' = r /\ status' = "verified" /\ name' = r
       \/ answer[r] # "user" /\ UNCHANGED client
    /\ Finish(r)
    /\ answer' = [answer EXCEPT ![r] = "none"]
    /\ UNCHANGED <<polls, cancelled, lookup, leaving, server, net, invited>>

\* The session is there: an active run stores its token, verified.
completed(r) ==
    /\ stage[r] = "completing" /\ answer[r] # "none" /\ MayReplace
    /\ \/ /\ answer[r] = "user" /\ Active(r)
          /\ token' = r /\ status' = "verified" /\ name' = r
       \/ (answer[r] # "user" \/ ~Active(r)) /\ UNCHANGED client
    /\ Finish(r)
    /\ answer' = [answer EXCEPT ![r] = "none"]
    /\ UNCHANGED <<polls, cancelled, lookup, leaving, server, net, invited>>

\* A request of the login fails, or the network is gone: the login ends.
loginFails(r) ==
    /\ stage[r] \in {"starting", "polling", "completing"} /\ answer[r] = "none"
    /\ \/ ~online /\ UNCHANGED errors
       \/ errors < MaxErrors /\ errors' = errors + 1
    /\ Finish(r)
    /\ UNCHANGED <<client, answer, polls, cancelled, lookup, leaving, server,
                   online, outages, invited>>

cancelDeviceLogin ==
    /\ current # None /\ current \notin cancelled
    /\ cancelled' = cancelled \union {current}
    /\ shown' = None /\ invited' = None
    /\ UNCHANGED <<client, stage, answer, polls, current, lookup, leaving,
                   server, net>>

-----------------------------------------------------------------------------
(* refreshReadiness()                                                       *)

\* What is known of the token is taken for granted, unless it is asked again.
refreshReadiness(c) ==
    /\ lookup[c] = NoLookup
    /\ \/ /\ token = None
          /\ status' = "unknown" /\ name' = None
          /\ UNCHANGED lookup
       \/ /\ token # None /\ status # "verified" /\ ~online
          /\ status' = "pending" /\ name' = None
          /\ UNCHANGED lookup
       \/ /\ token # None /\ status \in {"unknown", "pending"} /\ online
          /\ lookup' = [lookup EXCEPT ![c] = [token |-> token, answer |-> "none"]]
          /\ UNCHANGED <<status, name>>
    /\ UNCHANGED <<token, runs, leaving, server, net, invited>>

\* The server answers a lookup, or fails it, or is out of reach.
serveLookup(c) ==
    /\ lookup[c].answer = "none"
    /\ \/ /\ online /\ UNCHANGED errors
          /\ lookup' = [lookup EXCEPT ![c].answer =
                          IF lookup[c].token \in live THEN "user" ELSE "gone"]
       \/ /\ online /\ errors < MaxErrors /\ errors' = errors + 1
          /\ lookup' = [lookup EXCEPT ![c].answer = "error"]
       \/ /\ ~online /\ UNCHANGED errors
          /\ lookup' = [lookup EXCEPT ![c].answer = "offline"]
    /\ UNCHANGED <<client, runs, leaving, server, online, outages, invited>>

\* Faulty variant: a network that fails counts as a refusal.
refreshedOffline(c) ==
    /\ lookup[c].answer \notin {"idle", "none"}
    /\ \/ /\ lookup[c].answer = "user"
          /\ status' = "verified" /\ name' = lookup[c].token
       \/ /\ lookup[c].answer # "user"
          /\ status' = "relogin" /\ name' = None
    /\ lookup' = [lookup EXCEPT ![c] = NoLookup]
    /\ UNCHANGED <<token, runs, leaving, server, net, invited>>

\* Faulty variant: an answer that says who it is is not taken for a proof.
refreshedUnproved(c) ==
    /\ lookup[c].answer \notin {"idle", "none"}
    /\ status' = "pending" /\ name' = None
    /\ lookup' = [lookup EXCEPT ![c] = NoLookup]
    /\ UNCHANGED <<token, runs, leaving, server, net, invited>>

\* refreshIdentity(): the answer is applied to whatever token there is now.
refreshed(c) ==
    /\ lookup[c].answer \notin {"idle", "none"}
    /\ LET away == lookup[c].answer = "offline"
                     \/ (lookup[c].answer = "error" /\ ~online)
       IN \/ /\ lookup[c].answer = "user"
             /\ status' = "verified" /\ name' = lookup[c].token
          \/ /\ away
             /\ status' = "pending" /\ name' = None
          \/ /\ lookup[c].answer \in {"gone", "error"} /\ ~away
             /\ status' = "relogin" /\ name' = None
    /\ lookup' = [lookup EXCEPT ![c] = NoLookup]
    /\ UNCHANGED <<token, runs, leaving, server, net, invited>>

-----------------------------------------------------------------------------
(* signOutDevice()                                                          *)

signOutDevice ==
    /\ token # None /\ leaving = Staying
    /\ leaving' = [token |-> token, served |-> FALSE]
    /\ UNCHANGED <<client, runs, lookup, server, net, invited>>

serveSignOut ==
    /\ leaving # Staying /\ ~leaving.served
    /\ leaving' = [leaving EXCEPT !.served = TRUE]
    /\ \/ online /\ live' = live \ {leaving.token} /\ UNCHANGED errors
       \/ ~online /\ UNCHANGED <<live, errors>>
       \/ errors < MaxErrors /\ errors' = errors + 1 /\ UNCHANGED live
    /\ UNCHANGED <<client, runs, lookup, grant, online, outages, invited>>

\* Faulty variant: the name shown is left.
signedOutKeepsStatus ==
    /\ leaving.served /\ MayReplace
    /\ leaving' = Staying
    /\ token' = None
    /\ UNCHANGED <<status, name, runs, lookup, server, net, invited>>

\* clearLocalAuthSession(), whatever the server said.
signedOut ==
    /\ leaving.served /\ MayReplace
    /\ leaving' = Staying
    /\ token' = None /\ status' = "unknown" /\ name' = None
    /\ UNCHANGED <<runs, lookup, server, net, invited>>

-----------------------------------------------------------------------------
(* The user at the browser, the server and the network.                     *)

decide(r, to) ==
    /\ grant[r] = "pending" /\ to \in {"approved", "denied", "expired"}
    /\ grant' = [grant EXCEPT ![r] = to]
    /\ UNCHANGED <<client, runs, lookup, leaving, live, net, invited>>

revoke(t) ==
    /\ t \in live
    /\ live' = live \ {t}
    /\ UNCHANGED <<client, runs, lookup, leaving, grant, net, invited>>

goOffline ==
    /\ online /\ outages < MaxOutages
    /\ online' = FALSE /\ outages' = outages + 1
    /\ UNCHANGED <<client, runs, lookup, leaving, server, errors, invited>>

goOnline ==
    /\ ~online
    /\ online' = TRUE
    /\ UNCHANGED <<client, runs, lookup, leaving, server, outages, errors,
                   invited>>

Login(r) ==
    \/ started(r) \/ waited(r) \/ servePoll(r) \/ polled(r) \/ serveUser(r)
    \/ completed(r) \/ loginFails(r)
Lookup(c) == serveLookup(c) \/ refreshed(c)
SignOut == serveSignOut \/ signedOut

Next ==
    \/ \E r \in Logins :
          \/ begin(r) \/ Login(r)
          \/ \E to \in {"approved", "denied", "expired"} : decide(r, to)
    \/ cancelDeviceLogin
    \/ \E c \in Callers : refreshReadiness(c) \/ Lookup(c)
    \/ signOutDevice \/ SignOut
    \/ \E t \in Tokens : revoke(t)
    \/ goOffline \/ goOnline

Spec == Init /\ [][Next]_vars

-----------------------------------------------------------------------------
Maybe(S) == S \union {None}
Answers == {"none", "pending", "approved", "spent", "denied", "expired", "user",
            "gone"}

TypeOK ==
    /\ {token, name} \subseteq Maybe(Tokens)
    /\ status \in {"unknown", "verified", "pending", "relogin"}
    /\ stage \in [Logins -> {"idle", "starting", "waiting", "polling",
                             "completing", "ended"}]
    /\ answer \in [Logins -> Answers]
    /\ polls \in [Logins -> 0 .. MaxPolls]
    /\ cancelled \subseteq Logins /\ live \subseteq Tokens
    /\ {current, shown, invited} \subseteq Maybe(Logins)
    /\ lookup \in [Callers -> [token : Maybe(Tokens),
                               answer : {"idle", "none", "user", "gone",
                                         "error", "offline"}]]
    /\ leaving \in [token : Maybe(Tokens), served : BOOLEAN]
    /\ grant \in [Logins -> {"none", "pending", "approved", "spent", "denied",
                             "expired"}]
    /\ online \in BOOLEAN
    /\ outages \in 0 .. MaxOutages /\ errors \in 0 .. MaxErrors

\* A login that goes on is the one the program knows of: no older, cancelled
\* run clears it, and no second one starts beside it.
GoingOnIsCurrent ==
    \A r \in Logins :
        stage[r] \notin {"idle", "ended"} /\ r \notin cancelled => current = r

\* The code on the screen is that of the login under way, never of one that
\* was cancelled.
ShownIsActive == shown # None => Active(shown)

\* No token is stored but the one of the login the user last began and has not
\* cancelled since.
NoUninvitedToken ==
    [][token' # token /\ token' # None => token' = invited]_vars

\* Signed in means that the server has confirmed this very token.
ConfirmedToken == status = "verified" => token # None /\ name = token

\* The user is asked to sign in again only for a token the server does not
\* know: losing the network does not cost the session.
OnlyRefusedAsksAgain ==
    status = "relogin" /\ errors = 0 => token \notin live

\* A login comes to an end: it signs in, fails, expires or is cancelled.
LoginEnds == \A r \in Logins : current = r ~> current # r

\* A good token is confirmed in the end, unless it is dropped or revoked.
ConfirmedInTheEnd ==
    \A t \in Tokens :
        (token = t /\ t \in live) ~>
            (status = "verified" \/ token # t \/ t \notin live \/ errors > 0)
=============================================================================

------------------------------ MODULE MCPlugin ------------------------------
(***************************************************************************)
(* The life of the plugin, the account it signs in with, and the scheduler  *)
(* of its transfers.  The three share no state in the models (signing in    *)
(* and out are steps of the plugin's environment), so that each is checked  *)
(* while the others stand still.                                            *)
(***************************************************************************)
EXTENDS PluginLifecycle

CONSTANTS c1, r1, r2, old, t1, t2, t3, t4, t5

VARIABLES
  part,     \* which of them runs
  token, status, name, stage, answer, polls, cancelled, current, shown, lookup,
  leaving, grant, live, online, outages, errors, invited,
  queue, running, releasing, window, pausedFor, policy, closed, trouble, openedAt

accountVars == <<token, status, name, stage, answer, polls, cancelled, current, shown, lookup,
                 leaving, grant, live, online, outages, errors, invited>>
laneVars == <<queue, running, releasing, window, pausedFor, policy, closed, trouble, openedAt>>

\* A user and a server that do not wait for what is in flight.
Hasty == INSTANCE PluginLifecycle
  WITH Patient <- FALSE, Crashes <- TRUE,
       MaxCleanupFails <- 1, MaxFails <- 0, MaxRestarts <- 0

\* Two logins that overlap with a sign-out.
SignIns == INSTANCE DeviceSession
  WITH Logins <- {r1, r2}, Stored <- old, Callers <- {}, Prompt <- FALSE,
       MaxPolls <- 2, MaxOutages <- 0, MaxErrors <- 0

\* One login and a lookup that overlap, while the network fails.
Lookups == INSTANCE DeviceSession
  WITH Logins <- {r1}, Stored <- old, Callers <- {c1}, Prompt <- TRUE,
       MaxPolls <- 1, MaxOutages <- 2, MaxErrors <- 1

\* Callers that come and go.
Lane == INSTANCE TransferScheduler
  WITH Transfers <- {t1, t2, t3, t4}, Start <- 2, Max <- 3, Sample <- 1, MinCount <- 2,
       Decrease <- 1, Probe <- 2, Expiry <- 2, Eager <- FALSE, MaxTrouble <- 2

\* Callers that always have another transfer to make.
FullTransfers == {t1, t2, t3, t4, t5}
FullLane == INSTANCE TransferScheduler
  WITH Transfers <- FullTransfers, Start <- 2, Max <- 4, Sample <- 2, MinCount <- 2,
       Decrease <- 2, Probe <- 3, Expiry <- 2, Eager <- TRUE, MaxTrouble <- 2

ASSUME /\ Hasty!LifecycleAssumption
       /\ SignIns!SessionAssumption /\ Lookups!SessionAssumption
       /\ Lane!SchedulerAssumption /\ FullLane!SchedulerAssumption

\* A part that stands still stands in one of its initial states.
Signed == token = old /\ live = {old}
MCInit ==
  /\ part \in {"patient", "hasty", "logins", "lookups", "lane", "full lane"}
  /\ Init
  /\ IF part = "lookups" THEN Lookups!Init ELSE SignIns!Init
  /\ IF part = "full lane" THEN FullLane!Init ELSE Lane!Init
  /\ part \in {"logins", "lookups"} \/ Signed

MCNext ==
  \/ part = "patient" /\ Next /\ UNCHANGED <<part, accountVars, laneVars>>
  \/ part = "hasty" /\ Hasty!Next /\ UNCHANGED <<part, accountVars, laneVars>>
  \/ part = "logins" /\ SignIns!Next /\ UNCHANGED <<part, vars, laneVars>>
  \/ part = "lookups" /\ Lookups!Next /\ UNCHANGED <<part, vars, laneVars>>
  \/ part = "lane" /\ Lane!Next /\ UNCHANGED <<part, vars, accountVars>>
  \/ part = "full lane" /\ FullLane!Next /\ ~closed' /\ UNCHANGED <<part, vars, accountVars>>

\* Of the plugin: every await ends, and the window gets the focus again and
\* again, also while nothing else is in flight.
PluginFairness ==
  \A j \in Jobs :
    /\ WF_vars(part = "patient" /\ JobSteps(j))
    /\ SF_vars(part = "patient" /\ Quiet /\ queueAutoSyncResume(j))

\* Of the scheduler: every transfer ends, for its request has a timeout of its
\* own; a settled call runs its finally(); and time passes, also between
\* transfers that follow each other closely.  The callers always have another
\* transfer to make.
LaneFairness ==
  LET on == part = "full lane" IN
  /\ \A t \in FullTransfers : WF_laneVars(on /\ (FullLane!succeed(t) \/ FullLane!fail(t)))
  /\ \A t \in FullTransfers : WF_laneVars(on /\ FullLane!run(t))
  /\ WF_laneVars(on /\ FullLane!release)
  /\ SF_laneVars(on /\ FullLane!Tick)

MCSpec ==
  /\ MCInit /\ [][MCNext]_<<part, vars, accountVars, laneVars>>
  /\ PluginFairness /\ LaneFairness

-----------------------------------------------------------------------------
(* The properties of the components, each in its part.                      *)

\* Every component keeps to its types.
TypesOK ==
  /\ IF part = "hasty" THEN Hasty!TypeOK ELSE TypeOK
  /\ IF part = "lookups" THEN Lookups!TypeOK ELSE SignIns!TypeOK
  /\ IF part = "full lane" THEN FullLane!TypeOK ELSE Lane!TypeOK

\* Where everybody waits for what is in flight.
DisabledStaysOff == part = "patient" => DisabledStaysStopped
\* A vault that was disconnected has no session and no key left.
DisconnectedStaysSo == part = "patient" => DisconnectedStays
\* The loop never runs a vault on the store or with the key of another.
OneVaultAtATime == part = "patient" => OneVault
\* A stored key is that of the vault the local database is bound to.
StoredTogether == part = "patient" => KeptTogether
\* A vault that is connected and enabled syncs in the end.
SyncsInTheEnd == part = "patient" => ConnectedSyncs

\* A login that goes on is the one begun last.
GoingOnIsCurrent == part = "logins" => SignIns!GoingOnIsCurrent
\* The code that is shown is of the login that goes on.
ShownIsActive == part = "logins" => SignIns!ShownIsActive
\* A token is stored only for a login that was not cancelled.
NoUninvitedToken == SignIns!NoUninvitedToken
\* An account that is shown as confirmed belongs to the token that is stored.
ConfirmedToken == part = "lookups" => Lookups!ConfirmedToken
\* The user is asked to sign in again only when the server refused.
OnlyRefusedAsksAgain == part = "lookups" => Lookups!OnlyRefusedAsksAgain

\* Nothing waits while the limit leaves room (drainQueue).
WorkConserving == IF part = "full lane" THEN FullLane!WorkConserving ELSE Lane!WorkConserving
\* A probe tries one transfer more than the limit it is judged against.
ProbeOneAbove == Lane!ProbeOneAbove
\* A sample was taken at one limit.
SampleAtOneLimit == Lane!SampleAtOneLimit
\* A window measures, or its clock stands still.
ClocksExclusive == Lane!ClocksExclusive
\* A gap in the demand voids what was measured before.
GapVoids == Lane!GapVoids
\* Under steady demand and success the limit grows back.
LimitRecovers == part = "full lane" => FullLane!LimitRecovers

\* A handler or an answer that comes late has no effect: what was switched off,
\* disconnected, cancelled or signed out stays so, and what is kept belongs together.
NoLateEffect ==
  /\ TypesOK
  /\ DisabledStaysOff /\ DisconnectedStaysSo /\ OneVaultAtATime /\ StoredTogether /\ LastSwitchHolds
  /\ GoingOnIsCurrent /\ ShownIsActive /\ ConfirmedToken /\ OnlyRefusedAsksAgain

\* The adaptive limit is used to the full, and judged only by what was measured at it.
LimitIsMeasured == WorkConserving /\ ProbeOneAbove /\ SampleAtOneLimit /\ ClocksExclusive

\* A connected vault syncs in the end and the limit recovers; on the way no database
\* changes its vault, no token comes uninvited, no gap counts as transfer time.
SyncsAndRecovers == SyncsInTheEnd /\ LimitRecovers /\ BoundOnce /\ NoUninvitedToken /\ GapVoids
=============================================================================

----------------------------- MODULE MCPullPlan ------------------------------
(***************************************************************************)
(* What a pull makes of the entries that other devices have changed, in    *)
(* several settings.                                                       *)
(***************************************************************************)
EXTENDS PullPlan, TLC

CONSTANTS x1, x2, x3, p

VARIABLE part   \* the setting

Three == {x1, x2, x3}

\* A path of the vault's settings, which the latest version wins.
Settings == INSTANCE PullPlan
  WITH Managed <- {p}

\* Entries whose paths do not meet, renamed and deleted everywhere.
Moves == INSTANCE PullPlan
  WITH PageSize <- 1, Meet <- FALSE, TheyMove <- TRUE, UserMoves <- TRUE

\* Pulls that fail.
Failing == INSTANCE PullPlan
  WITH PageSize <- 1, Meet <- FALSE, TheyMove <- TRUE, MaxEdits <- 1, MaxFailures <- 1

\* Entries of other devices that swap and share paths over several pages.
Swaps == INSTANCE PullPlan
  WITH Theirs <- Three, PageSize <- 1, TheyMove <- TRUE,
       MaxEdits <- 0, MaxSeq <- 4

ASSUME /\ Settings!PullPlanAssumption /\ Moves!PullPlanAssumption
       /\ Failing!PullPlanAssumption /\ Swaps!PullPlanAssumption

MCInit ==
  \/ part = "meets" /\ Init
  \/ part = "settings" /\ Settings!Init
  \/ part = "moves" /\ Moves!Init
  \/ part = "failing" /\ Failing!Init
  \/ part = "swaps" /\ Swaps!Init

MCNext ==
  /\ UNCHANGED part
  /\ \/ part = "meets" /\ Next
     \/ part = "settings" /\ Settings!Next
     \/ part = "moves" /\ Moves!Next
     \/ part = "failing" /\ Failing!Next
     \/ part = "swaps" /\ Swaps!Next

MCSpec == MCInit /\ [][MCNext]_<<part, vars>>

\* Entries of other devices are told apart only by what happens to them, texts too.
Symmetry == Permutations(Theirs) \cup Permutations(Texts)

-----------------------------------------------------------------------------
(* The properties of the component, in the settings in which they hold.     *)

\* The state of each setting keeps to its types.
TypesOK ==
  CASE part = "meets" -> TypeOK
    [] part = "settings" -> Settings!TypeOK
    [] part = "moves" -> Moves!TypeOK
    [] part = "failing" -> Failing!TypeOK
    [] part = "swaps" -> Swaps!TypeOK

\* No text a user has written is lost to a pull: it is in a file, a copy or on the server.
NothingIsLost ==
  CASE part = "meets" -> NothingLost
    [] part = "settings" -> Settings!NothingLost
    [] part = "moves" -> Moves!NothingLost
    [] OTHER -> TRUE

\* Where all has been exchanged, paths and texts are those of the server.
Exchanged ==
  CASE part = "meets" -> Converged
    [] part = "settings" -> Settings!Converged
    [] part = "moves" -> Moves!Converged
    [] part = "failing" -> Failing!Converged
    [] part = "swaps" -> Swaps!Converged

\* No record a pull puts is refused by the unique indexes.
Storable ==
  CASE part = "meets" -> StoreAccepts
    [] part = "swaps" -> Swaps!StoreAccepts
    [] OTHER -> TRUE

\* However entries meet, move and swap, and whatever fails, the store takes each
\* record of a pull, and once all is exchanged the vault is as the server has it.
AllConverged == TypesOK /\ Exchanged /\ Storable

\* What is deleted on the server was deleted by a user, never by a pull that fails.
OwnDeletions == Failing!OnlyUsersDelete
=============================================================================

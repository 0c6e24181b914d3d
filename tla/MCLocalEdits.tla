---------------------------- MODULE MCLocalEdits ----------------------------
(* The file of LocalEdits as a Markdown file, as one that is not merged, and *)
(* as one whose device comes to rest.                                        *)
EXTENDS LocalEdits

VARIABLE part   \* which of them it is

\* A file that is not merged, on a device that may stop and fail.
Binary == INSTANCE LocalEdits
  WITH Mergeable <- FALSE, StatsFile <- TRUE, MaxMine <- 2, MaxTheirs <- 1, MaxDeletes <- 1,
       MaxTombstones <- 1, MaxRestores <- 0, MaxCrashes <- 1, MaxFailures <- 0

\* A file that only loses its text to edits, on a device that may stop and fail.
Resting == INSTANCE LocalEdits
  WITH Mergeable <- TRUE, StatsFile <- FALSE, MaxMine <- 2, MaxTheirs <- 2, MaxDeletes <- 0,
       MaxTombstones <- 0, MaxRestores <- 0, MaxCrashes <- 1, MaxFailures <- 1

ASSUME Binary!FlagsAreBoolean /\ Binary!BoundsAreNaturals /\ Binary!NothingIsNothing
ASSUME Resting!FlagsAreBoolean /\ Resting!BoundsAreNaturals /\ Resting!NothingIsNothing

MCInit == \/ part = "text" /\ Init
          \/ part = "binary" /\ Binary!Init
          \/ part = "resting" /\ Resting!Init

MCNext == /\ UNCHANGED part
          /\ \/ part = "text" /\ Next
             \/ part = "binary" /\ Binary!Next
             \/ part = "resting" /\ Resting!Next

\* The process is started again, the watcher reports, and the sync loop pulls and
\* pushes while there is something to pull or push (AutoSync).
Fairness ==
  LET on == part = "resting" IN
  /\ WF_vars(on /\ ~up /\ Resting!Reconcile)
  /\ WF_vars(on /\ (Resting!Deliver \/ Resting!DropEvent))
  /\ WF_vars(on /\ Resting!PullStep)
  /\ WF_vars(on /\ Resting!PushStep)

MCSpec == MCInit /\ [][MCNext]_<<part, vars>> /\ Fairness

-----------------------------------------------------------------------------
(* Where merges do not fail, recorded edits survive.  Where nothing is      *)
(* deleted or taken back, the device converges.                             *)

\* A recorded edit is in the file, a copy, a mutation or on the server, unless a merge
\* fails, whatever other devices push meanwhile.
RecordedSurvive == TypeOK /\ (part # "resting" => RecordedEditsSurvive)

\* The device comes to rest, and whenever it is at rest it has what the server has.
DeviceConverges == part = "resting" => ComesToRest /\ []QuietMeansConverged
=============================================================================

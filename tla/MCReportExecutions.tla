------------------------ MODULE MCReportExecutions ------------------------
(***************************************************************************)
(* ReportExecutions for TLC, in one instance with two parts.  When         *)
(* `overlap', the transactions of two requests and of the sweep overlap    *)
(* freely on one run of one worker.  Otherwise the rows of all runs and    *)
(* workers are changed by one transaction at a time.  Sessions and runs    *)
(* are interchangeable: handlers never compare two of them.  Workers are   *)
(* not, since only some of them are capable.                               *)
(***************************************************************************)
EXTENDS ReportExecutions, TLC

CONSTANTS FollowedRun, FollowedWorker   \* those of the overlapping transactions

VARIABLE overlap   \* which of the two parts moves

MCvars == <<overlap, vars>>

\* What ImplementsReportRun maps to, looked at only while transactions do not overlap.
Followed == INSTANCE ReportRun WITH
  attempt <- [r \in Runs |-> IF overlap THEN 0 ELSE LastAttempt(r)],
  phase <- [r \in Runs |-> IF overlap THEN "none" ELSE LastStatus(r)]

\* Nothing has happened to the other runs or by the other workers.
OnlyFollowed ==
  /\ \A k \in Keys : /\ status[k] # "absent" => k[1] = FollowedRun
                     /\ holder[k] \in {FollowedWorker, NoWorker}
  /\ \A s \in Sessions : session[s].op = "claim" => session[s].by = FollowedWorker

MCInit == overlap \in BOOLEAN /\ Init

MCNext ==
  \/ overlap /\ UNCHANGED overlap /\ Next /\ OnlyFollowed'
  \/ ~overlap /\ UNCHANGED overlap /\ SerialNext

MCSpec == MCInit /\ [][MCNext]_MCvars

Interchangeable == Permutations(Sessions)

-----------------------------------------------------------------------------
\* One transaction at a time, a run is one chain of attempts in the table: at most one
\* of them is waiting or being worked on, RETRYING marks exactly those whose
\* replacement exists, and a lease is held exactly while a worker may be running the
\* row (create_retry, _finalize).
OneChainAlone ==
  ~overlap => OneLiveAttempt /\ RetryingMeansReplaced /\ LeaseOnlyWhileLeased

\* One at a time, the table implements the single chain of attempts ReportRun
\* promises for each run.
ImplementsReportRunAlone == Followed!RunSpec
===========================================================================

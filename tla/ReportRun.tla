----------------------------- MODULE ReportRun -----------------------------
(***************************************************************************)
(* What the execution lifecycle promises of one logical report run: a      *)
(* single chain of attempts, one live at a time, each handed to a worker   *)
(* at most once, replaced only after it failed, never more than            *)
(* MaxAttempts of them, and ended once and for all.                        *)
(***************************************************************************)
EXTENDS Integers

CONSTANTS Runs, MaxAttempts

VARIABLES attempt,  \* how many attempts the run has had
          phase     \* where its latest attempt is

Ended == {"succeeded", "failed", "timed_out", "cancelled"}

RunInit ==
  /\ attempt = [r \in Runs |-> 0]
  /\ phase = [r \in Runs |-> "none"]

Moves(r, n, p) == attempt'[r] = n /\ phase'[r] = p

Submit(r)  == phase[r] = "none" /\ Moves(r, 1, "queued")
HandOut(r) == phase[r] = "queued" /\ Moves(r, attempt[r], "assigned")
Start(r)   == phase[r] = "assigned" /\ Moves(r, attempt[r], "running")

\* The latest attempt failed and its replacement is queued.
Replace(r) ==
  /\ phase[r] \in {"assigned", "running"}
  /\ attempt[r] < MaxAttempts
  /\ Moves(r, attempt[r] + 1, "queued")

\* The run is over.  Only a running attempt can have succeeded, and one that
\* was never handed out cannot have failed.
End(r, p) ==
  /\ \/ phase[r] = "queued" /\ p \in {"timed_out", "cancelled"}
     \/ phase[r] = "assigned" /\ p \in Ended \ {"succeeded"}
     \/ phase[r] = "running" /\ p \in Ended
  /\ Moves(r, attempt[r], p)

RunStep(r) ==
  \/ Submit(r) \/ HandOut(r) \/ Start(r) \/ Replace(r)
  \/ \E p \in Ended : End(r, p)
  \/ Moves(r, attempt[r], phase[r])

\* One transaction may move several runs: a sweep ends or replaces all it read.
RunNext ==
  /\ attempt' = [r \in Runs |-> attempt'[r]]
  /\ phase' = [r \in Runs |-> phase'[r]]
  /\ \A r \in Runs : RunStep(r)

RunSpec == RunInit /\ [][RunNext]_<<attempt, phase>>
=============================================================================

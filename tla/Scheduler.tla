----------------------------- MODULE Scheduler -----------------------------
(***************************************************************************)
(* A periodic task of the in-process scheduler: every process of the       *)
(* backend runs a loop for it, and the loops share one advisory lock of    *)
(* the database, which belongs to a database session and goes with it.     *)
(***************************************************************************)
EXTENDS Naturals, FiniteSets

CONSTANTS Processes

VARIABLES loop,    \* per process: down, asleep, running the handler, or returning
          holder,  \* sessions, each named by its process, that hold the lock
          severed  \* processes whose session was lost while their handler ran

schedulerVars == <<loop, holder, severed>>

TypeOK ==
  /\ loop \in [Processes -> {"down", "asleep", "running", "returning"}]
  /\ holder \in SUBSET Processes /\ Cardinality(holder) <= 1
  /\ severed \in SUBSET Processes

Init ==
  /\ loop = [p \in Processes |-> "down"]
  /\ holder = {}
  /\ severed = {}

To(p, s) == loop' = [loop EXCEPT ![p] = s]

\* start, once per process.
start(p) == loop[p] = "down" /\ To(p, "asleep") /\ UNCHANGED <<holder, severed>>

\* _run_once after the interval: the lock is asked for and not waited for; the
\* process that has it calls the handler, the others sleep again.
run_once(p) ==
  /\ loop[p] = "asleep"
  /\ holder = {}
  /\ To(p, "running")
  /\ holder' = {p}
  /\ UNCHANGED severed

\* The handler returns or raises: the unlock of `finally` follows.
HandlerEnds(p) == loop[p] = "running" /\ To(p, "returning") /\ UNCHANGED <<holder, severed>>

\* The unlock; on a session that was lost it raises, which the loop swallows.
Unlock(p) ==
  /\ loop[p] = "returning"
  /\ To(p, "asleep")
  /\ holder' = holder \ {p}
  /\ severed' = severed \ {p}

(***************************************************************************)
(* stop cancels the loop and unwinds a running handler through the unlock; *)
(* a process that dies ends its session, and the database drops the lock.  *)
(***************************************************************************)
stop(p) ==
  /\ loop[p] # "down"
  /\ To(p, "down")
  /\ holder' = holder \ {p}
  /\ severed' = severed \ {p}

\* external: the session that holds the lock is lost, and the handler, which has
\* sessions of its own, goes on.
SessionLost(p) ==
  /\ loop[p] = "running" /\ p \in holder
  /\ holder' = holder \ {p}
  /\ severed' = severed \cup {p}
  /\ UNCHANGED loop

Next ==
  \E p \in Processes :
    start(p) \/ run_once(p) \/ HandlerEnds(p) \/ Unlock(p) \/ stop(p) \/ SessionLost(p)

Fairness ==
  \A p \in Processes :
    WF_schedulerVars(start(p)) /\ WF_schedulerVars(run_once(p))
      /\ WF_schedulerVars(HandlerEnds(p)) /\ WF_schedulerVars(Unlock(p))

Spec == Init /\ [][Next]_schedulerVars /\ Fairness

-----------------------------------------------------------------------------
Running == {p \in Processes : loop[p] = "running"}

\* Of the handlers at work at most one did not lose its lock's session: two at once
\* need a lost session (_run_once).
OneHandlerAtWork == Cardinality(Running \ severed) <= 1

\* While some process stays up the task is run again and again, whatever handlers
\* raise and processes or sessions die (_loop).
TaskRunsAgain ==
  (\E p \in Processes : <>[](loop[p] # "down")) => []<>(Running # {})
=============================================================================

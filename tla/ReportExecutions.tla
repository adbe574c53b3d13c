-------------------------- MODULE ReportExecutions --------------------------
(***************************************************************************)
(* The report-execution control plane: the report_executions table and    *)
(* every transaction that writes it (run-now, the worker's claim, start,  *)
(* progress, complete and fail calls, a user's cancel, and the sweep that *)
(* times out what nobody is running any more).                            *)
(*                                                                         *)
(* A handler reads its row, checks it, and writes at flush time; get_db    *)
(* commits when the handler returns and rolls back on any exception.       *)
(* PostgreSQL runs these transactions at READ COMMITTED and none of them   *)
(* but the claim locks what it read, so each is two steps here: a Begin    *)
(* step that reads and checks, and a Commit step that writes the columns   *)
(* the handler assigned, whatever the row holds by then.  The ORM emits    *)
(* only columns whose value changed since they were loaded.                *)
(*                                                                         *)
(* Timestamps are timers a Tick moves: what the code compares with "now"   *)
(* is kept as the time left or elapsed, so time itself is unbounded.       *)
(***************************************************************************)
EXTENDS Integers, FiniteSets

CONSTANTS Runs,          \* logical report runs: one root idempotency key each
          Workers,       \* enrolled report workers of the organization
          Capable,       \* those whose probe proved Excel and PAfE automation
          Sessions,      \* database sessions serving API requests
          Timer,         \* the session of the periodic sweep
          NoWorker, NoLease,
          MaxAttempts,   \* REPORT_MAX_ATTEMPTS
          LeaseTicks,    \* REPORT_EXECUTION_LEASE_SECONDS, in ticks
          TimeoutTicks,  \* the execution's timeout_seconds, in ticks
          BackoffTicks,  \* REPORT_RETRY_BACKOFF_SECONDS, in ticks
          BackoffMaxTicks \* REPORT_RETRY_BACKOFF_MAX_SECONDS, in ticks

ASSUME BoundsAssumption ==
  /\ MaxAttempts \in Nat \ {0}
  /\ LeaseTicks \in Nat \ {0}
  /\ TimeoutTicks \in Nat \ {0}
  /\ BackoffTicks \in Nat \ {0}
  /\ BackoffMaxTicks \in Nat \ {0}

ASSUME NamesAssumption ==
  /\ NoWorker \notin Workers
  /\ NoLease \notin Int
  /\ Timer \notin Sessions
  /\ Capable \subseteq Workers

VARIABLES status,   \* ReportExecution.status, "absent" before the row exists
          holder,   \* worker_id
          lease,    \* lease_expires_at as ticks left (-1: in the past)
          wait,     \* available_at as ticks left before a worker may claim
          age,      \* ticks since queued_at, or since assigned_at/started_at
          session   \* what each open transaction has read and will write

rows == <<status, holder, lease, wait, age>>
vars == <<status, holder, lease, wait, age, session>>

(***************************************************************************)
(* One row per attempt.  A retry's idempotency key is derived from its    *)
(* parent's ("...#a2"), so the unique index makes <<run, attempt>> the     *)
(* row's identity.                                                         *)
(***************************************************************************)
Attempts == 1 .. MaxAttempts
Keys     == Runs \X Attempts

Active   == {"queued", "assigned", "running"}
Leased   == {"assigned", "running"}
Settled  == {"succeeded", "failed", "timed_out", "cancelled", "retrying"}
Statuses == {"absent"} \cup Active \cup Settled

\* Error codes, told apart by retry class only: what a worker reports, and the
\* code the sweep gives a lapsed lease.
WorkerCauses == {"transient", "permanent"}
Causes       == WorkerCauses \cup {"lease_expired"}

\* _ALLOWED.  No handler takes the edge from "assigned" back to "queued".
Allowed ==
       {"queued"} \X {"assigned", "cancelled", "timed_out"}
  \cup {"assigned"} \X {"running", "failed", "timed_out", "cancelled", "queued"}
  \cup {"running"} \X {"succeeded", "failed", "timed_out", "cancelled"}
  \cup {"failed", "timed_out"} \X {"retrying"}

can_transition(from, to) == <<from, to>> \in Allowed

\* retry_class_for.
retryable(c) == c \in {"transient", "lease_expired"}

can_retry(k, c) == retryable(c) /\ k[2] < MaxAttempts

next_attempt(k) == <<k[1], k[2] + 1>>

\* backoff_seconds: doubled once per attempt already made, capped.
backoff(attempt) ==
  LET delay == BackoffTicks * 2 ^ (attempt - 1)
  IN  IF delay \in 1 .. BackoffMaxTicks THEN delay ELSE BackoffMaxTicks

Idle == [op |-> "idle"]

OneRowOps == {"start", "progress", "overdue", "complete", "cancel"}

Transactions ==
       {Idle}
  \cup [op : OneRowOps, key : Keys, wasQueued : BOOLEAN]
  \cup [op : {"fail"}, key : Keys, why : WorkerCauses]
  \cup [op : {"sweep"}, expired : SUBSET Keys, stale : SUBSET Keys]
  \cup [op : {"claim"}, by : Workers, expired : SUBSET Keys, stale : SUBSET Keys]

TypeOK ==
  /\ status \in [Keys -> Statuses]
  /\ holder \in [Keys -> Workers \cup {NoWorker}]
  /\ lease \in [Keys -> (-1 .. LeaseTicks) \cup {NoLease}]
  /\ wait \in [Keys -> 0 .. BackoffMaxTicks]
  /\ age \in [Keys -> 0 .. TimeoutTicks + 1]
  /\ session \in [Sessions \cup {Timer} -> Transactions]

Init ==
  /\ status = [k \in Keys |-> "absent"]
  /\ holder = [k \in Keys |-> NoWorker]
  /\ lease = [k \in Keys |-> NoLease]
  /\ wait = [k \in Keys |-> 0]
  /\ age = [k \in Keys |-> 0]
  /\ session = [s \in Sessions \cup {Timer} |-> Idle]

-----------------------------------------------------------------------------
(***************************************************************************)
(* enqueue: the first row of a run.  A repeated or concurrent request      *)
(* computes the same key, finds the row (or loses to the unique index) and *)
(* is given the winner, so only the first one changes anything.            *)
(***************************************************************************)
RunNow(r) ==
  /\ status[<<r, 1>>] = "absent"
  /\ status' = [status EXCEPT ![<<r, 1>>] = "queued"]
  /\ UNCHANGED <<holder, lease, wait, age, session>>

-----------------------------------------------------------------------------
(***************************************************************************)
(* The reading halves.                                                     *)
(***************************************************************************)
Open(s, txn) ==
  /\ session[s] = Idle
  /\ session' = [session EXCEPT ![s] = txn]
  /\ UNCHANGED rows

OneRow(name, k) == [op |-> name, key |-> k, wasQueued |-> status[k] = "queued"]

\* _owned_execution and _assert_owned_by.
Owned(w, k) == holder[k] = w

BeginStart(s, w, k) ==
  /\ Owned(w, k)
  /\ can_transition(status[k], "running")
  /\ Open(s, OneRow("start", k))

(***************************************************************************)
(* extend_lease before the deadline only moves the lease.  Past it, the    *)
(* handler writes TIMED_OUT and then raises, which is "overdue" below.     *)
(***************************************************************************)
BeginProgress(s, w, k) ==
  /\ Owned(w, k)
  /\ status[k] \in Leased
  /\ \/ age[k] <= TimeoutTicks /\ Open(s, OneRow("progress", k))
     \/ age[k] > TimeoutTicks /\ Open(s, OneRow("overdue", k))

\* A repeated complete of a SUCCEEDED row answers success and writes nothing.
BeginComplete(s, w, k) ==
  /\ Owned(w, k)
  /\ can_transition(status[k], "succeeded")
  /\ Open(s, OneRow("complete", k))

BeginFail(s, w, k, why) ==
  /\ Owned(w, k)
  /\ can_transition(status[k], "failed")
  /\ Open(s, [op |-> "fail", key |-> k, why |-> why])

\* Mutant: cancel without assert_transition, once the row exists.
BeginCancel_Unchecked(s, k) ==
  /\ status[k] # "absent"
  /\ Open(s, OneRow("cancel", k))

BeginCancel(s, k) ==
  /\ can_transition(status[k], "cancelled")
  /\ Open(s, OneRow("cancel", k))

\* Mutant: the sweep looks only at RUNNING rows.
find_expired_leases_RunningOnly == {k \in Keys : status[k] = "running" /\ lease[k] = -1}

find_expired_leases == {k \in Keys : status[k] \in Leased /\ lease[k] = -1}
find_stale_queued   == {k \in Keys : status[k] = "queued" /\ age[k] > TimeoutTicks}

\* The periodic sweep: the scheduler's advisory lock admits one at a time.  A
\* sweep that finds nothing writes nothing.
BeginSweep ==
  /\ find_expired_leases \cup find_stale_queued # {}
  /\ Open(Timer, [op |-> "sweep", expired |-> find_expired_leases, stale |-> find_stale_queued])

\* A claim sweeps first, in the request's own session and under no lock.
BeginClaim(s, w) ==
  Open(s, [op |-> "claim", by |-> w,
           expired |-> find_expired_leases, stale |-> find_stale_queued])

-----------------------------------------------------------------------------
(***************************************************************************)
(* The writing halves: flush and commit, atomic because the first UPDATE   *)
(* of a row locks it until the transaction ends.                           *)
(***************************************************************************)
Close(s) == session' = [session EXCEPT ![s] = Idle]

\* Mutant: mark_started leaves the lease the claim granted.
CommitStart_KeepsLease(s) ==
  LET k == session[s].key IN
  /\ session[s].op = "start"
  /\ status' = [status EXCEPT ![k] = "running"]
  /\ age' = [age EXCEPT ![k] = 0]
  /\ Close(s)
  /\ UNCHANGED <<holder, lease, wait>>

CommitStart(s) ==
  LET k == session[s].key IN
  /\ session[s].op = "start"
  /\ status' = [status EXCEPT ![k] = "running"]
  /\ lease' = [lease EXCEPT ![k] = LeaseTicks]
  /\ age' = [age EXCEPT ![k] = 0]
  /\ Close(s)
  /\ UNCHANGED <<holder, wait>>

CommitProgress(s) ==
  /\ session[s].op = "progress"
  /\ lease' = [lease EXCEPT ![session[s].key] = LeaseTicks]
  /\ Close(s)
  /\ UNCHANGED <<status, holder, wait, age>>

\* _finalize releases the lease; a row read as QUEUED had none to release.
Released(k, wasQueued) == IF wasQueued THEN lease[k] ELSE NoLease

CommitComplete(s) ==
  LET k == session[s].key IN
  /\ session[s].op = "complete"
  /\ status' = [status EXCEPT ![k] = "succeeded"]
  /\ lease' = [lease EXCEPT ![k] = Released(k, session[s].wasQueued)]
  /\ Close(s)
  /\ UNCHANGED <<holder, wait, age>>

CommitCancel(s) ==
  LET k == session[s].key IN
  /\ session[s].op = "cancel"
  /\ status' = [status EXCEPT ![k] = "cancelled"]
  /\ lease' = [lease EXCEPT ![k] = Released(k, session[s].wasQueued)]
  /\ Close(s)
  /\ UNCHANGED <<holder, wait, age>>

(***************************************************************************)
(* fail followed by create_retry, for a set of rows failed with the same   *)
(* cause.  A row whose replacement can be inserted becomes RETRYING; one   *)
(* whose replacement already exists keeps the failed status.               *)
(***************************************************************************)
Spawns(k, why) == can_retry(k, why) /\ status[next_attempt(k)] = "absent"

\* Mutant: create_retry never marks the row it replaced.
FailedStatus_Unmarked(k, why, verdict) == verdict

FailedStatus(k, why, verdict) == IF Spawns(k, why) THEN "retrying" ELSE verdict

SpawnedBy(K, why) == {next_attempt(k) : k \in {j \in K : Spawns(j, why)}}

StatusAfterFail(K, why, verdict) ==
  [k \in Keys |-> IF k \in K THEN FailedStatus(k, why, verdict)
                  ELSE IF k \in SpawnedBy(K, why) THEN "queued"
                  ELSE status[k]]

WaitAfterFail(K, why) ==
  [k \in Keys |-> IF k \in SpawnedBy(K, why) THEN backoff(k[2] - 1) ELSE wait[k]]

CommitFail(s) ==
  LET k == session[s].key
      why == session[s].why IN
  /\ session[s].op = "fail"
  /\ status' = StatusAfterFail({k}, why, "failed")
  /\ wait' = WaitAfterFail({k}, why)
  /\ lease' = [lease EXCEPT ![k] = NoLease]
  /\ Close(s)
  /\ UNCHANGED <<holder, age>>

(***************************************************************************)
(* reap_stale_executions: rows read with a lapsed lease are timed out and   *)
(* retried; rows read as queued too long are timed out and not retried.    *)
(***************************************************************************)
\* Mutant: unclaimed rows are retried like lapsed leases.
StatusAfterSweep_RetriesStale(expired, stale) ==
  StatusAfterFail(expired \cup stale, "lease_expired", "timed_out")

\* Mutant: the ASSIGNED -> QUEUED edge of _ALLOWED, taken by the sweep.
StatusAfterSweep_Requeues(expired, stale) ==
  [k \in Keys |-> IF k \in stale THEN "timed_out"
                  ELSE IF k \in expired THEN "queued" ELSE status[k]]

StatusAfterSweep(expired, stale) ==
  [k \in Keys |-> IF k \in stale THEN "timed_out"
                  ELSE StatusAfterFail(expired, "lease_expired", "timed_out")[k]]

LeaseAfterSweep(expired) ==
  [k \in Keys |-> IF k \in expired THEN NoLease ELSE lease[k]]

CommitSweep ==
  LET txn == session[Timer] IN
  /\ txn.op = "sweep"
  /\ status' = StatusAfterSweep(txn.expired, txn.stale)
  /\ wait' = WaitAfterFail(txn.expired, "lease_expired")
  /\ lease' = LeaseAfterSweep(txn.expired)
  /\ Close(Timer)
  /\ UNCHANGED <<holder, age>>

(***************************************************************************)
(* claim_next: the sweep, then one UPDATE whose WHERE clause is evaluated   *)
(* on the rows as they are now (FOR UPDATE SKIP LOCKED).  Which eligible    *)
(* row is first in FIFO order is left open.                                *)
(***************************************************************************)
CommitClaim(s) ==
  LET txn == session[s]
      swept == StatusAfterSweep(txn.expired, txn.stale)
      waits == WaitAfterFail(txn.expired, "lease_expired")
      leases == LeaseAfterSweep(txn.expired)
      eligible == {k \in Keys : /\ txn.by \in Capable
                                /\ swept[k] = "queued"
                                /\ waits[k] = 0}
  IN
  /\ txn.op = "claim"
  /\ \/ /\ eligible = {}
        /\ status' = swept
        /\ lease' = leases
        /\ UNCHANGED <<holder, age>>
     \/ \E k \in eligible :
          /\ status' = [swept EXCEPT ![k] = "assigned"]
          /\ holder' = [holder EXCEPT ![k] = txn.by]
          /\ lease' = [leases EXCEPT ![k] = LeaseTicks]
          /\ age' = [age EXCEPT ![k] = 0]
  /\ wait' = waits
  /\ Close(s)

(***************************************************************************)
(* The deadline branch of extend_lease: fail() has flushed TIMED_OUT, then  *)
(* the ConflictException makes get_db roll the write back.                 *)
(***************************************************************************)
RaiseOverdue(s) ==
  /\ session[s].op = "overdue"
  /\ Close(s)
  /\ UNCHANGED rows

\* A transaction that does not commit: the API process dies, the database
\* refuses, or something after the write raises.
Rollback(s) ==
  /\ session[s].op \notin {"idle", "overdue"}
  /\ Close(s)
  /\ UNCHANGED rows

-----------------------------------------------------------------------------
\* One tick of the clock, for every timestamp a later step compares with now.
Tick ==
  /\ lease' = [k \in Keys |-> IF lease[k] \in {NoLease, -1} THEN lease[k] ELSE lease[k] - 1]
  /\ wait' = [k \in Keys |-> IF wait[k] = 0 THEN 0 ELSE wait[k] - 1]
  /\ age' = [k \in Keys |-> IF status[k] \notin Active THEN 0
                            ELSE IF age[k] <= TimeoutTicks THEN age[k] + 1 ELSE age[k]]
  /\ UNCHANGED <<status, holder, session>>

WorkerCall(s) ==
  \E w \in Workers : 
    \/ BeginClaim(s, w)
    \/ \E k \in Keys :
         \/ BeginStart(s, w, k)
         \/ BeginProgress(s, w, k)
         \/ BeginComplete(s, w, k)
         \/ \E why \in WorkerCauses : BeginFail(s, w, k, why)

Commit(s) ==
  \/ CommitStart(s)
  \/ CommitProgress(s)
  \/ CommitComplete(s)
  \/ CommitCancel(s)
  \/ CommitFail(s)
  \/ CommitClaim(s)
  \/ RaiseOverdue(s)

Next ==
  \/ Tick
  \/ \E r \in Runs : RunNow(r)
  \/ BeginSweep
  \/ CommitSweep
  \/ \E s \in Sessions : \/ WorkerCall(s)
                         \/ \E k \in Keys : BeginCancel(s, k)
                         \/ Commit(s)
  \/ \E s \in Sessions \cup {Timer} : Rollback(s)

Spec == Init /\ [][Next]_vars

(***************************************************************************)
(* The same handlers when no two transactions overlap: what every row lock *)
(* or a SERIALIZABLE isolation level would give.                           *)
(***************************************************************************)
Open_sessions == {s \in Sessions \cup {Timer} : session[s] # Idle}

Serialised == \A s, t \in Open_sessions : s = t

SerialNext == Next /\ Serialised'
SerialSpec == Init /\ [][SerialNext]_vars

(***************************************************************************)
(* Fairness.  The scheduler runs the sweep every interval and catches its  *)
(* exceptions, so a sweep always starts again and does not roll back       *)
(* forever; time passes.  Nothing is assumed of workers, users or requests. *)
(***************************************************************************)
Fairness == WF_vars(Tick) /\ WF_vars(BeginSweep) /\ SF_vars(CommitSweep)

LiveSpec == Spec /\ Fairness

-----------------------------------------------------------------------------
(***************************************************************************)
(* Properties of the handlers as deployed, overlapping freely.             *)
(***************************************************************************)

\* Every row in a leased status has a worker and a lease: find_expired_leases
\* skips rows whose lease is null, so a leased row without one would stay
\* RUNNING for ever.
LeasedIsReapable ==
  \A k \in Keys : status[k] \in Leased => lease[k] # NoLease /\ holder[k] \in Workers

\* A replacement attempt exists only behind an attempt that was handed to a
\* worker: create_retry never runs for a row that could still be claimed.
RetryFollowsAHandout ==
  \A k \in Keys : k[2] > 1 /\ status[k] # "absent" =>
    LET parent == <<k[1], k[2] - 1>>
    IN  holder[parent] \in Workers /\ status[parent] \notin {"queued", "assigned"}

\* What every open transaction still knows of the rows it read: a row that was
\* handed out stays so, and a row that existed stays.
HandedOut(k) == holder[k] \in Workers /\ status[k] \notin {"absent", "queued"}

SnapshotHolds(txn) ==
  /\ txn.op \in {"start", "progress", "overdue", "complete", "fail"} => HandedOut(txn.key)
  /\ txn.op = "cancel" => status[txn.key] # "absent" /\ (txn.wasQueued \/ HandedOut(txn.key))
  /\ txn.op \in {"sweep", "claim"} =>
       /\ \A k \in txn.expired : HandedOut(k)
       /\ \A k \in txn.stale : status[k] # "absent"

\* The inductive strengthening of LeasedIsReapable and RetryFollowsAHandout.
RaceInv ==
  /\ LeasedIsReapable
  /\ RetryFollowsAHandout
  /\ \A k \in Keys : status[k] \in {"absent", "queued"} => holder[k] = NoWorker
  /\ \A s \in Sessions \cup {Timer} : SnapshotHolds(session[s])

\* A row is handed out at most once, and never again after it left the queue,
\* whatever claims, sweeps and cancels overlap (claim_job: "the same execution
\* can never be handed out twice").
HandedOutOnce ==
  [][\A k \in Keys : /\ holder[k] # NoWorker => holder'[k] = holder[k]
                     /\ status[k] \in Leased \cup Settled => status'[k] # "queued"]_vars

\* No unbounded waiting: an execution that exists reaches a settled status,
\* with no help from any worker.
EverySettles ==
  \A k \in Keys : status[k] \in Active ~> status[k] \in Settled

(***************************************************************************)
(* Properties of the handlers when transactions do not overlap.            *)
(***************************************************************************)

\* A run has at most one attempt that could still produce a report.
OneLiveAttempt ==
  \A j, k \in Keys : j[1] = k[1] /\ status[j] \in Active /\ status[k] \in Active => j = k

\* RETRYING marks exactly the rows whose replacement exists; in particular a
\* succeeded or cancelled run is never attempted again.
RetryingMeansReplaced ==
  \A k \in Keys : status[k] = "retrying" <=>
    /\ next_attempt(k) \in Keys
    /\ status[next_attempt(k)] # "absent"

\* A lease is held exactly while a worker may be running the row (_finalize).
LeaseOnlyWhileLeased ==
  \A k \in Keys : lease[k] # NoLease <=> status[k] \in Leased

\* The latest attempt of a run that has a row, 0 before the first.
LastAttempt(r) ==
  CHOOSE n \in 0 .. MaxAttempts : \A m \in Attempts : status[<<r, m>>] # "absent" <=> m <= n

LastStatus(r) == IF LastAttempt(r) = 0 THEN "none" ELSE status[<<r, LastAttempt(r)>>]

Chain == INSTANCE ReportRun
           WITH attempt <- [r \in Runs |-> LastAttempt(r)],
                phase <- [r \in Runs |-> LastStatus(r)]

\* Every transaction moves every run along the chain ReportRun promises.
ImplementsReportRun == Chain!RunSpec

\* The rows a committing sweep gives up as never claimed.
GivenUp(s) ==
  IF session[s].op \in {"sweep", "claim"} /\ session'[s] = Idle
  THEN {k \in session[s].stale : status[k] # "timed_out" /\ status'[k] = "timed_out"}
  ELSE {}

\* A retry is given up on as unclaimed only once a worker could have claimed it
\* (config.py: three attempts mean "the original plus two retries").
RetryWasClaimable ==
  [][\A s \in Sessions \cup {Timer} : \A k \in GivenUp(s) : wait[k] = 0]_vars
=============================================================================

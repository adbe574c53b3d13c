----------------------- MODULE ReportExecutionsProofs -----------------------
(***************************************************************************)
(* What ReportExecutions satisfies for every set of runs, workers and      *)
(* sessions and every setting of the lease, timeout, backoff and attempts: *)
(* first however transactions overlap, then one transaction at a time,     *)
(* when the table implements ReportRun.                                    *)
(***************************************************************************)
EXTENDS MCReportExecutions, TLAPS

AllSessions == Sessions \cup {Timer}

-----------------------------------------------------------------------------
(***************************************************************************)
(* Helpers.                                                                *)
(***************************************************************************)

\* An attempt below the cap has a successor in the table.
LEMMA NextAttemptIsKey ==
  ASSUME NEW k \in Keys, k[2] < MaxAttempts
  PROVE  next_attempt(k) \in Keys
BY BoundsAssumption DEF Keys, Attempts, next_attempt

\* The backoff of any attempt is at least one tick and at most the cap.
LEMMA BackoffBounded ==
  ASSUME NEW n
  PROVE  backoff(n) \in 1 .. BackoffMaxTicks
BY BoundsAssumption DEF backoff

\* The fields an open transaction carries, by kind of transaction.
LEMMA TransactionShape ==
  ASSUME NEW txn \in Transactions
  PROVE  /\ txn.op \in OneRowOps => txn.key \in Keys /\ txn.wasQueued \in BOOLEAN
         /\ txn.op = "fail" => txn.key \in Keys /\ txn.why \in WorkerCauses
         /\ txn.op \in {"sweep", "claim"} =>
              txn.expired \in SUBSET Keys /\ txn.stale \in SUBSET Keys
         /\ txn.op = "claim" => txn.by \in Workers
         /\ txn.op \in OneRowOps \cup {"idle", "fail", "sweep", "claim"}
BY DEF Transactions, OneRowOps, Idle

\* Failing a set of rows keeps the table well typed.
LEMMA AfterFailTyped ==
  ASSUME TypeOK, NEW K \in SUBSET Keys, NEW why, NEW verdict \in {"failed", "timed_out"}
  PROVE  /\ StatusAfterFail(K, why, verdict) \in [Keys -> Statuses]
         /\ WaitAfterFail(K, why) \in [Keys -> 0 .. BackoffMaxTicks]
<1>1. \A k : FailedStatus(k, why, verdict) \in Statuses
  BY DEF FailedStatus, Statuses, Settled
<1>2. StatusAfterFail(K, why, verdict) \in [Keys -> Statuses]
  BY <1>1 DEF StatusAfterFail, TypeOK, Statuses, Active
<1>3. \A n : backoff(n) \in 0 .. BackoffMaxTicks
  BY BackoffBounded, BoundsAssumption
<1>4. WaitAfterFail(K, why) \in [Keys -> 0 .. BackoffMaxTicks]
  BY <1>3 DEF WaitAfterFail, TypeOK
<1> QED BY <1>2, <1>4

\* What the sweep writes is well typed.
LEMMA AfterSweepTyped ==
  ASSUME TypeOK, NEW expired \in SUBSET Keys, NEW stale \in SUBSET Keys
  PROVE  /\ StatusAfterSweep(expired, stale) \in [Keys -> Statuses]
         /\ LeaseAfterSweep(expired) \in [Keys -> (-1 .. LeaseTicks) \cup {NoLease}]
<1>1. StatusAfterFail(expired, "lease_expired", "timed_out") \in [Keys -> Statuses]
  BY AfterFailTyped
<1> QED BY <1>1 DEF StatusAfterSweep, LeaseAfterSweep, TypeOK, Statuses, Settled

-----------------------------------------------------------------------------
(***************************************************************************)
(* Type correctness.                                                       *)
(***************************************************************************)

\* The empty table is well typed.
LEMMA InitTyped == Init => TypeOK
<1> SUFFICES ASSUME Init PROVE TypeOK
  OBVIOUS
<1>1. Idle \in Transactions
  BY DEF Transactions
<1> QED BY <1>1, BoundsAssumption DEF Init, TypeOK, Statuses

\* Opening a transaction keeps the types.
LEMMA OpenTyped ==
  ASSUME TypeOK, NEW s \in AllSessions, NEW txn \in Transactions, Open(s, txn)
  PROVE  TypeOK'
BY DEF Open, TypeOK, rows, AllSessions

\* So does ending one.
LEMMA CloseTyped ==
  ASSUME TypeOK, NEW s \in AllSessions, Close(s)
  PROVE  session' \in [AllSessions -> Transactions]
BY DEF Close, TypeOK, AllSessions, Transactions

\* Every step keeps the types.
LEMMA NextTyped == TypeOK /\ [Next]_vars => TypeOK'
<1> SUFFICES ASSUME TypeOK, [Next]_vars PROVE TypeOK'
  OBVIOUS
<1> USE DEF AllSessions
<1>1. CASE UNCHANGED vars
  BY <1>1 DEF vars, TypeOK
<1>2. CASE Tick
  BY <1>2, BoundsAssumption, NamesAssumption DEF Tick, TypeOK
<1>3. ASSUME NEW r \in Runs, RunNow(r) PROVE TypeOK'
  BY <1>3, BoundsAssumption DEF RunNow, TypeOK, Keys, Attempts, Statuses, Active
<1>4. CASE BeginSweep
  <2>1. [op |-> "sweep", expired |-> find_expired_leases, stale |-> find_stale_queued]
          \in Transactions
    BY DEF Transactions, find_expired_leases, find_stale_queued
  <2> QED BY <1>4, <2>1, OpenTyped DEF BeginSweep
<1>5. ASSUME NEW s \in Sessions, WorkerCall(s) PROVE TypeOK'
  <2>1. PICK w \in Workers :
          \/ BeginClaim(s, w)
          \/ \E k \in Keys : \/ BeginStart(s, w, k) \/ BeginProgress(s, w, k)
                             \/ BeginComplete(s, w, k)
                             \/ \E why \in WorkerCauses : BeginFail(s, w, k, why)
    BY <1>5 DEF WorkerCall
  <2>2. CASE BeginClaim(s, w)
    <3>1. [op |-> "claim", by |-> w, expired |-> find_expired_leases,
            stale |-> find_stale_queued] \in Transactions
      BY DEF Transactions, find_expired_leases, find_stale_queued
    <3> QED BY <2>2, <3>1, OpenTyped DEF BeginClaim
  <2>3. ASSUME NEW k \in Keys,
               \/ BeginStart(s, w, k) \/ BeginProgress(s, w, k) \/ BeginComplete(s, w, k)
        PROVE  TypeOK'
    <3>1. \A op \in OneRowOps : OneRow(op, k) \in Transactions
      BY DEF OneRow, Transactions
    <3> QED BY <2>3, <3>1, OpenTyped
          DEF BeginStart, BeginProgress, BeginComplete, OneRowOps
  <2>4. ASSUME NEW k \in Keys, NEW why \in WorkerCauses, BeginFail(s, w, k, why)
        PROVE  TypeOK'
    <3>1. [op |-> "fail", key |-> k, why |-> why] \in Transactions
      BY DEF Transactions
    <3> QED BY <2>4, <3>1, OpenTyped DEF BeginFail
  <2> QED BY <2>1, <2>2, <2>3, <2>4
<1>6. ASSUME NEW s \in Sessions, NEW k \in Keys, BeginCancel(s, k) PROVE TypeOK'
  <2>1. OneRow("cancel", k) \in Transactions
    BY DEF OneRow, Transactions, OneRowOps
  <2> QED BY <1>6, <2>1, OpenTyped DEF BeginCancel
<1>7. ASSUME NEW s \in Sessions, Commit(s) PROVE TypeOK'
  <2> DEFINE txn == session[s]
  <2>1. txn \in Transactions
    BY DEF TypeOK
  <2>2. CASE CommitStart(s)
    <3>1. txn.key \in Keys
      BY <2>1, <2>2, TransactionShape DEF CommitStart, OneRowOps
    <3> QED BY <2>2, <3>1, CloseTyped, BoundsAssumption
          DEF CommitStart, TypeOK, Statuses, Active
  <2>3. CASE CommitProgress(s)
    BY <2>1, <2>3, TransactionShape, CloseTyped, BoundsAssumption
      DEF CommitProgress, TypeOK, OneRowOps
  <2>4. CASE CommitComplete(s) \/ CommitCancel(s)
    <3>1. txn.key \in Keys
      BY <2>1, <2>4, TransactionShape DEF CommitComplete, CommitCancel, OneRowOps
    <3>2. Released(txn.key, txn.wasQueued) \in (-1 .. LeaseTicks) \cup {NoLease}
      BY <3>1 DEF Released, TypeOK
    <3> QED BY <2>4, <3>1, <3>2, CloseTyped
          DEF CommitComplete, CommitCancel, TypeOK, Statuses, Settled
  <2>5. CASE CommitFail(s)
    <3>1. txn.key \in Keys
      BY <2>1, <2>5, TransactionShape DEF CommitFail
    <3>2. /\ status' = StatusAfterFail({txn.key}, txn.why, "failed")
          /\ wait' = WaitAfterFail({txn.key}, txn.why)
          /\ lease' = [lease EXCEPT ![txn.key] = NoLease]
          /\ Close(s)
          /\ UNCHANGED <<holder, age>>
      BY <2>5 DEF CommitFail
    <3>3. /\ status' \in [Keys -> Statuses]
          /\ wait' \in [Keys -> 0 .. BackoffMaxTicks]
      BY <3>1, <3>2, AfterFailTyped
    <3> QED BY <3>1, <3>2, <3>3, CloseTyped DEF TypeOK
  <2>6. CASE CommitClaim(s)
    <3> DEFINE swept == StatusAfterSweep(txn.expired, txn.stale)
               leases == LeaseAfterSweep(txn.expired)
               waits == WaitAfterFail(txn.expired, "lease_expired")
    <3>1. txn.expired \in SUBSET Keys /\ txn.stale \in SUBSET Keys /\ txn.by \in Workers
      BY <2>1, <2>6, TransactionShape DEF CommitClaim
    <3>2. /\ swept \in [Keys -> Statuses]
          /\ leases \in [Keys -> (-1 .. LeaseTicks) \cup {NoLease}]
          /\ waits \in [Keys -> 0 .. BackoffMaxTicks]
      BY <3>1, AfterSweepTyped, AfterFailTyped
    <3> HIDE DEF swept, leases, waits
    <3>3. /\ wait' = waits
          /\ Close(s)
          /\ \/ status' = swept /\ lease' = leases /\ UNCHANGED <<holder, age>>
             \/ \E k \in Keys :
                  /\ status' = [swept EXCEPT ![k] = "assigned"]
                  /\ holder' = [holder EXCEPT ![k] = txn.by]
                  /\ lease' = [leases EXCEPT ![k] = LeaseTicks]
                  /\ age' = [age EXCEPT ![k] = 0]
      BY <2>6 DEF CommitClaim, swept, leases, waits
    <3> QED BY <3>1, <3>2, <3>3, CloseTyped, BoundsAssumption
          DEF TypeOK, Statuses, Active
  <2>7. CASE RaiseOverdue(s)
    BY <2>7, CloseTyped DEF RaiseOverdue, rows, TypeOK
  <2> QED BY <1>7, <2>2, <2>3, <2>4, <2>5, <2>6, <2>7 DEF Commit
<1>8. CASE CommitSweep
  <2> DEFINE txn == session[Timer]
  <2>1. txn \in Transactions /\ txn.op = "sweep"
    BY <1>8 DEF TypeOK, CommitSweep
  <2>2. txn.expired \in SUBSET Keys /\ txn.stale \in SUBSET Keys
    BY <2>1, TransactionShape
  <2>3. /\ status' = StatusAfterSweep(txn.expired, txn.stale)
        /\ wait' = WaitAfterFail(txn.expired, "lease_expired")
        /\ lease' = LeaseAfterSweep(txn.expired)
        /\ Close(Timer)
        /\ UNCHANGED <<holder, age>>
    BY <1>8 DEF CommitSweep
  <2>4. /\ status' \in [Keys -> Statuses]
        /\ wait' \in [Keys -> 0 .. BackoffMaxTicks]
        /\ lease' \in [Keys -> (-1 .. LeaseTicks) \cup {NoLease}]
    BY <2>2, <2>3, AfterSweepTyped, AfterFailTyped
  <2> QED BY <2>3, <2>4, CloseTyped DEF TypeOK
<1>9. ASSUME NEW s \in AllSessions, Rollback(s) PROVE TypeOK'
  BY <1>9, CloseTyped DEF Rollback, rows, TypeOK
<1> QED BY <1>1, <1>2, <1>3, <1>4, <1>5, <1>6, <1>7, <1>8, <1>9 DEF Next

\* Every reachable table and every open transaction is well typed: timers stay
\* within the lease, the timeout and the capped backoff.
THEOREM TypeCorrect == Spec => []TypeOK
BY InitTyped, NextTyped, PTL DEF Spec

-----------------------------------------------------------------------------
(***************************************************************************)
(* What survives overlapping transactions.  The argument: a row is handed  *)
(* out once, and no write makes it unclaimed again, so the little each     *)
(* transaction still knows of the rows it read stays true until it writes. *)
(***************************************************************************)

Persistent(k) ==
  /\ HandedOut(k) => HandedOut(k)'
  /\ status[k] # "absent" => status'[k] # "absent"

\* A transaction that opens: the table is unchanged and its snapshot is true.
LEMMA OpenKeepsRaceInv ==
  ASSUME TypeOK, RaceInv, NEW s \in AllSessions, NEW txn \in Transactions,
         Open(s, txn), SnapshotHolds(txn)
  PROVE  RaceInv'
<1>1. UNCHANGED rows /\ session' = [session EXCEPT ![s] = txn]
  BY DEF Open
<1>2. \A t \in AllSessions : SnapshotHolds(session'[t])
  BY <1>1 DEF RaceInv, TypeOK, AllSessions
<1>3. \A t \in AllSessions : SnapshotHolds(session[t])'
  BY <1>1, <1>2 DEF SnapshotHolds, HandedOut, rows
<1> QED BY <1>1, <1>3
      DEF RaceInv, LeasedIsReapable, RetryFollowsAHandout, rows, AllSessions

\* A transaction that closes, once the table's part is known.
LEMMA CloseKeepsSnapshots ==
  ASSUME TypeOK, RaceInv, NEW s \in AllSessions, Close(s), \A k \in Keys : Persistent(k)
  PROVE  \A t \in AllSessions : SnapshotHolds(session[t])'
<1> SUFFICES ASSUME NEW t \in AllSessions PROVE SnapshotHolds(session[t])'
  OBVIOUS
<1>1. CASE t = s
  BY <1>1 DEF Close, TypeOK, SnapshotHolds, Idle, AllSessions
<1>2. CASE t # s
  <2>1. session'[t] = session[t] /\ session[t] \in Transactions
    BY <1>2 DEF Close, TypeOK, AllSessions
  <2> DEFINE txn == session[t]
  <2>2. SnapshotHolds(txn)
    BY DEF RaceInv, AllSessions
  <2>3. txn.op \in {"start", "progress", "overdue", "complete", "fail"} => HandedOut(txn.key)'
    BY <2>1, <2>2, TransactionShape DEF SnapshotHolds, OneRowOps, Persistent
  <2>4. txn.op = "cancel" =>
          status'[txn.key] # "absent" /\ (txn.wasQueued \/ HandedOut(txn.key)')
    BY <2>1, <2>2, TransactionShape DEF SnapshotHolds, OneRowOps, Persistent
  <2>5. txn.op \in {"sweep", "claim"} =>
          /\ \A k \in txn.expired : HandedOut(k)'
          /\ \A k \in txn.stale : status'[k] # "absent"
    BY <2>1, <2>2, TransactionShape DEF SnapshotHolds, Persistent
  <2> QED BY <2>1, <2>3, <2>4, <2>5 DEF SnapshotHolds, HandedOut
<1> QED BY <1>1, <1>2

(***************************************************************************)
(* The ways one transaction can change one row.                            *)
(***************************************************************************)
parent(k) == <<k[1], k[2] - 1>>

Untouched(k) ==
  /\ status'[k] = status[k] /\ holder'[k] = holder[k]
  /\ status[k] \in Leased => lease'[k] # NoLease

Inserted(k) ==
  /\ status[k] = "absent" /\ status'[k] = "queued" /\ holder'[k] = holder[k]
  /\ k[2] > 1 => holder'[parent(k)] \in Workers /\ status'[parent(k)] \in Settled

Claimed(k) ==
  /\ status[k] = "queued" /\ status'[k] = "assigned"
  /\ holder'[k] \in Workers /\ lease'[k] # NoLease

Started(k) ==
  /\ HandedOut(k) /\ status'[k] = "running"
  /\ holder'[k] = holder[k] /\ lease'[k] # NoLease

Ended(k) == status[k] # "absent" /\ status'[k] \in Settled /\ holder'[k] = holder[k]

RowStep(k) == Untouched(k) \/ Inserted(k) \/ Claimed(k) \/ Started(k) \/ Ended(k)

\* Any transaction that changes each row in one of these ways keeps the table's
\* part of the invariant and takes nothing from a row.
LEMMA RowStepsKeepTable ==
  ASSUME TypeOK, RaceInv, \A k \in Keys : RowStep(k)
  PROVE  /\ LeasedIsReapable'
         /\ RetryFollowsAHandout'
         /\ \A k \in Keys : status'[k] \in {"absent", "queued"} => holder'[k] = NoWorker
         /\ \A k \in Keys : Persistent(k)
         /\ \A k \in Keys : /\ holder[k] # NoWorker => holder'[k] = holder[k]
                            /\ status[k] \in Leased \cup Settled => status'[k] # "queued"
<1> USE DEF RowStep, Untouched, Inserted, Claimed, Started, Ended
<1>1. LeasedIsReapable'
  BY DEF LeasedIsReapable, RaceInv, HandedOut, Leased, Settled
<1>2. \A k \in Keys : status'[k] \in {"absent", "queued"} => holder'[k] = NoWorker
  BY DEF RaceInv, Settled
<1>3. \A k \in Keys : Persistent(k)
  BY DEF RaceInv, Persistent, HandedOut, Settled
<1>4. RetryFollowsAHandout'
  <2> SUFFICES ASSUME NEW k \in Keys, k[2] > 1, status'[k] # "absent"
               PROVE  /\ holder'[parent(k)] \in Workers
                      /\ status'[parent(k)] \notin {"queued", "assigned"}
    BY DEF RetryFollowsAHandout, parent
  <2>1. parent(k) \in Keys
    BY BoundsAssumption DEF parent, Keys, Attempts
  <2>2. CASE status[k] = "absent"
    BY <2>2 DEF HandedOut, Settled
  <2>3. CASE status[k] # "absent"
    <3>1. holder[parent(k)] \in Workers /\ status[parent(k)] \notin {"queued", "assigned"}
      BY <2>3 DEF RaceInv, RetryFollowsAHandout, parent
    <3>2. status[parent(k)] # "absent"
      BY <2>1, <3>1, NamesAssumption DEF RaceInv
    <3> QED BY <2>1, <3>1, <3>2 DEF Settled
  <2> QED BY <2>2, <2>3
<1>5. \A k \in Keys : /\ holder[k] # NoWorker => holder'[k] = holder[k]
                      /\ status[k] \in Leased \cup Settled => status'[k] # "queued"
  BY DEF RaceInv, Leased, Settled
<1> QED BY <1>1, <1>2, <1>3, <1>4, <1>5

\* What fail() and create_retry() do to the rows of a set, and to their successors.
LEMMA AfterFailRows ==
  ASSUME TypeOK, NEW K \in SUBSET Keys, NEW why, NEW verdict, NEW k \in Keys
  PROVE  LET after == StatusAfterFail(K, why, verdict)[k]
         IN  /\ k \in K => after \in {"retrying", verdict}
             /\ k \notin K => \/ after = status[k]
                              \/ /\ status[k] = "absent" /\ after = "queued"
                                 /\ k[2] > 1 /\ parent(k) \in K
                                 /\ WaitAfterFail(K, why)[k] # 0
<1> DEFINE after == StatusAfterFail(K, why, verdict)[k]
<1>1. k \in K => after \in {"retrying", verdict}
  BY DEF StatusAfterFail, FailedStatus
<1>2. ASSUME k \notin K, k \in SpawnedBy(K, why)
      PROVE  /\ status[k] = "absent" /\ after = "queued"
             /\ k[2] > 1 /\ parent(k) \in K
             /\ WaitAfterFail(K, why)[k] # 0
  <2>1. PICK j \in K : Spawns(j, why) /\ k = next_attempt(j)
    BY <1>2 DEF SpawnedBy
  <2>2. j \in Keys /\ j = <<j[1], j[2]>> /\ j[2] \in Nat \ {0}
    BY BoundsAssumption DEF Keys, Attempts
  <2>3. k[1] = j[1] /\ k[2] = j[2] + 1
    BY <2>1, <2>2 DEF next_attempt
  <2>4. parent(k) = j /\ k[2] > 1
    BY <2>2, <2>3 DEF parent
  <2>5. status[k] = "absent" /\ after = "queued"
    BY <1>2, <2>1 DEF Spawns, StatusAfterFail
  <2>6. WaitAfterFail(K, why)[k] # 0
    BY <1>2, BackoffBounded, BoundsAssumption DEF WaitAfterFail
  <2> QED BY <2>4, <2>5, <2>6
<1>3. k \notin K /\ k \notin SpawnedBy(K, why) => after = status[k]
  BY DEF StatusAfterFail
<1> QED BY <1>1, <1>2, <1>3

\* What a sweep does to one row: rows it read as lapsed or stale end, their
\* successors are inserted behind a backoff, the rest keep status and lease.
LEMMA AfterSweepRows ==
  ASSUME TypeOK, NEW expired \in SUBSET Keys, NEW stale \in SUBSET Keys, NEW k \in Keys
  PROVE  LET after == StatusAfterSweep(expired, stale)[k]
         IN  /\ k \in expired \cup stale => after \in Settled
             /\ k \notin expired \cup stale =>
                  /\ LeaseAfterSweep(expired)[k] = lease[k]
                  /\ \/ after = status[k]
                     \/ /\ status[k] = "absent" /\ after = "queued"
                        /\ k[2] > 1 /\ parent(k) \in expired
                        /\ WaitAfterFail(expired, "lease_expired")[k] # 0
<1>1. LET after == StatusAfterFail(expired, "lease_expired", "timed_out")[k]
      IN  /\ k \in expired => after \in {"retrying", "timed_out"}
          /\ k \notin expired => \/ after = status[k]
                                 \/ /\ status[k] = "absent" /\ after = "queued"
                                    /\ k[2] > 1 /\ parent(k) \in expired
                                    /\ WaitAfterFail(expired, "lease_expired")[k] # 0
  BY AfterFailRows
<1> QED BY <1>1 DEF StatusAfterSweep, LeaseAfterSweep, Settled

\* The invariant holds of the empty table.
LEMMA InitRaceInv == Init => RaceInv
BY DEF Init, RaceInv, LeasedIsReapable, RetryFollowsAHandout, Leased, SnapshotHolds, Idle

(***************************************************************************)
(* The step facts that both RaceInv and HandedOutOnce rest on.             *)
(***************************************************************************)
Keeps ==
  /\ RaceInv'
  /\ \A k \in Keys : /\ holder[k] # NoWorker => holder'[k] = holder[k]
                     /\ status[k] \in Leased \cup Settled => status'[k] # "queued"

\* Ending a transaction with an allowed step of every row keeps the invariant.
LEMMA RowStepsKeep ==
  ASSUME TypeOK, RaceInv, NEW s \in AllSessions, Close(s), \A k \in Keys : RowStep(k)
  PROVE  Keeps
<1>1. \A t \in AllSessions : SnapshotHolds(session[t])'
  BY RowStepsKeepTable, CloseKeepsSnapshots
<1> QED BY <1>1, RowStepsKeepTable DEF Keeps, RaceInv, AllSessions

\* Opening a transaction on a true reading of the table keeps the invariant.
LEMMA OpenKeeps ==
  ASSUME TypeOK, RaceInv, NEW s \in AllSessions, NEW txn \in Transactions,
         Open(s, txn), SnapshotHolds(txn)
  PROVE  Keeps
<1>1. RaceInv'
  BY OpenKeepsRaceInv
<1>2. UNCHANGED <<status, holder>>
  BY DEF Open, rows
<1> QED BY <1>1, <1>2 DEF Keeps, Leased, Settled

\* A row in a leased status, as the worker handlers read it.
LEMMA LeasedIsHandedOut ==
  ASSUME RaceInv, NEW k \in Keys, status[k] \in Leased
  PROVE  HandedOut(k)
BY DEF RaceInv, LeasedIsReapable, HandedOut, Leased

\* Every step keeps the invariant and its action properties.
LEMMA NextKeeps == TypeOK /\ RaceInv /\ [Next]_vars => Keeps
<1> SUFFICES ASSUME TypeOK, RaceInv, [Next]_vars PROVE Keeps
  OBVIOUS
<1> USE DEF AllSessions
<1>1. CASE UNCHANGED vars
  BY <1>1 DEF vars, Keeps, RaceInv, LeasedIsReapable, RetryFollowsAHandout, SnapshotHolds,
              HandedOut, Leased, Settled
<1>2. CASE Tick
  <2>1. /\ UNCHANGED <<status, holder, session>>
        /\ \A k \in Keys : lease[k] # NoLease => lease'[k] # NoLease
    BY <1>2, NamesAssumption DEF Tick, TypeOK
  <2> QED BY <2>1 DEF Keeps, RaceInv, LeasedIsReapable, RetryFollowsAHandout, SnapshotHolds,
                      HandedOut, Leased, Settled
<1>3. ASSUME NEW r \in Runs, RunNow(r) PROVE Keeps
  <2>1. <<r, 1>> \in Keys
    BY BoundsAssumption DEF Keys, Attempts
  <2>2. /\ status[<<r, 1>>] = "absent"
        /\ status' = [status EXCEPT ![<<r, 1>>] = "queued"]
        /\ UNCHANGED <<holder, lease, session>>
    BY <1>3 DEF RunNow
  <2>3. \A k \in Keys : RowStep(k)
    BY <2>1, <2>2 DEF RowStep, Untouched, Inserted, TypeOK, RaceInv, LeasedIsReapable
  <2>4. \A t \in AllSessions : SnapshotHolds(session[t])'
    <3> SUFFICES ASSUME NEW t \in AllSessions PROVE SnapshotHolds(session[t])'
      OBVIOUS
    <3>1. session[t] \in Transactions /\ SnapshotHolds(session[t])
      BY DEF TypeOK, RaceInv
    <3>2. \A k \in Keys : Persistent(k)
      BY <2>3, RowStepsKeepTable
    <3> QED BY <2>2, <3>1, <3>2, TransactionShape
          DEF SnapshotHolds, OneRowOps, Persistent, HandedOut
  <2> QED BY <2>3, <2>4, RowStepsKeepTable DEF Keeps, RaceInv
<1>4. CASE BeginSweep
  <2> DEFINE txn == [op |-> "sweep", expired |-> find_expired_leases,
                     stale |-> find_stale_queued]
  <2>1. txn \in Transactions
    BY DEF Transactions, find_expired_leases, find_stale_queued
  <2>2. SnapshotHolds(txn)
    BY LeasedIsHandedOut DEF SnapshotHolds, find_expired_leases, find_stale_queued
  <2> QED BY <1>4, <2>1, <2>2, OpenKeeps DEF BeginSweep
<1>5. ASSUME NEW s \in Sessions, WorkerCall(s) PROVE Keeps
  <2>1. PICK w \in Workers :
          \/ BeginClaim(s, w)
          \/ \E k \in Keys : \/ BeginStart(s, w, k) \/ BeginProgress(s, w, k)
                             \/ BeginComplete(s, w, k)
                             \/ \E why \in WorkerCauses : BeginFail(s, w, k, why)
    BY <1>5 DEF WorkerCall
  <2>2. CASE BeginClaim(s, w)
    <3> DEFINE txn == [op |-> "claim", by |-> w, expired |-> find_expired_leases,
                       stale |-> find_stale_queued]
    <3>1. txn \in Transactions
      BY DEF Transactions, find_expired_leases, find_stale_queued
    <3>2. SnapshotHolds(txn)
      BY LeasedIsHandedOut DEF SnapshotHolds, find_expired_leases, find_stale_queued
    <3> QED BY <2>2, <3>1, <3>2, OpenKeeps DEF BeginClaim
  <2>3. ASSUME NEW k \in Keys, NEW op \in {"start", "progress", "overdue", "complete"},
               HandedOut(k), Open(s, OneRow(op, k))
        PROVE  Keeps
    <3>1. OneRow(op, k) \in Transactions
      BY DEF OneRow, Transactions, OneRowOps
    <3>2. SnapshotHolds(OneRow(op, k))
      BY <2>3 DEF SnapshotHolds, OneRow
    <3> QED BY <2>3, <3>1, <3>2, OpenKeeps
  <2>4. ASSUME NEW k \in Keys,
               \/ BeginStart(s, w, k) \/ BeginProgress(s, w, k) \/ BeginComplete(s, w, k)
        PROVE  Keeps
    <3>1. HandedOut(k)
      <4>1. status[k] \in Leased
        BY <2>4 DEF BeginStart, BeginProgress, BeginComplete, can_transition, Allowed, Leased, TypeOK,
                    Statuses, Active, Settled
      <4> QED BY <4>1, LeasedIsHandedOut
    <3> QED BY <2>3, <2>4, <3>1 DEF BeginStart, BeginProgress, BeginComplete
  <2>5. ASSUME NEW k \in Keys, NEW why \in WorkerCauses, BeginFail(s, w, k, why)
        PROVE  Keeps
    <3> DEFINE txn == [op |-> "fail", key |-> k, why |-> why]
    <3>1. txn \in Transactions
      BY DEF Transactions
    <3>2. status[k] \in Leased
      BY <2>5 DEF BeginFail, can_transition, Allowed, Leased, TypeOK, Statuses, Active, Settled
    <3>3. SnapshotHolds(txn)
      BY <3>2, LeasedIsHandedOut DEF SnapshotHolds
    <3> QED BY <2>5, <3>1, <3>3, OpenKeeps DEF BeginFail
  <2> QED BY <2>1, <2>2, <2>4, <2>5
<1>6. ASSUME NEW s \in Sessions, NEW k \in Keys, BeginCancel(s, k) PROVE Keeps
  <2>1. OneRow("cancel", k) \in Transactions
    BY DEF OneRow, Transactions, OneRowOps
  <2>2. status[k] \in Active
    BY <1>6 DEF BeginCancel, can_transition, Allowed, TypeOK, Statuses, Active, Settled
  <2>3. status[k] = "queued" \/ HandedOut(k)
    BY <2>2, LeasedIsHandedOut DEF Active, Leased
  <2>4. SnapshotHolds(OneRow("cancel", k))
    BY <2>2, <2>3 DEF SnapshotHolds, OneRow, Active
  <2> QED BY <1>6, <2>1, <2>4, OpenKeeps DEF BeginCancel
<1>7. ASSUME NEW s \in Sessions, Commit(s) PROVE Keeps
  <2> DEFINE txn == session[s]
  <2>1. txn \in Transactions /\ SnapshotHolds(txn)
    BY DEF TypeOK, RaceInv
  <2>2. CASE CommitStart(s)
    <3>1. txn.key \in Keys /\ HandedOut(txn.key)
      BY <2>1, <2>2, TransactionShape DEF CommitStart, OneRowOps, SnapshotHolds
    <3>2. \A k \in Keys : IF k = txn.key THEN Started(k) ELSE Untouched(k)
      BY <2>2, <3>1, BoundsAssumption, NamesAssumption
        DEF CommitStart, Started, Untouched, TypeOK, RaceInv, LeasedIsReapable
    <3> QED BY <2>2, <3>2, RowStepsKeep DEF RowStep, CommitStart
  <2>3. CASE CommitProgress(s)
    <3>1. \A k \in Keys : Untouched(k)
      BY <2>3, BoundsAssumption, NamesAssumption
        DEF CommitProgress, Untouched, TypeOK, RaceInv, LeasedIsReapable
    <3> QED BY <2>3, <3>1, RowStepsKeep DEF RowStep, CommitProgress
  <2>4. CASE CommitComplete(s) \/ CommitCancel(s)
    <3>1. txn.key \in Keys /\ status[txn.key] # "absent"
      BY <2>1, <2>4, TransactionShape
        DEF CommitComplete, CommitCancel, OneRowOps, SnapshotHolds, HandedOut
    <3>2. \A k \in Keys : IF k = txn.key THEN Ended(k) ELSE Untouched(k)
      BY <2>4, <3>1
        DEF CommitComplete, CommitCancel, Ended, Untouched, TypeOK, RaceInv,
            LeasedIsReapable, Settled
    <3> QED BY <2>4, <3>2, RowStepsKeep DEF RowStep, CommitComplete, CommitCancel
  <2>5. CASE CommitFail(s)
    <3>1. txn.key \in Keys /\ HandedOut(txn.key)
      BY <2>1, <2>5, TransactionShape DEF CommitFail, SnapshotHolds
    <3>2. /\ status' = StatusAfterFail({txn.key}, txn.why, "failed")
          /\ lease' = [lease EXCEPT ![txn.key] = NoLease]
          /\ UNCHANGED holder
          /\ Close(s)
      BY <2>5 DEF CommitFail
    <3>3. Ended(txn.key)
      <4>1. StatusAfterFail({txn.key}, txn.why, "failed")[txn.key] \in {"retrying", "failed"}
        BY <3>1 DEF StatusAfterFail, FailedStatus
      <4> QED BY <3>1, <3>2, <4>1 DEF Ended, HandedOut, Settled
    <3>4. ASSUME NEW k \in Keys, k # txn.key PROVE Untouched(k) \/ Inserted(k)
      <4>1. \/ status'[k] = status[k]
            \/ /\ status[k] = "absent" /\ status'[k] = "queued"
               /\ k[2] > 1 /\ parent(k) = txn.key
        BY <3>1, <3>2, <3>4, AfterFailRows
      <4> QED BY <3>1, <3>2, <3>3, <3>4, <4>1
            DEF Untouched, Inserted, Ended, HandedOut, TypeOK, RaceInv, LeasedIsReapable
    <3> QED BY <3>2, <3>3, <3>4, RowStepsKeep DEF RowStep
  <2>6. CASE CommitClaim(s)
    <3> DEFINE swept == StatusAfterSweep(txn.expired, txn.stale)
               leases == LeaseAfterSweep(txn.expired)
               waits == WaitAfterFail(txn.expired, "lease_expired")
    <3>1. /\ txn.expired \in SUBSET Keys /\ txn.stale \in SUBSET Keys /\ txn.by \in Workers
          /\ \A k \in txn.expired : HandedOut(k)
          /\ \A k \in txn.stale : status[k] # "absent"
      BY <2>1, <2>6, TransactionShape DEF CommitClaim, SnapshotHolds
    <3>2. /\ swept \in [Keys -> Statuses]
          /\ leases \in [Keys -> (-1 .. LeaseTicks) \cup {NoLease}]
      BY <3>1, AfterSweepTyped
    <3>3. \A k \in Keys :
            /\ k \in txn.expired \cup txn.stale => swept[k] \in Settled
            /\ k \notin txn.expired \cup txn.stale =>
                 /\ leases[k] = lease[k]
                 /\ \/ swept[k] = status[k]
                    \/ /\ status[k] = "absent" /\ swept[k] = "queued"
                       /\ k[2] > 1 /\ parent(k) \in txn.expired
                       /\ waits[k] # 0
      BY <3>1, AfterSweepRows
    <3>4. Close(s)
      BY <2>6 DEF CommitClaim
    <3>5. \/ status' = swept /\ lease' = leases /\ holder' = holder
          \/ \E k \in Keys :
               /\ swept[k] = "queued" /\ waits[k] = 0
               /\ status' = [swept EXCEPT ![k] = "assigned"]
               /\ holder' = [holder EXCEPT ![k] = txn.by]
               /\ lease' = [leases EXCEPT ![k] = LeaseTicks]
      BY <2>6 DEF CommitClaim
    <3> HIDE DEF swept, leases, waits
    <3>6. CASE status' = swept /\ lease' = leases /\ holder' = holder
      <4>1. \A k \in Keys : RowStep(k)
        BY <3>1, <3>3, <3>6
          DEF RowStep, Untouched, Inserted, Ended, HandedOut, RaceInv, LeasedIsReapable
      <4> QED BY <3>4, <4>1, RowStepsKeep
    <3>7. ASSUME NEW j \in Keys, swept[j] = "queued", waits[j] = 0,
                 status' = [swept EXCEPT ![j] = "assigned"],
                 holder' = [holder EXCEPT ![j] = txn.by],
                 lease' = [leases EXCEPT ![j] = LeaseTicks]
          PROVE  Keeps
      <4>1. status[j] = "queued"
        BY <3>3, <3>7 DEF Settled
      <4>2. Claimed(j)
        BY <3>1, <3>2, <3>7, <4>1, BoundsAssumption, NamesAssumption DEF Claimed, TypeOK
      <4>3. ASSUME NEW k \in Keys, k # j PROVE RowStep(k)
        <5>1. status'[k] = swept[k] /\ holder'[k] = holder[k] /\ lease'[k] = leases[k]
          BY <3>2, <3>7, <4>3 DEF TypeOK
        <5>2. CASE k \in txn.expired \cup txn.stale
          BY <3>1, <3>3, <5>1, <5>2 DEF RowStep, Ended, HandedOut
        <5>3. CASE k \notin txn.expired \cup txn.stale /\ swept[k] = status[k]
          BY <3>3, <5>1, <5>3 DEF RowStep, Untouched, RaceInv, LeasedIsReapable
        <5>4. CASE k \notin txn.expired \cup txn.stale /\ swept[k] # status[k]
          <6>1. /\ status[k] = "absent" /\ swept[k] = "queued"
                /\ parent(k) \in txn.expired
            BY <3>3, <5>4
          <6>2. /\ parent(k) \in Keys /\ parent(k) # j
                /\ holder[parent(k)] \in Workers
                /\ swept[parent(k)] \in Settled
            BY <3>1, <3>3, <3>7, <6>1 DEF HandedOut, Settled
          <6>3. status'[parent(k)] \in Settled /\ holder'[parent(k)] \in Workers
            BY <3>2, <3>7, <6>2 DEF TypeOK
          <6> QED BY <5>1, <6>1, <6>3 DEF RowStep, Inserted
        <5> QED BY <5>2, <5>3, <5>4
      <4>4. \A k \in Keys : RowStep(k)
        BY <4>2, <4>3 DEF RowStep
      <4> QED BY <3>4, <4>4, RowStepsKeep
    <3> QED BY <3>5, <3>6, <3>7
  <2>7. CASE RaiseOverdue(s)
    <3>1. \A k \in Keys : Untouched(k)
      BY <2>7 DEF RaiseOverdue, rows, Untouched, RaceInv, LeasedIsReapable
    <3> QED BY <2>7, <3>1, RowStepsKeep DEF RowStep, RaiseOverdue
  <2> QED BY <1>7, <2>2, <2>3, <2>4, <2>5, <2>6, <2>7 DEF Commit
<1>8. CASE CommitSweep
  <2> DEFINE txn == session[Timer]
  <2>1. txn \in Transactions /\ SnapshotHolds(txn) /\ txn.op = "sweep"
    BY <1>8 DEF TypeOK, RaceInv, CommitSweep
  <2>2. /\ txn.expired \in SUBSET Keys /\ txn.stale \in SUBSET Keys
        /\ \A k \in txn.expired : HandedOut(k)
        /\ \A k \in txn.stale : status[k] # "absent"
    BY <2>1, TransactionShape DEF SnapshotHolds
  <2>3. /\ status' = StatusAfterSweep(txn.expired, txn.stale)
        /\ lease' = LeaseAfterSweep(txn.expired)
        /\ Close(Timer)
        /\ UNCHANGED holder
    BY <1>8 DEF CommitSweep
  <2>4. \A k \in Keys :
          /\ k \in txn.expired \cup txn.stale => status'[k] \in Settled
          /\ k \notin txn.expired \cup txn.stale =>
               /\ lease'[k] = lease[k]
               /\ \/ status'[k] = status[k]
                  \/ /\ status[k] = "absent" /\ status'[k] = "queued"
                     /\ k[2] > 1 /\ parent(k) \in txn.expired
    BY <2>2, <2>3, AfterSweepRows
  <2>5. \A k \in Keys : RowStep(k)
    BY <2>2, <2>3, <2>4
      DEF RowStep, Untouched, Inserted, Ended, HandedOut, RaceInv, LeasedIsReapable
  <2> QED BY <2>3, <2>5, RowStepsKeep
<1>9. ASSUME NEW s \in AllSessions, Rollback(s) PROVE Keeps
  <2>1. \A k \in Keys : Untouched(k)
    BY <1>9 DEF Rollback, rows, Untouched, RaceInv, LeasedIsReapable
  <2> QED BY <1>9, <2>1, RowStepsKeep DEF RowStep, Rollback
<1> QED BY <1>1, <1>2, <1>3, <1>4, <1>5, <1>6, <1>7, <1>8, <1>9 DEF Next

\* However transactions overlap, the strengthened invariant holds.
THEOREM RaceInvariant == Spec => []RaceInv
<1>1. TypeOK /\ RaceInv /\ [Next]_vars => RaceInv'
  BY NextKeeps DEF Keeps
<1> QED BY <1>1, InitRaceInv, TypeCorrect, PTL DEF Spec

\* However transactions overlap, every row in a leased status keeps a worker and
\* a lease, so the sweep can always see it.
THEOREM LeasedRowsAreReapable == Spec => []LeasedIsReapable
<1>1. RaceInv => LeasedIsReapable
  BY DEF RaceInv
<1> QED BY <1>1, RaceInvariant, PTL

\* However transactions overlap, no attempt is replaced before a worker had it.
THEOREM RetriesFollowHandouts == Spec => []RetryFollowsAHandout
<1>1. RaceInv => RetryFollowsAHandout
  BY DEF RaceInv
<1> QED BY <1>1, RaceInvariant, PTL

\* However transactions overlap, a row is handed out at most once and never
\* returns to the queue.
THEOREM RowsAreHandedOutOnce == Spec => HandedOutOnce
<1>1. TypeOK /\ RaceInv /\ [Next]_vars =>
        [\A k \in Keys : /\ holder[k] # NoWorker => holder'[k] = holder[k]
                         /\ status[k] \in Leased \cup Settled => status'[k] # "queued"]_vars
  BY NextKeeps DEF Keeps
<1> QED BY <1>1, TypeCorrect, RaceInvariant, PTL DEF Spec, HandedOutOnce

-----------------------------------------------------------------------------
(***************************************************************************)
(* One transaction at a time, the table of executions implements ReportRun *)
(* for any number of runs, workers, sessions and attempts.  The argument:  *)
(* the rows of a run are always a chain of replaced attempts ending in one *)
(* that is not, and each transaction moves a run at the end of its chain.  *)
(***************************************************************************)

\* The first n attempts of run r exist, and all but the last of them were replaced.
ChainOf(r, n) ==
  \A m \in Attempts : /\ status[<<r, m>>] # "absent" <=> m <= n
                      /\ status[<<r, m>>] = "retrying" <=> m < n

ChainInv == \A r \in Runs : \E n \in 0 .. MaxAttempts : ChainOf(r, n)

\* What a transaction read is still so when it commits.
StillAsRead(txn) ==
  /\ txn.op = "start" => status[txn.key] = "assigned"
  /\ txn.op = "complete" => status[txn.key] = "running" /\ ~txn.wasQueued
  /\ txn.op \in {"progress", "fail"} => status[txn.key] \in Leased
  /\ txn.op = "cancel" => /\ status[txn.key] \in Active
                          /\ ~txn.wasQueued => status[txn.key] \in Leased
                          /\ txn.wasQueued => status[txn.key] = "queued"
  /\ txn.op \in {"sweep", "claim"} =>
       /\ \A k \in txn.expired : status[k] \in Leased
       /\ \A k \in txn.stale : status[k] = "queued"

AloneInv ==
  /\ TypeOK /\ ChainInv /\ LeaseOnlyWhileLeased /\ Serialised
  /\ \A s \in AllSessions : StillAsRead(session[s])

-----------------------------------------------------------------------------
(***************************************************************************)
(* How a run may move.                                                     *)
(***************************************************************************)

\* The edges a latest attempt may take when it is not replaced.
Edge(p, q) ==
  \/ p = "queued" /\ q \in {"assigned", "timed_out", "cancelled"}
  \/ p = "assigned" /\ q \in {"running", "failed", "timed_out", "cancelled"}
  \/ p = "running" /\ q \in {"succeeded", "failed", "timed_out", "cancelled"}

Same(r, M) == \A m \in Attempts \ M : status'[<<r, m>>] = status[<<r, m>>]

Stays(r) == Same(r, {})
Begins(r, n) == n = 0 /\ status'[<<r, 1>>] = "queued" /\ Same(r, {1})
Advances(r, n) ==
  n \in Attempts /\ Edge(status[<<r, n>>], status'[<<r, n>>]) /\ Same(r, {n})
IsReplaced(r, n) ==
  /\ n \in Attempts /\ n < MaxAttempts /\ status[<<r, n>>] \in Leased
  /\ status'[<<r, n>>] = "retrying" /\ status'[<<r, n + 1>>] = "queued"
  /\ Same(r, {n, n + 1})

RunMoves(r) ==
  \E n \in 0 .. MaxAttempts :
    ChainOf(r, n) /\ (Stays(r) \/ Begins(r, n) \/ Advances(r, n) \/ IsReplaced(r, n))

\* The latest attempt is well defined where the rows of a run are its first n.
LEMMA LastIsUnique ==
  ASSUME NEW table, NEW r, NEW n \in 0 .. MaxAttempts,
         \A m \in Attempts : table[<<r, m>>] # "absent" <=> m <= n
  PROVE  n = CHOOSE i \in 0 .. MaxAttempts :
               \A m \in Attempts : table[<<r, m>>] # "absent" <=> m <= i
<1> DEFINE Is(i) == \A m \in Attempts : table[<<r, m>>] # "absent" <=> m <= i
<1>1. ASSUME NEW i \in 0 .. MaxAttempts, Is(i) PROVE i = n
  <2>1. CASE i < n
    <3>1. n \in Attempts /\ n <= n /\ ~(n <= i)
      BY <2>1, BoundsAssumption DEF Attempts
    <3> QED BY <3>1, <1>1
  <2>2. CASE n < i
    <3>1. i \in Attempts /\ i <= i /\ ~(i <= n)
      BY <2>2, BoundsAssumption DEF Attempts
    <3> QED BY <3>1, <1>1
  <2> QED BY <2>1, <2>2, BoundsAssumption
<1>2. Is(n)
  OBVIOUS
<1> HIDE DEF Is
<1> QED BY <1>1, <1>2

\* LastAttempt is that attempt, before and after a step.
LEMMA LastOfChain ==
  ASSUME NEW r \in Runs, NEW n \in 0 .. MaxAttempts
  PROVE  /\ ChainOf(r, n) => LastAttempt(r) = n
         /\ ChainOf(r, n)' => LastAttempt(r)' = n
BY LastIsUnique DEF ChainOf, LastAttempt

\* A row that may still produce a report is the last of its run.
LEMMA ActiveIsLast ==
  ASSUME NEW r \in Runs, NEW n \in 0 .. MaxAttempts, ChainOf(r, n),
         NEW m \in Attempts, status[<<r, m>>] \in Active
  PROVE  m = n
BY BoundsAssumption DEF ChainOf, Attempts, Active

\* Wherever a run moves it is a chain again.
LEMMA MovesKeepChain ==
  ASSUME NEW r \in Runs, RunMoves(r)
  PROVE  \E n \in 0 .. MaxAttempts : ChainOf(r, n)'
<1>1. PICK n \in 0 .. MaxAttempts :
        ChainOf(r, n) /\ (Stays(r) \/ Begins(r, n) \/ Advances(r, n) \/ IsReplaced(r, n))
  BY DEF RunMoves
<1> USE BoundsAssumption DEF Attempts
<1>2. CASE Stays(r)
  BY <1>1, <1>2 DEF ChainOf, Stays, Same
<1>3. CASE Begins(r, n)
  <2>1. ChainOf(r, 1)'
    BY <1>1, <1>3 DEF ChainOf, Begins, Same
  <2> QED BY <2>1
<1>4. CASE Advances(r, n)
  BY <1>1, <1>4 DEF ChainOf, Advances, Edge, Same
<1>5. CASE IsReplaced(r, n)
  <2>1. ChainOf(r, n + 1)'
    BY <1>1, <1>5 DEF ChainOf, IsReplaced, Same, Leased
  <2> QED BY <1>5, <2>1 DEF IsReplaced
<1> QED BY <1>1, <1>2, <1>3, <1>4, <1>5

\* A move of a run is a step of its abstract chain.
LEMMA MovesAreRunSteps ==
  ASSUME NEW r \in Runs, RunMoves(r)
  PROVE  Chain!RunStep(r)
<1>1. PICK n \in 0 .. MaxAttempts :
        ChainOf(r, n) /\ (Stays(r) \/ Begins(r, n) \/ Advances(r, n) \/ IsReplaced(r, n))
  BY DEF RunMoves
<1>2. /\ LastAttempt(r) = n
      /\ \A i \in 0 .. MaxAttempts : ChainOf(r, i)' => LastAttempt(r)' = i
  BY <1>1, LastOfChain
<1>3. LastStatus(r) = IF n = 0 THEN "none" ELSE status[<<r, n>>]
  BY <1>2 DEF LastStatus
<1>4. ASSUME NEW i \in 0 .. MaxAttempts, ChainOf(r, i)', NEW p,
             p = IF i = 0 THEN "none" ELSE status'[<<r, i>>]
      PROVE  Chain!Moves(r, i, p)
  BY <1>2, <1>4 DEF Chain!Moves, LastStatus
<1> USE BoundsAssumption
<1>5. CASE Stays(r)
  <2>1. ChainOf(r, n)'
    BY <1>1, <1>5 DEF ChainOf, Stays, Same
  <2>2. LastStatus(r) = IF n = 0 THEN "none" ELSE status'[<<r, n>>]
    BY <1>3, <1>5 DEF Stays, Same, Attempts
  <2>3. Chain!Moves(r, LastAttempt(r), LastStatus(r))
    BY <1>2, <1>4, <2>1, <2>2
  <2> QED BY <2>3 DEF Chain!RunStep
<1>6. CASE Begins(r, n)
  <2>1. ChainOf(r, 1)'
    BY <1>1, <1>6 DEF ChainOf, Begins, Same, Attempts
  <2>2. Chain!Moves(r, 1, "queued")
    BY <1>4, <1>6, <2>1 DEF Begins
  <2> QED BY <1>3, <1>6, <2>2 DEF Chain!RunStep, Chain!Submit, Begins
<1>7. CASE Advances(r, n)
  <2> DEFINE p == status[<<r, n>>]
             q == status'[<<r, n>>]
  <2>1. ChainOf(r, n)'
    BY <1>1, <1>7 DEF ChainOf, Advances, Edge, Same
  <2>2. LastStatus(r) = p /\ LastAttempt(r) = n
    BY <1>2, <1>3, <1>7 DEF Advances, Attempts
  <2>3. Chain!Moves(r, n, q)
    BY <1>4, <1>7, <2>1 DEF Advances, Attempts
  <2>4. Edge(p, q)
    BY <1>7 DEF Advances
  <2> QED BY <2>2, <2>3, <2>4
        DEF Edge, Chain!RunStep, Chain!HandOut, Chain!Start, Chain!End, Chain!Ended
<1>8. CASE IsReplaced(r, n)
  <2>1. ChainOf(r, n + 1)'
    BY <1>1, <1>8 DEF ChainOf, IsReplaced, Same, Attempts, Leased
  <2>2. Chain!Moves(r, n + 1, "queued")
    BY <1>4, <1>8, <2>1 DEF IsReplaced, Attempts
  <2>3. LastStatus(r) \in {"assigned", "running"} /\ LastAttempt(r) = n /\ n < MaxAttempts
    BY <1>2, <1>3, <1>8 DEF IsReplaced, Attempts, Leased
  <2> QED BY <2>2, <2>3 DEF Chain!RunStep, Chain!Replace
<1> QED BY <1>1, <1>5, <1>6, <1>7, <1>8

-----------------------------------------------------------------------------
(***************************************************************************)
(* What the transactions write moves every run.                            *)
(***************************************************************************)

\* A table that is not written stays where it is.
LEMMA UnwrittenMoves ==
  ASSUME ChainInv, UNCHANGED status
  PROVE  \A r \in Runs : RunMoves(r)
BY DEF ChainInv, RunMoves, Stays, Same

\* A row is its run and its number.
LEMMA KeyParts ==
  ASSUME NEW k \in Keys
  PROVE  k[1] \in Runs /\ k[2] \in Attempts /\ k = <<k[1], k[2]>>
BY DEF Keys

\* One row moves along an edge (start, complete, cancel).
LEMMA OneRowMoves ==
  ASSUME TypeOK, ChainInv, NEW k \in Keys, status[k] \in Active, NEW p, Edge(status[k], p),
         status' = [status EXCEPT ![k] = p]
  PROVE  \A r \in Runs : RunMoves(r)
<1> SUFFICES ASSUME NEW r \in Runs PROVE RunMoves(r)
  OBVIOUS
<1>1. PICK n \in 0 .. MaxAttempts : ChainOf(r, n)
  BY DEF ChainInv
<1>2. \A m \in Attempts : <<r, m>> \in Keys
  BY DEF Keys
<1>3. CASE k[1] = r
  <2>1. k = <<r, k[2]>> /\ k[2] \in Attempts
    BY <1>3, KeyParts
  <2>2. k[2] = n
    BY <1>1, <2>1, ActiveIsLast
  <2>3. Advances(r, n)
    BY <1>2, <2>1, <2>2 DEF Advances, Same, TypeOK
  <2> QED BY <1>1, <2>3 DEF RunMoves
<1>4. CASE k[1] # r
  <2>1. Stays(r)
    BY <1>2, <1>4 DEF Stays, Same, TypeOK
  <2> QED BY <1>1, <2>1 DEF RunMoves
<1> QED BY <1>3, <1>4

\* The rows of one run that wait or are worked on are its last one.
LEMMA ActiveRows ==
  ASSUME NEW r \in Runs, NEW n \in 0 .. MaxAttempts, ChainOf(r, n), NEW k \in Keys,
         k[1] = r, status[k] \in Active
  PROVE  k = <<r, n>> /\ n \in Attempts
<1>1. k = <<r, k[2]>> /\ k[2] \in Attempts
  BY KeyParts
<1> QED BY <1>1, ActiveIsLast

\* Rows of K fail and are retried, rows of stale are given up and a row of taken is
\* handed out, all in one commit (fail, reap_stale_executions, claim_next).
Writes(K, stale, taken, why, verdict) ==
  /\ K \in SUBSET Keys /\ stale \in SUBSET Keys /\ taken \in SUBSET Keys
  /\ verdict \in {"failed", "timed_out"}
  /\ \A k \in K : status[k] \in Leased
  /\ \A k \in stale \cup taken : status[k] = "queued"
  /\ \A k \in Keys : status'[k] = IF k \in taken THEN "assigned"
                                   ELSE IF k \in stale THEN "timed_out"
                                   ELSE StatusAfterFail(K, why, verdict)[k]

\* Such a commit moves every run.
LEMMA ManyRowsMove ==
  ASSUME TypeOK, ChainInv, NEW K, NEW stale, NEW taken, NEW why, NEW verdict,
         Writes(K, stale, taken, why, verdict)
  PROVE  \A r \in Runs : RunMoves(r)
<1> SUFFICES ASSUME NEW r \in Runs PROVE RunMoves(r)
  OBVIOUS
<1> USE DEF Writes
<1>1. PICK n \in 0 .. MaxAttempts : ChainOf(r, n)
  BY DEF ChainInv
<1> DEFINE last == <<r, n>>
           rest == {m \in Attempts : <<r, m>> # last}
<1>2. \A m \in Attempts : <<r, m>> \in Keys
  BY DEF Keys
<1>3. \A k \in K \cup stale \cup taken : k[1] = r => k = last /\ n \in Attempts
  BY <1>1, ActiveRows DEF Active, Leased
<1>4. \A j \in SpawnedBy(K, why) : j[1] = r =>
        /\ last \in K /\ n \in Attempts /\ can_retry(last, why) /\ j = <<r, n + 1>>
  <2> SUFFICES ASSUME NEW i \in K, Spawns(i, why), next_attempt(i)[1] = r
               PROVE  /\ last \in K /\ n \in Attempts /\ can_retry(last, why)
                      /\ next_attempt(i) = <<r, n + 1>>
    BY DEF SpawnedBy
  <2>1. i[1] = r
    BY KeyParts DEF next_attempt
  <2>2. i = last /\ n \in Attempts
    BY <1>3, <2>1
  <2> QED BY <2>2 DEF Spawns, next_attempt
<1>5. \A m \in Attempts : <<r, m>> # last /\ <<r, m>> \notin SpawnedBy(K, why) =>
        status'[<<r, m>>] = status[<<r, m>>]
  BY <1>2, <1>3 DEF StatusAfterFail
<1>6. last \in K /\ n < MaxAttempts => status[<<r, n + 1>>] = "absent"
  BY <1>1, BoundsAssumption DEF ChainOf, Attempts
<1>7. CASE last \in taken \cup stale
  <2>1. n \in Attempts /\ last \notin K
    BY <1>3, <1>7 DEF Leased
  <2>2. Edge(status[last], status'[last])
    BY <1>2, <1>7, <2>1 DEF Edge
  <2>3. Same(r, {n})
    BY <1>4, <1>5, <2>1 DEF Same
  <2> QED BY <1>1, <2>1, <2>2, <2>3 DEF RunMoves, Advances
<1>8. CASE last \in K /\ Spawns(last, why)
  <2>1. n \in Attempts /\ n < MaxAttempts /\ n + 1 \in Attempts
    BY <1>3, <1>8, BoundsAssumption DEF Spawns, can_retry, Attempts
  <2>2. last \notin taken \cup stale
    BY <1>8 DEF Leased
  <2>3. status'[last] = "retrying"
    BY <1>2, <1>8, <2>1, <2>2 DEF StatusAfterFail, FailedStatus
  <2>4. /\ <<r, n + 1>> \in SpawnedBy(K, why) /\ <<r, n + 1>> \in Keys
        /\ <<r, n + 1>> # last
    BY <1>2, <1>8, <2>1 DEF SpawnedBy, next_attempt, Attempts
  <2>5. status'[<<r, n + 1>>] = "queued"
    BY <1>3, <2>4 DEF StatusAfterFail
  <2>6. Same(r, {n, n + 1})
    BY <1>4, <1>5 DEF Same
  <2> QED BY <1>1, <1>8, <2>1, <2>3, <2>5, <2>6 DEF RunMoves, IsReplaced
<1>9. CASE last \in K /\ ~Spawns(last, why)
  <2>1. n \in Attempts
    BY <1>3, <1>9
  <2>2. last \notin taken \cup stale
    BY <1>9 DEF Leased
  <2>3. status'[last] = verdict
    BY <1>2, <1>9, <2>1, <2>2 DEF StatusAfterFail, FailedStatus
  <2>4. Edge(status[last], status'[last])
    BY <1>9, <2>3 DEF Edge, Leased
  <2>5. SpawnedBy(K, why) \cap {<<r, m>> : m \in Attempts} = {}
    <3> SUFFICES ASSUME NEW m \in Attempts, <<r, m>> \in SpawnedBy(K, why) PROVE FALSE
      OBVIOUS
    <3>1. can_retry(last, why)
      BY <1>4
    <3> QED BY <1>6, <1>9, <3>1 DEF Spawns, can_retry, next_attempt
  <2>6. Same(r, {n})
    BY <1>5, <2>5 DEF Same
  <2> QED BY <1>1, <2>1, <2>4, <2>6 DEF RunMoves, Advances
<1>10. CASE last \notin K \cup stale \cup taken
  <2>1. \A k \in K \cup stale \cup taken : k[1] # r
    BY <1>3, <1>10
  <2>2. \A j \in SpawnedBy(K, why) : j[1] # r
    BY <1>4, <1>10
  <2>3. Stays(r)
    BY <1>2, <2>1, <2>2 DEF Stays, Same, StatusAfterFail
  <2> QED BY <1>1, <2>3 DEF RunMoves
<1> QED BY <1>7, <1>8, <1>9, <1>10

-----------------------------------------------------------------------------
(***************************************************************************)
(* Every serial step.                                                      *)
(***************************************************************************)

AloneStep == AloneInv' /\ \A r \in Runs : RunMoves(r)

\* A transaction that opens alone knows what it read.
LEMMA AloneOpens ==
  ASSUME AloneInv, NEW s \in AllSessions, NEW txn \in Transactions, Open(s, txn), Serialised',
         txn # Idle, StillAsRead(txn)
  PROVE  AloneStep
<1>1. UNCHANGED rows /\ session' = [session EXCEPT ![s] = txn] /\ session[s] = Idle
  BY DEF Open
<1>2. TypeOK'
  BY OpenTyped DEF AloneInv
<1>3. \A r \in Runs : RunMoves(r)
  BY <1>1, UnwrittenMoves DEF AloneInv, rows
<1>4. \A t \in AllSessions : StillAsRead(session'[t])
  BY <1>1 DEF AloneInv, TypeOK, AllSessions
<1>5. \A t \in AllSessions : StillAsRead(session[t])'
  BY <1>1, <1>4 DEF StillAsRead, rows
<1>6. ChainInv'
  BY <1>3, MovesKeepChain DEF ChainInv
<1>7. LeaseOnlyWhileLeased'
  BY <1>1 DEF AloneInv, LeaseOnlyWhileLeased, rows
<1> QED BY <1>2, <1>3, <1>5, <1>6, <1>7 DEF AloneStep, AloneInv

\* When it ends nothing is open.
LEMMA AloneCloses ==
  ASSUME AloneInv, TypeOK', NEW s \in AllSessions, session[s] # Idle, Close(s),
         \A r \in Runs : RunMoves(r), LeaseOnlyWhileLeased'
  PROVE  AloneStep
<1>1. \A t \in AllSessions : session'[t] = Idle
  BY DEF AloneInv, TypeOK, Serialised, Open_sessions, Close, AllSessions
<1>2. Serialised'
  BY <1>1 DEF Serialised, Open_sessions, AllSessions
<1>3. \A t \in AllSessions : StillAsRead(session[t])'
  BY <1>1 DEF StillAsRead, Idle
<1>4. ChainInv'
  BY MovesKeepChain DEF ChainInv
<1> QED BY <1>2, <1>3, <1>4 DEF AloneStep, AloneInv

\* A transaction that ends without having written.
LEMMA AloneGivesUp ==
  ASSUME AloneInv, TypeOK', NEW s \in AllSessions, session[s] # Idle, Close(s), UNCHANGED rows
  PROVE  AloneStep
<1>1. LeaseOnlyWhileLeased'
  BY DEF AloneInv, LeaseOnlyWhileLeased, rows
<1>2. \A r \in Runs : RunMoves(r)
  BY UnwrittenMoves DEF AloneInv, rows
<1> QED BY <1>1, <1>2, AloneCloses

\* The clock and a submitted run touch no row a transaction has read.
LEMMA TickAlone ==
  ASSUME AloneInv, TypeOK', Tick
  PROVE  AloneStep
<1>1. UNCHANGED <<status, session>> /\ \A k \in Keys : lease'[k] # NoLease <=> lease[k] # NoLease
  BY NamesAssumption DEF Tick, AloneInv, TypeOK
<1>2. \A r \in Runs : RunMoves(r)
  BY <1>1, UnwrittenMoves DEF AloneInv
<1>3. ChainInv'
  BY <1>2, MovesKeepChain DEF ChainInv
<1>4. LeaseOnlyWhileLeased'
  BY <1>1 DEF AloneInv, LeaseOnlyWhileLeased
<1>5. Serialised' /\ \A t \in AllSessions : StillAsRead(session[t])'
  BY <1>1 DEF AloneInv, Serialised, Open_sessions, StillAsRead
<1> QED BY <1>2, <1>3, <1>4, <1>5 DEF AloneStep, AloneInv

\* A submitted run begins its chain (enqueue).
LEMMA RunNowAlone ==
  ASSUME AloneInv, TypeOK', NEW r \in Runs, RunNow(r)
  PROVE  AloneStep
<1> DEFINE first == <<r, 1>>
<1>1. first \in Keys /\ 1 \in Attempts
  BY BoundsAssumption DEF Keys, Attempts
<1>2. /\ status[first] = "absent" /\ UNCHANGED <<lease, session>>
      /\ \A k \in Keys : status'[k] = IF k = first THEN "queued" ELSE status[k]
  BY <1>1 DEF RunNow, AloneInv, TypeOK
<1>3. ASSUME NEW q \in Runs PROVE RunMoves(q)
  <2>1. PICK n \in 0 .. MaxAttempts : ChainOf(q, n)
    BY DEF AloneInv, ChainInv
  <2>2. \A m \in Attempts : <<q, m>> \in Keys
    BY DEF Keys
  <2>3. CASE q = r
    <3>1. n = 0
      BY <1>1, <1>2, <2>1, <2>3 DEF ChainOf
    <3>2. Begins(q, n)
      BY <1>1, <1>2, <2>2, <2>3, <3>1 DEF Begins, Same
    <3> QED BY <2>1, <3>2 DEF RunMoves
  <2>4. CASE q # r
    <3>1. Stays(q)
      BY <1>2, <2>2, <2>4 DEF Stays, Same
    <3> QED BY <2>1, <3>1 DEF RunMoves
  <2> QED BY <2>3, <2>4
<1>4. ChainInv'
  BY <1>3, MovesKeepChain DEF ChainInv
<1>5. LeaseOnlyWhileLeased'
  BY <1>2 DEF AloneInv, LeaseOnlyWhileLeased, Leased
<1>6. Serialised'
  BY <1>2 DEF AloneInv, Serialised, Open_sessions
<1>7. ASSUME NEW t \in AllSessions PROVE StillAsRead(session[t])'
  <2>1. session[t] \in Transactions /\ StillAsRead(session[t]) /\ session'[t] = session[t]
    BY <1>2 DEF AloneInv, TypeOK, AllSessions
  <2> QED BY <1>2, <2>1, TransactionShape DEF StillAsRead, OneRowOps, Leased, Active
<1> QED BY <1>3, <1>4, <1>5, <1>6, <1>7 DEF AloneStep, AloneInv

\* What a request opens is what it read.
LEMMA BeginsAlone ==
  ASSUME AloneInv, Serialised', NEW s \in Sessions,
         WorkerCall(s) \/ \E k \in Keys : BeginCancel(s, k)
  PROVE  AloneStep
<1> USE DEF AllSessions
<1>1. ASSUME NEW k \in Keys, NEW op \in OneRowOps,
             Open(s, OneRow(op, k)), StillAsRead(OneRow(op, k))
      PROVE  AloneStep
  <2>1. OneRow(op, k) \in Transactions /\ OneRow(op, k) # Idle
    BY DEF OneRow, Transactions, OneRowOps, Idle
  <2> QED BY <1>1, <2>1, AloneOpens
<1>2. ASSUME NEW k \in Keys, BeginCancel(s, k) PROVE AloneStep
  <2>1. status[k] \in Active
    BY <1>2 DEF BeginCancel, can_transition, Allowed, Active, AloneInv, TypeOK, Statuses, Settled
  <2>2. StillAsRead(OneRow("cancel", k))
    BY <2>1 DEF StillAsRead, OneRow, Active, Leased
  <2> QED BY <1>1, <1>2, <2>2 DEF BeginCancel, OneRowOps
<1>3. ASSUME NEW w \in Workers, BeginClaim(s, w) PROVE AloneStep
  <2> DEFINE txn == [op |-> "claim", by |-> w, expired |-> find_expired_leases,
                     stale |-> find_stale_queued]
  <2>1. txn \in Transactions /\ txn # Idle
    BY DEF Transactions, find_expired_leases, find_stale_queued, Idle
  <2>2. StillAsRead(txn)
    BY DEF StillAsRead, find_expired_leases, find_stale_queued
  <2> QED BY <1>3, <2>1, <2>2, AloneOpens DEF BeginClaim
<1>4. ASSUME NEW w \in Workers, NEW k \in Keys, BeginStart(s, w, k) PROVE AloneStep
  <2>1. StillAsRead(OneRow("start", k))
    BY <1>4 DEF BeginStart, can_transition, Allowed, StillAsRead, OneRow, AloneInv, TypeOK,
                Statuses, Active, Settled
  <2> QED BY <1>1, <1>4, <2>1 DEF BeginStart, OneRowOps
<1>5. ASSUME NEW w \in Workers, NEW k \in Keys, BeginProgress(s, w, k) PROVE AloneStep
  <2>1. StillAsRead(OneRow("progress", k)) /\ StillAsRead(OneRow("overdue", k))
    BY <1>5 DEF BeginProgress, StillAsRead, OneRow
  <2> QED BY <1>1, <1>5, <2>1 DEF BeginProgress, OneRowOps
<1>6. ASSUME NEW w \in Workers, NEW k \in Keys, BeginComplete(s, w, k) PROVE AloneStep
  <2>1. StillAsRead(OneRow("complete", k))
    BY <1>6 DEF BeginComplete, can_transition, Allowed, StillAsRead, OneRow, AloneInv, TypeOK,
                Statuses, Active, Settled
  <2> QED BY <1>1, <1>6, <2>1 DEF BeginComplete, OneRowOps
<1>7. ASSUME NEW w \in Workers, NEW k \in Keys, NEW why \in WorkerCauses, BeginFail(s, w, k, why)
      PROVE  AloneStep
  <2> DEFINE txn == [op |-> "fail", key |-> k, why |-> why]
  <2>1. txn \in Transactions /\ txn # Idle
    BY DEF Transactions, Idle
  <2>2. StillAsRead(txn)
    BY <1>7 DEF BeginFail, can_transition, Allowed, StillAsRead, AloneInv, TypeOK,
                Statuses, Active, Settled, Leased
  <2> QED BY <1>7, <2>1, <2>2, AloneOpens DEF BeginFail
<1> QED BY <1>2, <1>3, <1>4, <1>5, <1>6, <1>7 DEF WorkerCall

\* The periodic sweep opens on the rows that lapsed.
LEMMA SweepBeginsAlone ==
  ASSUME AloneInv, Serialised', BeginSweep
  PROVE  AloneStep
<1> DEFINE txn == [op |-> "sweep", expired |-> find_expired_leases, stale |-> find_stale_queued]
<1>1. txn \in Transactions /\ txn # Idle
  BY DEF Transactions, find_expired_leases, find_stale_queued, Idle
<1>2. StillAsRead(txn)
  BY DEF StillAsRead, find_expired_leases, find_stale_queued
<1> QED BY <1>1, <1>2, AloneOpens DEF BeginSweep, AllSessions

\* Transactions that write one row.
LEMMA OneRowCommitsAlone ==
  ASSUME AloneInv, TypeOK', NEW s \in Sessions,
         CommitStart(s) \/ CommitProgress(s) \/ CommitComplete(s) \/ CommitCancel(s)
  PROVE  AloneStep
<1> DEFINE txn == session[s]
           k == txn.key
<1>1. /\ txn \in Transactions /\ StillAsRead(txn) /\ s \in AllSessions
      /\ txn.op \in {"start", "progress", "complete", "cancel"} /\ txn # Idle
      /\ k \in Keys /\ txn.wasQueued \in BOOLEAN /\ Close(s)
  <2>1. txn \in Transactions /\ StillAsRead(txn)
    BY DEF AloneInv, TypeOK, AllSessions
  <2>2. txn.op \in {"start", "progress", "complete", "cancel"} /\ Close(s)
    BY DEF CommitStart, CommitProgress, CommitComplete, CommitCancel
  <2> QED BY <2>1, <2>2, TransactionShape DEF OneRowOps, Idle, AllSessions
<1>2. status[k] \in Active /\ (lease[k] # NoLease <=> status[k] \in Leased)
  BY <1>1 DEF StillAsRead, Active, Leased, AloneInv, LeaseOnlyWhileLeased
<1>3. CASE CommitProgress(s)
  <2>1. LeaseOnlyWhileLeased'
    BY <1>1, <1>3, BoundsAssumption, NamesAssumption
      DEF CommitProgress, StillAsRead, AloneInv, LeaseOnlyWhileLeased, TypeOK
  <2>2. \A r \in Runs : RunMoves(r)
    BY <1>3, UnwrittenMoves DEF CommitProgress, AloneInv
  <2> QED BY <1>1, <2>1, <2>2, AloneCloses
<1>4. CASE CommitStart(s)
  <2>1. Edge(status[k], "running")
    BY <1>1, <1>4 DEF StillAsRead, CommitStart, Edge
  <2>2. \A r \in Runs : RunMoves(r)
    BY <1>1, <1>2, <1>4, <2>1, OneRowMoves DEF CommitStart, AloneInv
  <2>3. LeaseOnlyWhileLeased'
    BY <1>1, <1>4, BoundsAssumption, NamesAssumption
      DEF CommitStart, AloneInv, LeaseOnlyWhileLeased, TypeOK, Leased
  <2> QED BY <1>1, <2>2, <2>3, AloneCloses
<1>5. CASE CommitComplete(s) \/ CommitCancel(s)
  <2>1. PICK p \in {"succeeded", "cancelled"} :
          status' = [status EXCEPT ![k] = p] /\ Edge(status[k], p)
    BY <1>1, <1>5 DEF StillAsRead, CommitComplete, CommitCancel, Edge, Active
  <2>2. \A r \in Runs : RunMoves(r)
    BY <1>1, <1>2, <2>1, OneRowMoves DEF AloneInv
  <2>3. lease' = [lease EXCEPT ![k] = NoLease]
    <3>1. lease' = [lease EXCEPT ![k] = Released(k, txn.wasQueued)]
      BY <1>5 DEF CommitComplete, CommitCancel
    <3>2. txn.wasQueued => lease[k] = NoLease
      BY <1>1, <1>2, <1>5 DEF CommitComplete, CommitCancel, StillAsRead, Leased
    <3> QED BY <3>1, <3>2 DEF Released
  <2>4. LeaseOnlyWhileLeased'
    BY <1>1, <2>1, <2>3 DEF AloneInv, LeaseOnlyWhileLeased, TypeOK, Leased
  <2> QED BY <1>1, <2>2, <2>4, AloneCloses
<1> QED BY <1>3, <1>4, <1>5

\* The lease column after rows were failed and inserted: released with the first,
\* never given to the others.
LEMMA LeasesAfterFail ==
  ASSUME AloneInv, NEW K \in SUBSET Keys, NEW why, NEW verdict \in {"failed", "timed_out"},
         \A k \in K : status[k] \in Leased, NEW k \in Keys
  PROVE  LET after == StatusAfterFail(K, why, verdict)[k]
         IN  /\ k \in K => after \notin Leased
             /\ k \notin K => (after \in Leased <=> status[k] \in Leased)
<1>1. k \in K => StatusAfterFail(K, why, verdict)[k] \in {"retrying", verdict}
  BY AfterFailRows DEF AloneInv
<1>2. k \notin K => \/ StatusAfterFail(K, why, verdict)[k] = status[k]
                    \/ status[k] = "absent" /\ StatusAfterFail(K, why, verdict)[k] = "queued"
  BY AfterFailRows DEF AloneInv
<1> QED BY <1>1, <1>2 DEF Leased

\* A worker reports a failure.
LEMMA CommitFailAlone ==
  ASSUME AloneInv, TypeOK', NEW s \in Sessions, CommitFail(s)
  PROVE  AloneStep
<1> DEFINE txn == session[s]
           k == txn.key
<1>1. /\ StillAsRead(txn) /\ s \in AllSessions /\ txn # Idle /\ k \in Keys
      /\ status[k] \in Leased /\ Close(s)
  <2>1. txn \in Transactions /\ StillAsRead(txn) /\ txn.op = "fail"
    BY DEF AloneInv, TypeOK, AllSessions, CommitFail
  <2> QED BY <2>1, TransactionShape DEF StillAsRead, Idle, AllSessions, CommitFail
<1>2. /\ status' = StatusAfterFail({k}, txn.why, "failed")
      /\ lease' = [lease EXCEPT ![k] = NoLease]
  BY DEF CommitFail
<1>3. \A r \in Runs : RunMoves(r)
  <2>1. Writes({k}, {}, {}, txn.why, "failed")
    BY <1>1, <1>2 DEF Writes
  <2> QED BY <2>1, ManyRowsMove DEF AloneInv
<1>4. LeaseOnlyWhileLeased'
  <2> SUFFICES ASSUME NEW j \in Keys PROVE lease'[j] # NoLease <=> status'[j] \in Leased
    BY DEF LeaseOnlyWhileLeased
  <2>1. /\ j \in {k} => status'[j] \notin Leased
        /\ j \notin {k} => (status'[j] \in Leased <=> status[j] \in Leased)
    BY <1>1, <1>2, LeasesAfterFail
  <2>2. lease'[j] = IF j = k THEN NoLease ELSE lease[j]
    BY <1>1, <1>2 DEF AloneInv, TypeOK
  <2>3. lease[j] # NoLease <=> status[j] \in Leased
    BY DEF AloneInv, LeaseOnlyWhileLeased
  <2> QED BY <2>1, <2>2, <2>3
<1> QED BY <1>1, <1>3, <1>4, AloneCloses

\* What the sweep and the claim that begins with one write, with at most one row
\* handed out.
LEMMA SweptAlone ==
  ASSUME AloneInv, TypeOK', NEW s \in AllSessions, session[s].op \in {"sweep", "claim"}, Close(s),
         NEW taken \in SUBSET Keys,
         \A k \in taken : /\ status[k] = "queued" /\ k \notin session[s].stale
                          /\ lease'[k] # NoLease,
         \A k \in Keys :
           status'[k] = IF k \in taken THEN "assigned"
                        ELSE StatusAfterSweep(session[s].expired, session[s].stale)[k],
         \A k \in Keys \ taken : lease'[k] = LeaseAfterSweep(session[s].expired)[k]
  PROVE  AloneStep
<1> DEFINE txn == session[s]
<1>1. /\ txn \in Transactions /\ StillAsRead(txn) /\ txn # Idle
      /\ txn.expired \in SUBSET Keys /\ txn.stale \in SUBSET Keys
      /\ \A k \in txn.expired : status[k] \in Leased
      /\ \A k \in txn.stale : status[k] = "queued"
  <2>1. txn \in Transactions /\ StillAsRead(txn)
    BY DEF AloneInv, TypeOK, AllSessions
  <2> QED BY <2>1, TransactionShape DEF StillAsRead, Idle
<1> HIDE DEF txn
<1>2. \A k \in Keys : status'[k] = IF k \in taken THEN "assigned"
                                   ELSE IF k \in txn.stale THEN "timed_out"
                                   ELSE StatusAfterFail(txn.expired, "lease_expired", "timed_out")[k]
  BY DEF StatusAfterSweep, txn
<1>3. \A r \in Runs : RunMoves(r)
  <2>1. Writes(txn.expired, txn.stale, taken, "lease_expired", "timed_out")
    BY <1>1, <1>2 DEF Writes
  <2> QED BY <2>1, ManyRowsMove DEF AloneInv
<1>4. LeaseOnlyWhileLeased'
  <2> SUFFICES ASSUME NEW k \in Keys PROVE lease'[k] # NoLease <=> status'[k] \in Leased
    BY DEF LeaseOnlyWhileLeased
  <2>1. CASE k \in taken
    BY <1>2, <2>1 DEF Leased
  <2>2. CASE k \notin taken
    <3>1. lease'[k] = IF k \in txn.expired THEN NoLease ELSE lease[k]
      BY <2>2 DEF LeaseAfterSweep, txn
    <3>2. lease[k] # NoLease <=> status[k] \in Leased
      BY DEF AloneInv, LeaseOnlyWhileLeased
    <3>3. CASE k \in txn.stale
      BY <1>1, <1>2, <2>2, <3>1, <3>2, <3>3 DEF Leased
    <3>4. CASE k \notin txn.stale
      <4>1. status'[k] = StatusAfterFail(txn.expired, "lease_expired", "timed_out")[k]
        BY <1>2, <2>2, <3>4
      <4>2. /\ k \in txn.expired =>
                 StatusAfterFail(txn.expired, "lease_expired", "timed_out")[k] \notin Leased
            /\ k \notin txn.expired =>
                 (StatusAfterFail(txn.expired, "lease_expired", "timed_out")[k] \in Leased
                   <=> status[k] \in Leased)
        <5>1. AloneInv /\ txn.expired \in SUBSET Keys /\ \A j \in txn.expired : status[j] \in Leased
          BY <1>1
        <5> QED BY <5>1, LeasesAfterFail
      <4>3. /\ k \in txn.expired => status'[k] \notin Leased
            /\ k \notin txn.expired => (status'[k] \in Leased <=> status[k] \in Leased)
        BY <4>1, <4>2
      <4> QED BY <3>1, <3>2, <4>3
    <3> QED BY <3>3, <3>4
  <2> QED BY <2>1, <2>2
<1> QED BY <1>1, <1>3, <1>4, AloneCloses DEF txn

\* The periodic sweep commits (reap_stale_executions).
LEMMA CommitSweepAlone ==
  ASSUME AloneInv, TypeOK', CommitSweep
  PROVE  AloneStep
<1>1. /\ session[Timer].op = "sweep" /\ Close(Timer)
      /\ status' = StatusAfterSweep(session[Timer].expired, session[Timer].stale)
      /\ lease' = LeaseAfterSweep(session[Timer].expired)
  BY DEF CommitSweep
<1>2. {} \in SUBSET Keys /\ Timer \in AllSessions
  BY DEF AllSessions
<1> QED BY <1>1, <1>2, SweptAlone

\* claim_next hands out a row that was waiting before its own sweep.
LEMMA CommitClaimAlone ==
  ASSUME AloneInv, TypeOK', NEW s \in Sessions, CommitClaim(s)
  PROVE  AloneStep
<1> DEFINE txn == session[s]
           swept == StatusAfterSweep(txn.expired, txn.stale)
           leases == LeaseAfterSweep(txn.expired)
           waits == WaitAfterFail(txn.expired, "lease_expired")
<1>1. /\ s \in AllSessions /\ txn.op = "claim" /\ Close(s)
      /\ txn.expired \in SUBSET Keys /\ txn.stale \in SUBSET Keys
  <2>1. txn \in Transactions
    BY DEF AloneInv, TypeOK
  <2> QED BY <2>1, TransactionShape DEF CommitClaim, AllSessions
<1>2. /\ swept \in [Keys -> Statuses]
      /\ leases \in [Keys -> (-1 .. LeaseTicks) \cup {NoLease}]
  BY <1>1, AfterSweepTyped DEF AloneInv
<1>3. \/ status' = swept /\ lease' = leases
      \/ \E k \in Keys : /\ swept[k] = "queued" /\ waits[k] = 0
                         /\ status' = [swept EXCEPT ![k] = "assigned"]
                         /\ lease' = [leases EXCEPT ![k] = LeaseTicks]
  BY DEF CommitClaim
<1>4. CASE status' = swept /\ lease' = leases
  <2>1. {} \in SUBSET Keys
    OBVIOUS
  <2> QED BY <1>1, <1>4, <2>1, SweptAlone
<1>5. ASSUME NEW k \in Keys, swept[k] = "queued", waits[k] = 0,
             status' = [swept EXCEPT ![k] = "assigned"],
             lease' = [leases EXCEPT ![k] = LeaseTicks]
      PROVE  AloneStep
  <2>1. /\ k \in txn.expired \cup txn.stale => swept[k] \in Settled
        /\ k \notin txn.expired \cup txn.stale => swept[k] = status[k] \/ waits[k] # 0
    BY <1>1, AfterSweepRows DEF AloneInv
  <2>2. status[k] = "queued" /\ k \notin txn.stale
    BY <1>5, <2>1 DEF Settled
  <2> HIDE DEF swept, leases
  <2>3. /\ \A j \in Keys : status'[j] = IF j \in {k} THEN "assigned" ELSE swept[j]
        /\ \A j \in Keys \ {k} : lease'[j] = leases[j]
        /\ \A j \in {k} : lease'[j] # NoLease /\ status[j] = "queued" /\ j \notin txn.stale
        /\ {k} \in SUBSET Keys
    BY <1>2, <1>5, <2>2, BoundsAssumption, NamesAssumption
  <2> USE DEF swept, leases
  <2> QED BY <1>1, <2>3, SweptAlone
<1> QED BY <1>3, <1>4, <1>5

\* Every serial step keeps the invariant and moves every run along its chain.
LEMMA SerialSteps ==
  ASSUME AloneInv, SerialNext
  PROVE  AloneStep
<1>1. TypeOK' /\ Serialised' /\ Next
  BY NextTyped DEF SerialNext, AloneInv
<1>2. CASE Tick
  BY <1>1, <1>2, TickAlone
<1>3. CASE \E r \in Runs : RunNow(r)
  BY <1>1, <1>3, RunNowAlone
<1>4. CASE BeginSweep
  BY <1>1, <1>4, SweepBeginsAlone
<1>5. CASE CommitSweep
  BY <1>1, <1>5, CommitSweepAlone
<1>6. ASSUME NEW s \in Sessions, WorkerCall(s) \/ \E k \in Keys : BeginCancel(s, k)
      PROVE  AloneStep
  BY <1>1, <1>6, BeginsAlone
<1>7. ASSUME NEW s \in Sessions, Commit(s) PROVE AloneStep
  <2>1. CASE RaiseOverdue(s)
    <3>1. session[s] # Idle /\ s \in AllSessions
      BY <2>1 DEF RaiseOverdue, Idle, AllSessions
    <3> QED BY <1>1, <2>1, <3>1, AloneGivesUp DEF RaiseOverdue
  <2>2. CASE CommitStart(s) \/ CommitProgress(s) \/ CommitComplete(s) \/ CommitCancel(s)
    BY <1>1, <2>2, OneRowCommitsAlone
  <2> QED BY <1>1, <1>7, <2>1, <2>2, CommitFailAlone, CommitClaimAlone DEF Commit
<1>8. ASSUME NEW s \in AllSessions, Rollback(s) PROVE AloneStep
  <2>1. session[s] # Idle
    BY <1>8 DEF Rollback, Idle
  <2> QED BY <1>1, <1>8, <2>1, AloneGivesUp DEF Rollback
<1> QED BY <1>1, <1>2, <1>3, <1>4, <1>5, <1>6, <1>7, <1>8 DEF Next, AllSessions

\* A step that changes nothing keeps the invariant.
LEMMA AloneStutters ==
  ASSUME AloneInv, UNCHANGED vars
  PROVE  AloneInv'
<1>1. TypeOK'
  BY NextTyped DEF AloneInv
<1>2. UNCHANGED <<status, lease, session>>
  BY DEF vars
<1> QED BY <1>1, <1>2
      DEF AloneInv, ChainInv, ChainOf, LeaseOnlyWhileLeased, Serialised, Open_sessions, StillAsRead

\* The empty table is a chain of no attempts for every run.
LEMMA AloneInit ==
  ASSUME Init
  PROVE  AloneInv /\ \A r \in Runs : LastAttempt(r) = 0
<1>1. \A r \in Runs : ChainOf(r, 0)
  BY BoundsAssumption DEF Init, ChainOf, Keys, Attempts
<1>2. 0 \in 0 .. MaxAttempts
  BY BoundsAssumption
<1>3. \A s \in AllSessions : session[s] = Idle
  BY DEF Init, AllSessions
<1>4. \A s \in AllSessions : StillAsRead(session[s])
  BY <1>3 DEF StillAsRead, Idle
<1>5. LeaseOnlyWhileLeased
  BY DEF Init, LeaseOnlyWhileLeased, Leased
<1>6. Serialised
  BY <1>3 DEF Serialised, Open_sessions, AllSessions
<1> QED BY <1>1, <1>2, <1>4, <1>5, <1>6, InitTyped, LastOfChain DEF AloneInv, ChainInv

-----------------------------------------------------------------------------
LEMMA ChainsHold == AloneInv => OneLiveAttempt /\ RetryingMeansReplaced /\ LeaseOnlyWhileLeased
<1>1. ASSUME AloneInv PROVE OneLiveAttempt
  <2> SUFFICES ASSUME NEW j \in Keys, NEW k \in Keys, j[1] = k[1],
                      status[j] \in Active, status[k] \in Active
               PROVE  j = k
    BY DEF OneLiveAttempt
  <2>1. PICK n \in 0 .. MaxAttempts : ChainOf(j[1], n)
    BY <1>1, KeyParts DEF AloneInv, ChainInv
  <2> QED BY <2>1, KeyParts, ActiveRows
<1>2. ASSUME AloneInv PROVE RetryingMeansReplaced
  <2> SUFFICES ASSUME NEW k \in Keys
               PROVE  status[k] = "retrying" <=>
                        next_attempt(k) \in Keys /\ status[next_attempt(k)] # "absent"
    BY DEF RetryingMeansReplaced
  <2>1. PICK n \in 0 .. MaxAttempts : ChainOf(k[1], n)
    BY <1>2, KeyParts DEF AloneInv, ChainInv
  <2>2. /\ k = <<k[1], k[2]>> /\ k[1] \in Runs /\ k[2] \in Attempts
        /\ next_attempt(k) = <<k[1], k[2] + 1>>
    BY KeyParts DEF next_attempt
  <2>3. next_attempt(k) \in Keys <=> k[2] + 1 \in Attempts
    BY <2>2 DEF Keys
  <2>4. status[k] = "retrying" <=> k[2] < n
    BY <2>1, <2>2 DEF ChainOf
  <2>5. k[2] + 1 \in Attempts => (status[next_attempt(k)] # "absent" <=> k[2] + 1 <= n)
    BY <2>1, <2>2 DEF ChainOf
  <2> QED BY <2>2, <2>3, <2>4, <2>5, BoundsAssumption DEF Attempts
<1> QED BY <1>1, <1>2 DEF AloneInv

LEMMA StepsFollowTheChain ==
  ASSUME AloneInv, SerialNext PROVE AloneInv' /\ Chain!RunNext
<1>1. \A r \in Runs : Chain!RunStep(r)
  BY SerialSteps, MovesAreRunSteps DEF AloneStep
<1> QED BY <1>1, SerialSteps DEF AloneStep, Chain!RunNext

\* One transaction at a time, the strengthened invariant holds.
THEOREM AloneInvariant == SerialSpec => []AloneInv
<1>1. AloneInv /\ [SerialNext]_vars => AloneInv'
  BY StepsFollowTheChain, AloneStutters
<1> QED BY <1>1, AloneInit, PTL DEF SerialSpec

-----------------------------------------------------------------------------
(* Both ways of serving requests: overlapping, or one at a time.           *)

ServedAlone == ~overlap => AloneInv

LEMMA ComposedSteps ==
  /\ MCInit => ServedAlone
  /\ ServedAlone /\ [MCNext]_MCvars => ServedAlone'
<1>1. ASSUME ServedAlone, MCNext PROVE ServedAlone'
  BY <1>1, StepsFollowTheChain DEF MCNext, ServedAlone
<1>2. ASSUME ServedAlone, UNCHANGED MCvars PROVE ServedAlone'
  BY <1>2, AloneStutters DEF MCvars, ServedAlone
<1> QED BY <1>1, <1>2, AloneInit DEF MCInit, ServedAlone

\* One transaction at a time, a run is one chain of attempts in the table and a lease is
\* held exactly while a worker may be running the row (create_retry, _finalize), for
\* any number of runs, workers, sessions and attempts.
THEOREM RunsAreChains == MCSpec => []OneChainAlone
<1>1. ServedAlone => OneChainAlone
  BY ChainsHold DEF ServedAlone, OneChainAlone
<1> QED BY <1>1, ComposedSteps, PTL DEF MCSpec

\* One at a time, the table implements the single chain of attempts ReportRun promises
\* for each run (enqueue, claim_next, create_retry and the rest of ExecutionService,
\* ReportRetryService): each transaction is a step of it or changes nothing of it.
THEOREM TableImplementsReportRun == MCSpec => ImplementsReportRunAlone
<1> DEFINE attempt == [r \in Runs |-> IF overlap THEN 0 ELSE LastAttempt(r)]
           phase == [r \in Runs |-> IF overlap THEN "none" ELSE LastStatus(r)]
<1>1. MCInit => Followed!RunInit
  BY AloneInit DEF MCInit, Followed!RunInit, LastStatus
<1>2. ServedAlone /\ [MCNext]_MCvars => [Followed!RunNext]_<<attempt, phase>>
  <2> SUFFICES ASSUME ServedAlone, [MCNext]_MCvars
               PROVE  Followed!RunNext \/ UNCHANGED <<attempt, phase>>
    OBVIOUS
  <2>1. CASE overlap /\ overlap'
    BY <2>1
  <2>2. CASE ~overlap /\ ~overlap' /\ SerialNext
    <3>1. Chain!RunNext
      BY <2>2, StepsFollowTheChain DEF ServedAlone
    <3> QED BY <2>2, <3>1
         DEF Chain!RunNext, Chain!RunStep, Chain!Submit, Chain!HandOut, Chain!Start,
             Chain!Replace, Chain!End, Chain!Ended, Chain!Moves,
             Followed!RunNext, Followed!RunStep, Followed!Submit, Followed!HandOut,
             Followed!Start, Followed!Replace, Followed!End, Followed!Ended, Followed!Moves
  <2>3. CASE UNCHANGED MCvars
    BY <2>3 DEF MCvars, vars, LastStatus, LastAttempt
  <2> QED BY <2>1, <2>2, <2>3 DEF MCNext
<1> QED BY <1>1, <1>2, ComposedSteps, PTL
      DEF MCSpec, ImplementsReportRunAlone, Followed!RunSpec
=============================================================================

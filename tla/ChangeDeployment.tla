-------------------------- MODULE ChangeDeployment --------------------------
(***************************************************************************)
(* Governed changes to one object of a TM1 server (a cube's rules, a set   *)
(* of cells, a TurboIntegrator process) and approved process runs:         *)
(* ChangeService and the tm1_changes table.                                *)
(*                                                                         *)
(* The database transaction of a request stays open across its calls to    *)
(* TM1, and TM1 takes part in no transaction: a request is a sequence of   *)
(* TM1 calls, each of which may be confirmed, refused, or left without an  *)
(* answer (TM1OutcomeUnknownError), and its row changes only when it       *)
(* commits.  execute, reject and rollback lock the row of their change;    *)
(* create_change reads its author's open drafts without a lock and writes  *)
(* them when it commits.                                                   *)
(*                                                                         *)
(* "update" stands for update_rules, update_process and write_cells,       *)
(* which differ only in the TM1 calls they make, and "create" for          *)
(* create_process and create_view.  write_cells and create_view record as  *)
(* applied what their check read; the others read once more.               *)
(***************************************************************************)
EXTENDS Integers

CONSTANTS Sessions,   \* requests that can be open at once
          Authors,
          Contents,   \* what the object can hold
          Absent,     \* the object does not exist
          MaxChanges, \* bound: changes ever drafted
          MaxEdits    \* bound: edits made in TM1 by other means

ASSUME ChangesAssumption ==
  MaxChanges \in Nat /\ MaxEdits \in Nat /\ Absent \notin Contents

VARIABLES rows,     \* tm1_changes
          content,  \* what TM1 holds
          edits,    \* edits made in TM1 by other means so far
          starts,   \* how often requests that did not die asked TM1 to perform each
                    \* run, 2 for more than once
          session   \* each open request

vars == <<rows, content, edits, starts, session>>

Changes  == 1 .. MaxChanges
Held     == Contents \cup {Absent}
Kinds    == {"create", "update", "delete", "run"}
Statuses == {"draft", "executed", "failed", "unknown",
             "rejected", "superseded", "rolled_back"}   \* "none": no such row

Idle == [op |-> "idle"]

Row == [status : {"none"}] \cup
       [status : Statuses, author : Authors, kind : Kinds, new : Held,
        valid : BOOLEAN, base : Held, prev : Held, applied : Held]

\* Where an execution is, and what it came to: execute_process, or any other write,
\* succeeds, is refused, or ends without TM1 having confirmed it.
ExecuteSteps == {"snapshot", "write", "check", "record", "restore", "undo", "undo_unknown"}
Outcomes     == {"executed", "failed", "unknown"}

Requests ==
       {Idle}
  \cup [op : {"propose"}, author : Authors, kind : Kinds, new : Held,
        drafts : SUBSET Changes, at : {"checking", "saving"}, base : Held, valid : BOOLEAN]
  \cup [op : {"execute"}, id : Changes, at : ExecuteSteps \cup Outcomes, prev : Held, applied : Held]
  \cup [op : {"rollback"}, id : Changes, at : {"write", "rolled_back"}]

TypeOK ==
  /\ rows \in [Changes -> Row]
  /\ content \in Held
  /\ edits \in 0 .. MaxEdits
  /\ starts \in [Changes -> 0 .. 2]
  /\ session \in [Sessions -> Requests]

Init ==
  /\ rows = [i \in Changes |-> [status |-> "none"]]
  /\ content \in Held
  /\ edits = 0
  /\ starts = [i \in Changes |-> 0]
  /\ session = [s \in Sessions |-> Idle]

-----------------------------------------------------------------------------
\* The row is locked from the status check of execute or rollback to its commit.
Locked(i) ==
  \E s \in Sessions : session[s].op \in {"execute", "rollback"} /\ session[s].id = i

Open(s, request) == session[s] = Idle /\ session' = [session EXCEPT ![s] = request]
Goto(s, step)    == session' = [session EXCEPT ![s].at = step]
Close(s)         == session' = [session EXCEPT ![s] = Idle]

(***************************************************************************)
(* create_change.                                                          *)
(***************************************************************************)

\* list_open_drafts; a draft with the same fingerprint is simply returned.
OpenDrafts(a, kind) ==
  {i \in Changes : rows[i].status = "draft" /\ rows[i].author = a /\ rows[i].kind = kind}

BeginPropose(s, a, kind, new) ==
  /\ kind \in {"delete", "run"} <=> new = Absent
  /\ \A i \in OpenDrafts(a, kind) : rows[i].new # new
  /\ Open(s, [op |-> "propose", author |-> a, kind |-> kind, new |-> new,
              drafts |-> OpenDrafts(a, kind), at |-> "checking", base |-> Absent, valid |-> FALSE])
  /\ UNCHANGED <<rows, content, edits, starts>>

\* Existence checks, the dry run's verdict, and base_fingerprint: none for a
\* create or a run, nor for a draft that can never be applied.
Validate(s, valid) ==
  LET txn == session[s] IN
  /\ txn.op = "propose" /\ txn.at = "checking"
  /\ txn.kind = "create" => content = Absent
  /\ txn.kind \in {"update", "delete"} => content # Absent
  /\ session' = [session EXCEPT ![s].at = "saving", ![s].valid = valid,
                                ![s].base = IF txn.kind \in {"update", "delete"} /\ valid
                                              THEN content ELSE Absent]
  /\ UNCHANGED <<rows, content, edits, starts>>

\* uq_tm1_changes_open_draft: one open draft per author and object.
OneOpenDraft(table) ==
  \A i, j \in Changes :
    table[i].status = "draft" /\ table[j].status = "draft" /\ table[i].author = table[j].author => i = j

\* The drafts read at the start are superseded, whatever they are by now.
Superseding(txn, i) ==
  [j \in Changes |->
     IF j = i THEN [status |-> "draft", author |-> txn.author, kind |-> txn.kind, new |-> txn.new,
                    valid |-> txn.valid, base |-> txn.base, prev |-> Absent, applied |-> Absent]
     ELSE IF j \in txn.drafts THEN [rows[j] EXCEPT !.status = "superseded"]
     ELSE rows[j]]

CommitPropose(s, i) ==
  LET txn == session[s] IN
  /\ txn.op = "propose" /\ txn.at = "saving"
  /\ \A j \in Changes : rows[j].status = "none" <=> j >= i
  /\ \A j \in txn.drafts : ~Locked(j)
  /\ OneOpenDraft(Superseding(txn, i))
  /\ rows' = Superseding(txn, i)
  /\ Close(s)
  /\ UNCHANGED <<content, edits, starts>>

(***************************************************************************)
(* execute_change.                                                         *)
(***************************************************************************)

\* Mutant: execution does not look for drift.
Undrifted_Never(i) == TRUE

\* Drift: the object as it was when the change was drafted.
Undrifted(i) == rows[i].kind \in {"update", "delete"} => content = rows[i].base

BeginExecute(s, i) ==
  /\ ~Locked(i)
  /\ rows[i].status = "draft"
  /\ rows[i].valid
  /\ Undrifted(i)
  /\ Open(s, [op |-> "execute", id |-> i, at |-> "snapshot", prev |-> Absent, applied |-> Absent])
  /\ UNCHANGED <<rows, content, edits, starts>>

At(s, step) == session[s].op = "execute" /\ session[s].at = step

Target(s) == rows[session[s].id]

\* previous_content, read again just before the write; a create re-checks
\* that the object does not exist.  A run has no snapshot.
Snapshot(s) ==
  /\ At(s, "snapshot")
  /\ Target(s).kind = "create" => content = Absent
  /\ Target(s).kind \in {"update", "delete"} => content # Absent
  /\ session' = [session EXCEPT ![s].at = "write",
                                ![s].prev = IF Target(s).kind = "run" THEN Absent ELSE content]
  /\ UNCHANGED <<rows, content, edits, starts>>

\* The write is sent once.  delete_process is not checked afterwards.
Write(s) ==
  /\ At(s, "write") /\ Target(s).kind # "run"
  /\ \/ /\ content' = Target(s).new
        /\ Goto(s, IF Target(s).kind = "delete" THEN "executed" ELSE "check")
     \/ /\ content' \in {content, Target(s).new}
        /\ Goto(s, "unknown")
  /\ UNCHANGED <<rows, edits, starts>>

\* Mutant: a run that was not confirmed is left as a draft.
Run_Raises(s) ==
  /\ At(s, "write") /\ Target(s).kind = "run"
  /\ \/ /\ starts' = [starts EXCEPT ![session[s].id] = IF @ = 0 THEN 1 ELSE 2]
        /\ \/ \E outcome \in {"executed", "failed"} : Goto(s, outcome)
           \/ Close(s)
     \/ /\ Goto(s, "failed")
        /\ UNCHANGED starts
  /\ UNCHANGED <<rows, content, edits>>

\* _run: whatever TM1 says of the run, or does not say, is recorded.  A run
\* that TM1 refused to start has failed.
Run(s) ==
  /\ At(s, "write") /\ Target(s).kind = "run"
  /\ \/ /\ starts' = [starts EXCEPT ![session[s].id] = IF @ = 0 THEN 1 ELSE 2]
        /\ \E outcome \in Outcomes : Goto(s, outcome)
     \/ /\ Goto(s, "failed")
        /\ UNCHANGED starts
  /\ UNCHANGED <<rows, content, edits>>

\* Compile, rule check or read-back.  Findings are followed by a restore; an
\* exception by _restore_then_raise.
Check(s) ==
  /\ At(s, "check")
  /\ \E next \in {"record", "restore", "undo", "undo_unknown"} : Goto(s, next)
  /\ UNCHANGED <<rows, content, edits, starts>>

\* "applied": what this change left on the server, read back.
Record(s) ==
  /\ At(s, "record")
  /\ \/ /\ content # Absent
        /\ session' = [session EXCEPT ![s].at = "executed", ![s].applied = content]
     \/ Goto(s, "unknown")
  /\ UNCHANGED <<rows, content, edits, starts>>

\* Findings: the snapshot is written back, or what was created is removed, and then
\* the change has failed.
Restore(s) ==
  /\ At(s, "restore")
  /\ \/ /\ content' = session[s].prev
        /\ Goto(s, "failed")
     \/ /\ content' \in {content, session[s].prev}
        /\ Goto(s, "unknown")
  /\ UNCHANGED <<rows, edits, starts>>

\* _restore_then_raise: a failing restore is logged and the error of the check
\* is raised; only TM1OutcomeUnknownError is recorded.
RestoreThenRaise(s) ==
  /\ At(s, "undo") \/ At(s, "undo_unknown")
  /\ content' \in {content, session[s].prev}
  /\ IF session[s].at = "undo" THEN Close(s) ELSE Goto(s, "unknown")
  /\ UNCHANGED <<rows, edits, starts>>

\* TM1 refuses a call, or it was never sent: the exception ends the request
\* and rolls its transaction back.
Refused(s) ==
  /\ \/ \E step \in {"snapshot", "write", "record", "restore"} : At(s, step)
     \/ session[s].op = "rollback" /\ session[s].at = "write"
     \/ session[s].op = "propose"
  /\ At(s, "write") => Target(s).kind # "run"
  /\ Close(s)
  /\ UNCHANGED <<rows, content, edits, starts>>

CommitExecute(s) ==
  LET txn == session[s] IN
  /\ txn.op = "execute" /\ txn.at \in Outcomes
  /\ rows' = [rows EXCEPT ![txn.id].status = txn.at, ![txn.id].prev = txn.prev,
                          ![txn.id].applied = txn.applied]
  /\ Close(s)
  /\ UNCHANGED <<content, edits, starts>>

Reject(i) ==
  /\ ~Locked(i)
  /\ rows[i].status = "draft"
  /\ rows' = [rows EXCEPT ![i].status = "rejected"]
  /\ UNCHANGED <<content, edits, starts, session>>

(***************************************************************************)
(* rollback_change.                                                        *)
(***************************************************************************)

\* What the change left on the server is still there.
AsApplied(i) ==
  \/ rows[i].kind \in {"create", "delete"} /\ content = Absent
  \/ rows[i].kind \in {"create", "update"} /\ content = rows[i].applied

\* Mutant: a rollback does not look at what is on the server.
BeginRollback_Unchecked(s, i) ==
  /\ ~Locked(i)
  /\ rows[i].status = "executed"
  /\ rows[i].kind # "run"
  /\ Open(s, [op |-> "rollback", id |-> i, at |-> "write"])
  /\ UNCHANGED <<rows, content, edits, starts>>

BeginRollback(s, i) ==
  /\ ~Locked(i)
  /\ rows[i].status = "executed"
  /\ rows[i].kind # "run"
  /\ AsApplied(i)
  /\ Open(s, [op |-> "rollback", id |-> i, at |-> "write"])
  /\ UNCHANGED <<rows, content, edits, starts>>

\* Without an answer the request fails and the change stays executed.
RollbackWrite(s) ==
  /\ session[s].op = "rollback" /\ session[s].at = "write"
  /\ \/ /\ content' = Target(s).prev
        /\ Goto(s, "rolled_back")
     \/ /\ content' \in {content, Target(s).prev}
        /\ Close(s)
  /\ UNCHANGED <<rows, edits, starts>>

CommitRollback(s) ==
  /\ session[s].op = "rollback" /\ session[s].at = "rolled_back"
  /\ rows' = [rows EXCEPT ![session[s].id].status = "rolled_back"]
  /\ Close(s)
  /\ UNCHANGED <<content, edits, starts>>

-----------------------------------------------------------------------------
\* The object is edited in TM1 by other means, a write that timed out and
\* lands late included.
Edit(c) ==
  /\ edits < MaxEdits
  /\ edits' = edits + 1
  /\ content' = c
  /\ UNCHANGED <<rows, starts, session>>

\* The process dies between two steps of a request; the database undoes its
\* transaction, TM1 nothing.
Crash(s) ==
  /\ session[s] # Idle
  /\ Close(s)
  /\ starts' = IF session[s].op = "execute" THEN [starts EXCEPT ![session[s].id] = 0] ELSE starts
  /\ UNCHANGED <<rows, content, edits>>

Request(s) ==
  \/ \E a \in Authors, kind \in Kinds, new \in Held : BeginPropose(s, a, kind, new)
  \/ \E valid \in BOOLEAN : Validate(s, valid)
  \/ \E i \in Changes : CommitPropose(s, i) \/ BeginExecute(s, i) \/ BeginRollback(s, i)
  \/ Snapshot(s) \/ Write(s) \/ Run(s) \/ Check(s) \/ Record(s) \/ Restore(s)
  \/ RestoreThenRaise(s) \/ Refused(s) \/ CommitExecute(s)
  \/ RollbackWrite(s) \/ CommitRollback(s)
  \/ Crash(s)

Next ==
  \/ \E s \in Sessions : Request(s)
  \/ \E i \in Changes : Reject(i)
  \/ \E c \in Held : Edit(c)

Spec == Init /\ [][Next]_vars

\* The same requests one at a time, with no edit in TM1 during one of them.
Busy == {s \in Sessions : session[s] # Idle}

SerialNext ==
  /\ Next
  /\ \A s, t \in Busy \cup Busy' : s = t
  /\ session' = session => Busy = {}

SerialSpec == Init /\ [][SerialNext]_vars

-----------------------------------------------------------------------------
\* Two requests never work on one change, and the change they work on is what
\* they took it to be until they commit (_lock: "one execution and one 409").
LockInv ==
  /\ \A s, t \in Sessions :
       /\ session[s].op \in {"execute", "rollback"} /\ session[t].op \in {"execute", "rollback"}
       /\ session[s].id = session[t].id
       => s = t
  /\ \A s \in Sessions :
       /\ session[s].op = "execute" => Target(s).status = "draft"
       /\ session[s].op = "rollback" => Target(s).status = "executed" /\ Target(s).kind # "run"

\* TM1 is asked to perform an approved run at most once by requests that live
\* to record it, whatever other requests died before ("Never retried", _run).
RunsOnce == \A i \in Changes : starts[i] <= 1

\* A run that such a request asked TM1 for is on record: its change is no longer
\* a draft someone might approve again, or is about to cease to be one.
RunsAreOnRecord ==
  \A i \in Changes :
    starts[i] > 0 =>
      \/ rows[i].status \notin {"none", "draft"}
      \/ \E s \in Sessions : session[s].op = "execute" /\ session[s].id = i /\ session[s].at \in Outcomes

DraftsExist ==
  \A s \in Sessions : session[s].op = "propose" =>
    \A i \in session[s].drafts : rows[i].status # "none"

\* The inductive invariant of overlapping requests.
ChangesInv == TypeOK /\ LockInv /\ DraftsExist /\ RunsOnce /\ RunsAreOnRecord

\* The lifecycle the model class documents: draft, then executed, failed,
\* unknown, rejected or superseded; executed, then rolled back; nothing else.
Lifecycle ==
  \A i \in Changes :
     \/ rows'[i].status = rows[i].status
     \/ rows[i].status = "none" /\ rows'[i].status = "draft"
     \/ rows[i].status = "draft" /\ rows'[i].status \in Outcomes \cup {"rejected", "superseded"}
     \/ rows[i].status = "executed" /\ rows'[i].status = "rolled_back"

\* A write overwrites only what the author of the change saw (execute_change:
\* "refuse, and say so, rather than lose someone's work").
OverwritesOnlyItsBase ==
  \A s \in Sessions :
     At(s, "write") /\ session'[s] # session[s] /\ content' # content
       /\ Target(s).kind \in {"update", "delete"} =>
       content = Target(s).base

\* Rolling back puts back exactly what the change was drafted against.
RollbackRestoresBase ==
  \A i \in Changes :
     rows[i].status = "executed" /\ rows'[i].status = "rolled_back" =>
       content = IF rows[i].kind = "create" THEN Absent ELSE rows[i].base

\* The rollback of a change only ever overwrites what that change left there
\* (rollback_change: "never over later edits").
RollbackKeepsLaterEdits ==
  \A s \in Sessions :
     session[s].op = "rollback" /\ session'[s] # session[s] /\ content' # content =>
       AsApplied(session[s].id)

\* A change that is still a draft has left nothing of itself on the server
\* (_restore_then_raise: "a failure never leaves an unchecked change").
FailureLeavesNothing ==
  [][\A s \in Sessions :
       session[s].op = "execute" /\ Target(s).kind \in {"create", "update"}
         /\ session'[s] = Idle /\ rows' = rows =>
         content' # Target(s).new \/ Target(s).new = session[s].prev
           \/ session[s].at \in {"snapshot", "write"}]_vars
=============================================================================

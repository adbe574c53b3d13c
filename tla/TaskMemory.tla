----------------------------- MODULE TaskMemory -----------------------------
(***************************************************************************)
(* The tasks of one conversation: turns that run side by side begin, fold  *)
(* tool results into and end the conversation's task under its row lock;   *)
(* its owner edits it and opens its page, which reads drafted changes back *)
(* without the lock; changes are decided elsewhere meanwhile.              *)
(***************************************************************************)
EXTENDS Naturals, FiniteSetsExt

CONSTANTS Tasks, Turns, Changes, Findings, None

VARIABLES
  task,    \* per task: its committed row, or None
  change,  \* per change: its own record's status, "none" before it is drafted
  turn,    \* per turn: the task it began with, the row it has locked
  page,    \* what an opened page has read and will save
  torn     \* tasks whose row a page saved over a newer one

vars == <<task, change, turn, page, torn>>

\* STATUSES by what the code does with them: blocked is treated as
\* waiting_for_user, failed as completed, cancelled as archived.
Statuses == {"active", "waiting_for_user", "waiting_for_approval", "completed", "archived"}
SETTABLE == Statuses \ {"waiting_for_approval"}
Decisions == {"executed", "rejected"}
Rows == [status : Statuses, findings : SUBSET Findings,
         actions : [Changes -> {"none", "draft"} \cup Decisions], born : Nat]

Idle == [at |-> "idle", of |-> None, on |-> None, row |-> None]
Over == [Idle EXCEPT !.at = "done"]
Closing == [on |-> None, row |-> None]

TypeOK ==
  /\ task \in [Tasks -> Rows \cup {None}]
  /\ change \in [Changes -> {"none", "draft"} \cup Decisions]
  /\ turn \in [Turns -> [at : {"idle", "locked", "working", "done"}, of : Tasks \cup {None},
                         on : Tasks \cup {None}, row : Rows \cup {None}]]
  /\ page \in [on : Tasks \cup {None}, row : Rows \cup {None}]
  /\ torn \subseteq Tasks

Init ==
  /\ task = [k \in Tasks |-> None]
  /\ change = [c \in Changes |-> "none"]
  /\ turn = [q \in Turns |-> Idle]
  /\ page = Closing
  /\ torn = {}

-----------------------------------------------------------------------------
Known == {k \in Tasks : task[k] # None}
Born == {task[k].born : k \in Known} \cup {turn[q].row.born : q \in {p \in Turns : turn[p].on # None}}
Fresh == [status |-> "active", findings |-> {}, actions |-> [c \in Changes |-> "none"],
          born |-> Max(Born \cup {0}) + 1]

\* TaskMemoryService.current: the newest task that is not archived or cancelled.
Current ==
  LET open == {k \in Known : task[k].status # "archived"}
  IN  IF open = {} THEN None
      ELSE CHOOSE k \in open : \A j \in open : task[j].born <= task[k].born

\* _locked: nobody else holds the row.
Lockable(k) == \A q \in Turns : turn[q].on # k

HasDraft(r) == \E c \in Changes : r.actions[c] = "draft"

Refreshed_Assumed(r) ==
  [r EXCEPT !.actions = [c \in Changes |-> IF r.actions[c] = "draft" /\ change[c] # "draft"
                                           THEN "executed" ELSE r.actions[c]]]

\* refresh_actions: each drafted change's status is read back, and a task that
\* waited for approval goes on once none is left to approve.
Refreshed(r) ==
  LET back == [c \in Changes |-> IF r.actions[c] = "none" THEN "none" ELSE change[c]]
      new == [r EXCEPT !.actions = back]
  IN  IF new # r /\ r.status = "waiting_for_approval" /\ ~HasDraft(new)
      THEN [new EXCEPT !.status = "active"] ELSE new

Resumed(r) == IF r.status = "waiting_for_user" THEN [r EXCEPT !.status = "active"] ELSE r

\* begin_turn on the task the caller named or the conversation's current one: a
\* task that waited for the person goes on.
Continue(q) ==
  /\ turn[q].at = "idle"
  /\ \E k \in Known :
       /\ Lockable(k)
       /\ turn' = [turn EXCEPT ![q] = [at |-> "locked", of |-> k, on |-> k,
                                       row |-> Refreshed(Resumed(task[k]))]]
  /\ UNCHANGED <<task, change, page, torn>>

\* begin_turn starts a task: asked for, or none is current and tools are used.
Create(q) ==
  /\ turn[q].at = "idle"
  /\ \E k \in Tasks \ Known :
       /\ \A p \in Turns : turn[p].on # k
       /\ turn' = [turn EXCEPT ![q] = [at |-> "locked", of |-> k, on |-> k, row |-> Fresh]]
  /\ UNCHANGED <<task, change, page, torn>>

\* _release_db before the next model call, or get_db at the end: the locked row
\* is committed.
Release(q) ==
  /\ turn[q].at \in {"locked", "done"} /\ turn[q].on # None
  /\ task' = [task EXCEPT ![turn[q].on] = turn[q].row]
  /\ turn' = [turn EXCEPT ![q] = IF @.at = "done" THEN Over
                                 ELSE [@ EXCEPT !.at = "working", !.on = None, !.row = None]]
  /\ UNCHANGED <<change, page, torn>>

\* A turn works on the locked row of k, read again under the lock.
Lock(q, k, row) ==
  turn' = [turn EXCEPT ![q] = [@ EXCEPT !.at = "locked", !.on = k, !.row = row]]

RecordTool_Replaces(q) ==
  /\ turn[q].at = "working" /\ Current # None /\ Lockable(Current)
  /\ \E c \in Changes :
       /\ change[c] = "none" /\ change' = [change EXCEPT ![c] = "draft"]
       /\ Lock(q, Current, [Fresh EXCEPT !.actions[c] = "draft", !.status = task[Current].status])
  /\ UNCHANGED <<task, page, torn>>

\* record_tool: a change a tool drafted is added to the conversation's current
\* task (with no current task, or an error in the savepoint, it is not).
RecordTool(q) ==
  /\ turn[q].at = "working"
  /\ \E c \in Changes :
       /\ change[c] = "none" /\ change' = [change EXCEPT ![c] = "draft"]
       /\ \/ /\ Current # None /\ Lockable(Current)
             /\ Lock(q, Current, [task[Current] EXCEPT !.actions[c] = "draft"])
          \/ UNCHANGED turn
  /\ UNCHANGED <<task, page, torn>>

\* apply_update by the assistant (update_task_memory), on the current task.
Update(q) ==
  /\ turn[q].at = "working" /\ Current # None /\ Lockable(Current)
  /\ \/ \E f \in Findings : Lock(q, Current, [task[Current] EXCEPT !.findings = @ \cup {f}])
     \/ \E s \in SETTABLE : Lock(q, Current, [task[Current] EXCEPT !.status = s])
  /\ UNCHANGED <<task, change, page, torn>>

\* end_turn: the task the turn began with waits for the person or for approval.
Waiting(r) ==
  IF r.status # "active" THEN r
  ELSE [r EXCEPT !.status = IF HasDraft(r) THEN "waiting_for_approval" ELSE "waiting_for_user"]

EndTurn(q) ==
  /\ turn[q].at = "working" /\ Lockable(turn[q].of)
  /\ turn' = [turn EXCEPT ![q] = [@ EXCEPT !.at = "done", !.on = turn[q].of,
                                           !.row = Waiting(Refreshed(task[turn[q].of]))]]
  /\ UNCHANGED <<task, change, page, torn>>

\* The turn is cut or fails: what it had not committed is lost.
Cut(q) ==
  /\ turn[q].at \in {"locked", "working"}
  /\ turn' = [turn EXCEPT ![q] = Over]
  /\ UNCHANGED <<task, change, page, torn>>

-----------------------------------------------------------------------------
\* PATCH /ai/tasks/{id}: its owner renames it, adds to it or sets its status.
Edit(k) ==
  /\ k \in Known /\ Lockable(k)
  /\ \E f \in SUBSET Findings, s \in SETTABLE :
       task' = [task EXCEPT ![k].findings = @ \cup f, ![k].status = s]
  /\ UNCHANGED <<change, turn, page, torn>>

\* GET /ai/tasks/{id} reads the row and refreshes it, without the lock;
OpenPage(k) ==
  /\ page = Closing /\ k \in Known
  /\ Refreshed(task[k]) # task[k]
  /\ page' = [on |-> k, row |-> Refreshed(task[k])]
  /\ UNCHANGED <<task, change, turn, torn>>

\* its flush waits for the row and writes the columns it changed: the whole state
\* it read, and the status if that changed.
SavePage ==
  /\ page.on # None /\ Lockable(page.on)
  /\ LET k == page.on
         r == task[k]
         new == [r EXCEPT !.findings = page.row.findings, !.actions = page.row.actions,
                          !.status = IF page.row.status = "active" THEN "active" ELSE @]
     IN  /\ task' = [task EXCEPT ![k] = new]
         /\ torn' = IF new # Refreshed(r) THEN torn \cup {k} ELSE torn
  /\ page' = Closing
  /\ UNCHANGED <<change, turn>>

\* A drafted change is executed or rejected in the console.
Decide(c) ==
  /\ change[c] = "draft"
  /\ \E d \in Decisions : change' = [change EXCEPT ![c] = d]
  /\ UNCHANGED <<task, turn, page, torn>>

TurnStep(q) ==
  Continue(q) \/ Create(q) \/ Release(q) \/ RecordTool(q) \/ Update(q) \/ EndTurn(q) \/ Cut(q)

\* The requests of the tasks page.
Request == (\E k \in Tasks : Edit(k) \/ OpenPage(k)) \/ SavePage

Next ==
  \/ \E q \in Turns : TurnStep(q)
  \/ Request
  \/ \E c \in Changes : Decide(c)

Spec == Init /\ [][Next]_vars

-----------------------------------------------------------------------------
\* However turns, edits and decisions overlap, a task that waits for approval has
\* a drafted change to approve on its record, unless a page saved over it
\* (end_turn, refresh_actions).
ApprovalIsPending ==
  \A k \in Known \ torn : task[k].status = "waiting_for_approval" => HasDraft(task[k])

\* Nothing recorded in a task is removed by a turn or an edit ("nothing recorded
\* before is changed or removed"; _locked: "instead of the second erasing the
\* first"), unless a page saves over it.
NothingErased ==
  \A k \in Known \ torn' :
     /\ task[k].findings \subseteq task'[k].findings
     /\ \A c \in Changes : task[k].actions[c] # "none" => task'[k].actions[c] # "none"

\* A draft stays on record as a draft only while it is one: what a task says of a
\* change is never ahead of the change's own record, and a decision it shows was
\* made (refresh_actions: "read from the record, not from recollection").
RecordsAreTrue ==
  \A k \in Known, c \in Changes :
    task[k].actions[c] \in {"none", "draft", change[c]} /\ (change[c] = "none" => task[k].actions[c] = "none")
=============================================================================

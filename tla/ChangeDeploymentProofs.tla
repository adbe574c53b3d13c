----------------------- MODULE ChangeDeploymentProofs -----------------------
(***************************************************************************)
(* For any number of overlapping requests, changes, edits in TM1 and       *)
(* crashes: the row lock keeps each change to one request whose view of it *)
(* stays true, and an approved run is started at most once.  For requests  *)
(* one at a time: no write and no rollback loses an edit, and a rollback   *)
(* restores what the change was drafted against.  For a change that writes *)
(* cells: what it puts where, and what comes back.  For the rules of       *)
(* environments: no road leads round the people who decide.                *)
(***************************************************************************)
EXTENDS MCChangeDeployment, WellFoundedInduction, FiniteSetTheorems, TLAPS

USE DEF Changes

\* What a change request that is open looks like.
LEMMA RequestFields ==
  ASSUME TypeOK, NEW s \in Sessions
  PROVE  /\ session[s].op = "execute" =>
              /\ session[s] \in [op : {"execute"}, id : Changes, at : ExecuteSteps \cup Outcomes,
                                 prev : Held, applied : Held]
              /\ session[s].id \in Changes /\ session[s].prev \in Held /\ session[s].applied \in Held
         /\ session[s].op = "rollback" =>
              /\ session[s] \in [op : {"rollback"}, id : Changes, at : {"write", "rolled_back"}]
              /\ session[s].id \in Changes
         /\ session[s].op = "propose" =>
              /\ session[s] \in [op : {"propose"}, author : Authors, kind : Kinds, new : Held,
                                 drafts : SUBSET Changes, at : {"checking", "saving"}, base : Held,
                                 valid : BOOLEAN]
  BY DEF TypeOK, Requests, Idle

\* The three things a step does to its session keep the requests well formed.
LEMMA SessionStep ==
  ASSUME TypeOK, NEW s \in Sessions, NEW req \in Requests,
         session' = [session EXCEPT ![s] = req]
  PROVE  /\ session' \in [Sessions -> Requests]
         /\ \A t \in Sessions : session'[t] = IF t = s THEN req ELSE session[t]
  BY DEF TypeOK

\* No request is one of the requests.
LEMMA IdleRequest == Idle \in Requests /\ Idle.op = "idle"
  BY DEF Requests, Idle

\* A change that exists has every column.
LEMMA RowFields ==
  ASSUME TypeOK, NEW i \in Changes, rows[i].status # "none"
  PROVE  rows[i] \in [status : Statuses, author : Authors, kind : Kinds, new : Held,
                      valid : BOOLEAN, base : Held, prev : Held, applied : Held]
  BY DEF TypeOK, Row

Working(r) == r.op \in {"execute", "rollback"}

\* A step that leaves the table alone and neither takes a row nor changes the
\* row it has keeps the locks sound.
LEMMA LocksKept ==
  ASSUME LockInv, NEW s \in Sessions, rows' = rows,
         \A t \in Sessions : t # s => session'[t] = session[t],
         \/ ~Working(session'[s])
         \/ session'[s].op = session[s].op /\ session'[s].id = session[s].id
  PROVE  LockInv'
  BY DEF LockInv, Target, Working

\* The same for the drafts a proposal has read.
LEMMA DraftsKept ==
  ASSUME DraftsExist, NEW s \in Sessions, rows' = rows,
         \A t \in Sessions : t # s => session'[t] = session[t],
         session'[s].op # "propose"
  PROVE  DraftsExist'
  BY DEF DraftsExist

\* A step that leaves the table and the starts alone, of a request that has no
\* outcome to record yet, keeps every started run on record.
LEMMA RecordKept ==
  ASSUME RunsOnce, RunsAreOnRecord, NEW s \in Sessions, rows' = rows, starts' = starts,
         \A t \in Sessions : t # s => session'[t] = session[t],
         session[s].op # "execute" \/ session[s].at \notin Outcomes
  PROVE  RunsOnce' /\ RunsAreOnRecord'
  BY DEF RunsOnce, RunsAreOnRecord

\* An executing request moves on to another of its steps.
LEMMA StepTyped ==
  ASSUME TypeOK, NEW s \in Sessions, session[s].op = "execute",
         NEW step \in ExecuteSteps \cup Outcomes, Goto(s, step)
  PROVE  /\ session' \in [Sessions -> Requests]
         /\ \A t \in Sessions : t # s => session'[t] = session[t]
         /\ session'[s] = [session[s] EXCEPT !.at = step]
         /\ session'[s].op = "execute" /\ session'[s].id = session[s].id /\ session'[s].at = step
<1> DEFINE next == [session[s] EXCEPT !.at = step]
<1>1. session[s] \in [op : {"execute"}, id : Changes, at : ExecuteSteps \cup Outcomes,
                      prev : Held, applied : Held]
  BY RequestFields
<1>2. next \in [op : {"execute"}, id : Changes, at : ExecuteSteps \cup Outcomes,
                prev : Held, applied : Held]
  BY <1>1
<1>3. next \in Requests
  BY <1>2 DEF Requests
<1>4. session' = [session EXCEPT ![s] = next]
  BY DEF Goto
<1>5. /\ session' \in [Sessions -> Requests]
      /\ \A t \in Sessions : session'[t] = IF t = s THEN next ELSE session[t]
  BY <1>3, <1>4, SessionStep
<1>6. next.op = "execute" /\ next.id = session[s].id /\ next.at = step
  BY <1>1
<1> QED
  BY <1>5, <1>6

\* A request ends.
LEMMA CloseTyped ==
  ASSUME TypeOK, NEW s \in Sessions, Close(s)
  PROVE  /\ session' \in [Sessions -> Requests]
         /\ \A t \in Sessions : t # s => session'[t] = session[t]
         /\ session'[s] = Idle /\ session'[s].op = "idle"
<1>1. session' = [session EXCEPT ![s] = Idle]
  BY DEF Close
<1> QED
  BY <1>1, IdleRequest, SessionStep

\* A request starts.
LEMMA OpenTyped ==
  ASSUME TypeOK, NEW s \in Sessions, NEW req \in Requests, Open(s, req)
  PROVE  /\ session[s] = Idle /\ session[s].op = "idle"
         /\ session' \in [Sessions -> Requests]
         /\ \A t \in Sessions : t # s => session'[t] = session[t]
         /\ session'[s] = req
<1>1. session[s] = Idle /\ session' = [session EXCEPT ![s] = req]
  BY DEF Open
<1> QED
  BY <1>1, IdleRequest, SessionStep


\* The drafts of its author are read when a proposal starts.
LEMMA ProposeKeeps ==
  ASSUME ChangesInv, NEW s \in Sessions, NEW a \in Authors, NEW kind \in Kinds, NEW new \in Held,
         BeginPropose(s, a, kind, new)
  PROVE  ChangesInv'
<1> DEFINE req == [op |-> "propose", author |-> a, kind |-> kind, new |-> new,
                   drafts |-> OpenDrafts(a, kind), at |-> "checking", base |-> Absent,
                   valid |-> FALSE]
<1>0. TypeOK /\ LockInv /\ DraftsExist /\ RunsOnce /\ RunsAreOnRecord
  BY DEF ChangesInv
<1>1. /\ OpenDrafts(a, kind) \in SUBSET Changes
      /\ \A i \in OpenDrafts(a, kind) : rows[i].status # "none"
  BY DEF OpenDrafts
<1>2. req \in Requests /\ req.op = "propose" /\ req.drafts = OpenDrafts(a, kind)
  BY <1>1 DEF Requests, Held
<1>3. Open(s, req) /\ rows' = rows /\ content' = content /\ edits' = edits /\ starts' = starts
  BY DEF BeginPropose
<1> HIDE DEF req
<1>4. /\ session[s].op = "idle" /\ session'[s] = req
      /\ session' \in [Sessions -> Requests]
      /\ \A t \in Sessions : t # s => session'[t] = session[t]
  BY <1>0, <1>2, <1>3, OpenTyped
<1>5. TypeOK'
  BY <1>0, <1>3, <1>4 DEF TypeOK
<1>6. LockInv'
  BY <1>0, <1>2, <1>3, <1>4, LocksKept DEF Working
<1>7. RunsOnce' /\ RunsAreOnRecord'
  BY <1>0, <1>3, <1>4, RecordKept
<1>8. DraftsExist'
  BY <1>0, <1>1, <1>2, <1>3, <1>4 DEF DraftsExist
<1> QED
  BY <1>5, <1>6, <1>7, <1>8 DEF ChangesInv

\* Validation reads TM1 and notes the base it saw.
LEMMA ValidateKeeps ==
  ASSUME ChangesInv, NEW s \in Sessions, NEW valid \in BOOLEAN, Validate(s, valid)
  PROVE  ChangesInv'
<1>0. TypeOK /\ LockInv /\ DraftsExist /\ RunsOnce /\ RunsAreOnRecord
  BY DEF ChangesInv
<1> DEFINE seen == IF session[s].kind \in {"update", "delete"} /\ valid THEN content ELSE Absent
           next == [session[s] EXCEPT !.at = "saving", !.valid = valid, !.base = seen]
<1>1. /\ session[s].op = "propose"
      /\ session' = [session EXCEPT ![s] = next]
      /\ rows' = rows /\ content' = content /\ edits' = edits /\ starts' = starts
  BY DEF Validate
<1>2. seen \in Held
  BY <1>0 DEF TypeOK, Held
<1>3. session[s] \in [op : {"propose"}, author : Authors, kind : Kinds, new : Held,
                      drafts : SUBSET Changes, at : {"checking", "saving"}, base : Held,
                      valid : BOOLEAN]
  BY <1>0, <1>1, RequestFields
<1> HIDE DEF seen
<1>4. /\ next \in [op : {"propose"}, author : Authors, kind : Kinds, new : Held,
                   drafts : SUBSET Changes, at : {"checking", "saving"}, base : Held,
                   valid : BOOLEAN]
      /\ next.op = "propose" /\ next.drafts = session[s].drafts
  BY <1>2, <1>3
<1>5. next \in Requests
  BY <1>4 DEF Requests
<1> HIDE DEF next
<1>6. /\ session' \in [Sessions -> Requests]
      /\ \A t \in Sessions : session'[t] = IF t = s THEN next ELSE session[t]
  BY <1>0, <1>1, <1>5, SessionStep
<1>7. TypeOK'
  BY <1>0, <1>1, <1>6 DEF TypeOK
<1>8. LockInv'
  BY <1>0, <1>1, <1>4, <1>6, LocksKept DEF Working
<1>9. RunsOnce' /\ RunsAreOnRecord'
  BY <1>0, <1>1, <1>6, RecordKept
<1>10. DraftsExist'
  BY <1>0, <1>1, <1>4, <1>6 DEF DraftsExist
<1> QED
  BY <1>7, <1>8, <1>9, <1>10 DEF ChangesInv

\* A change of status of one row nobody else works on keeps the invariant.
LEMMA TableStep ==
  ASSUME ChangesInv, NEW W \in SUBSET Sessions,
         rows' \in [Changes -> Row], session' \in [Sessions -> Requests],
         UNCHANGED <<content, edits, starts>>,
         \A t \in Sessions \ W : session'[t] = session[t],
         \A t \in W : session'[t].op = "idle",
         \A t \in Sessions \ W : Working(session[t]) => rows'[session[t].id] = rows[session[t].id],
         \A i \in Changes : rows[i].status # "none" => rows'[i].status # "none",
         \A i \in Changes : rows'[i].status \in {"none", "draft"} => starts[i] = 0 \/ rows'[i] = rows[i],
         \A t \in W : session[t].op = "execute" /\ session[t].at \in Outcomes =>
                        rows'[session[t].id].status \notin {"none", "draft"}
  PROVE  ChangesInv'
<1>0. TypeOK /\ LockInv /\ DraftsExist /\ RunsOnce /\ RunsAreOnRecord
  BY DEF ChangesInv
<1>1. TypeOK'
  BY <1>0 DEF TypeOK
<1>2. LockInv'
  BY <1>0 DEF LockInv, Target, Working
<1>3. DraftsExist'
  <2> SUFFICES ASSUME NEW t \in Sessions, session'[t].op = "propose", NEW i \in session'[t].drafts
               PROVE  rows'[i].status # "none"
    BY DEF DraftsExist
  <2>1. t \notin W /\ session'[t] = session[t]
    OBVIOUS
  <2>2. i \in Changes
    BY <1>0, <2>1, RequestFields
  <2> QED
    BY <1>0, <2>1, <2>2 DEF DraftsExist
<1>4. RunsOnce'
  BY <1>0 DEF RunsOnce
<1>5. RunsAreOnRecord'
  <2> SUFFICES ASSUME NEW i \in Changes, starts[i] > 0,
                      rows'[i].status \in {"none", "draft"}
               PROVE  \E t \in Sessions : session'[t].op = "execute" /\ session'[t].id = i
                                          /\ session'[t].at \in Outcomes
    BY DEF RunsAreOnRecord
  <2>1. rows'[i] = rows[i]
    BY <1>0 DEF TypeOK
  <2>2. PICK t \in Sessions : session[t].op = "execute" /\ session[t].id = i
                              /\ session[t].at \in Outcomes
    BY <1>0, <2>1 DEF RunsAreOnRecord
  <2> QED
    BY <2>1, <2>2
<1> QED
  BY <1>1, <1>2, <1>3, <1>4, <1>5 DEF ChangesInv

\* A row nobody holds, or that is held by a request about to end, has not been
\* started if it is a draft.
LEMMA UnheldDraft ==
  ASSUME ChangesInv, NEW i \in Changes, rows[i].status \in {"none", "draft"},
         \A t \in Sessions : session[t].op = "execute" /\ session[t].id = i =>
                               session[t].at \notin Outcomes
  PROVE  starts[i] = 0
  BY DEF ChangesInv, RunsAreOnRecord, TypeOK

\* A new draft has a number nobody has worked on, and the drafts it replaces
\* are nobody's work.
LEMMA CommitProposeKeeps ==
  ASSUME ChangesInv, NEW s \in Sessions, NEW i \in Changes, CommitPropose(s, i)
  PROVE  ChangesInv'
<1>0. TypeOK /\ LockInv /\ DraftsExist /\ RunsOnce /\ RunsAreOnRecord
  BY DEF ChangesInv
<1> DEFINE txn == session[s]
<1>1. /\ txn.op = "propose"
      /\ rows' = Superseding(txn, i)
      /\ rows[i].status = "none"
      /\ \A j \in txn.drafts : ~Locked(j)
      /\ Close(s) /\ content' = content /\ edits' = edits /\ starts' = starts
  BY DEF CommitPropose
<1>2. txn \in [op : {"propose"}, author : Authors, kind : Kinds, new : Held,
               drafts : SUBSET Changes, at : {"checking", "saving"}, base : Held, valid : BOOLEAN]
  BY <1>0, <1>1, RequestFields
<1>3. /\ session' \in [Sessions -> Requests]
      /\ \A t \in Sessions : t # s => session'[t] = session[t]
      /\ session'[s].op = "idle"
  BY <1>0, <1>1, CloseTyped
<1> DEFINE draft == [status |-> "draft", author |-> txn.author, kind |-> txn.kind, new |-> txn.new,
                     valid |-> txn.valid, base |-> txn.base, prev |-> Absent, applied |-> Absent]
           replaced(j) == [rows[j] EXCEPT !.status = "superseded"]
<1>4. draft \in Row /\ draft.status = "draft"
  BY <1>2 DEF Row, Statuses, Held
<1>5. ASSUME NEW j \in txn.drafts
      PROVE  replaced(j) \in Row /\ replaced(j).status = "superseded"
  <2>1. j \in Changes /\ rows[j].status # "none"
    BY <1>0, <1>1, <1>2 DEF DraftsExist
  <2>2. rows[j] \in [status : Statuses, author : Authors, kind : Kinds, new : Held,
                     valid : BOOLEAN, base : Held, prev : Held, applied : Held]
    BY <1>0, <2>1, RowFields
  <2> QED
    BY <2>2 DEF Row, Statuses
<1>6. rows' = [j \in Changes |-> IF j = i THEN draft
                                 ELSE IF j \in txn.drafts THEN replaced(j) ELSE rows[j]]
  BY <1>1 DEF Superseding
<1> HIDE DEF draft, replaced
<1>7. /\ rows' \in [Changes -> Row]
      /\ rows'[i].status = "draft"
      /\ \A j \in Changes : j # i /\ j \in txn.drafts => rows'[j].status = "superseded"
      /\ \A j \in Changes : j # i /\ j \notin txn.drafts => rows'[j] = rows[j]
  BY <1>0, <1>4, <1>5, <1>6 DEF TypeOK
<1>8. ASSUME NEW t \in Sessions, t # s, Working(session[t])
      PROVE  rows'[session[t].id] = rows[session[t].id]
  <2>1. session[t].id \in Changes /\ session[t].id # i
    BY <1>0, <1>1, <1>8, RequestFields DEF Working, LockInv, Target
  <2>2. session[t].id \notin txn.drafts
    BY <1>1, <1>8, <2>1 DEF Locked, Working
  <2> QED
    BY <1>7, <2>1, <2>2
<1>9. starts[i] = 0
  BY <1>0, <1>1, UnheldDraft DEF LockInv, Target
<1>10. TypeOK' /\ LockInv' /\ DraftsExist' /\ RunsOnce' /\ RunsAreOnRecord'
  <2>1. TypeOK'
    BY <1>0, <1>1, <1>3, <1>7 DEF TypeOK
  <2>2. LockInv'
    BY <1>0, <1>3, <1>8 DEF LockInv, Target, Working
  <2>3. DraftsExist'
    <3> SUFFICES ASSUME NEW t \in Sessions, session'[t].op = "propose", NEW j \in session'[t].drafts
                 PROVE  rows'[j].status # "none"
      BY DEF DraftsExist
    <3>1. t # s /\ session'[t] = session[t]
      BY <1>3
    <3>2. j \in Changes /\ rows[j].status # "none"
      BY <1>0, <3>1, RequestFields DEF DraftsExist
    <3> QED
      BY <1>7, <3>2
  <2>4. RunsOnce'
    BY <1>0, <1>1 DEF RunsOnce
  <2>5. RunsAreOnRecord'
    <3> SUFFICES ASSUME NEW j \in Changes, starts[j] > 0,
                        rows'[j].status \in {"none", "draft"}
                 PROVE  \E t \in Sessions : session'[t].op = "execute" /\ session'[t].id = j
                                            /\ session'[t].at \in Outcomes
      BY <1>1 DEF RunsAreOnRecord
    <3>1. rows'[j] = rows[j]
      BY <1>7, <1>9
    <3>2. PICK t \in Sessions : session[t].op = "execute" /\ session[t].id = j
                                /\ session[t].at \in Outcomes
      BY <1>0, <3>1 DEF RunsAreOnRecord
    <3> QED
      BY <1>1, <1>3, <3>2
  <2> QED
    BY <2>1, <2>2, <2>3, <2>4, <2>5
<1> QED
  BY <1>10 DEF ChangesInv

\* A row that exists can be given another status.
LEMMA StatusTyped ==
  ASSUME TypeOK, NEW i \in Changes, rows[i].status # "none", NEW to \in Statuses
  PROVE  /\ [rows[i] EXCEPT !.status = to] \in Row
         /\ [rows[i] EXCEPT !.status = to].status = to
  BY RowFields DEF Row

\* Rejecting takes a draft nobody works on.
LEMMA RejectKeeps ==
  ASSUME ChangesInv, NEW i \in Changes, Reject(i)
  PROVE  ChangesInv'
<1>0. TypeOK /\ LockInv
  BY DEF ChangesInv
<1> DEFINE row == [rows[i] EXCEPT !.status = "rejected"]
<1>1. /\ ~Locked(i) /\ rows[i].status = "draft"
      /\ rows' = [rows EXCEPT ![i] = row]
      /\ UNCHANGED <<content, edits, starts, session>>
  BY DEF Reject
<1>2. "rejected" \in Statuses
  BY DEF Statuses
<1>3. row \in Row /\ row.status = "rejected"
  BY <1>0, <1>1, <1>2, StatusTyped
<1> HIDE DEF row
<1>4. /\ rows' \in [Changes -> Row]
      /\ \A j \in Changes : rows'[j] = IF j = i THEN row ELSE rows[j]
  BY <1>0, <1>1, <1>3 DEF TypeOK
<1>5. \A t \in Sessions : Working(session[t]) => session[t].id \in Changes /\ session[t].id # i
  BY <1>0, <1>1, RequestFields DEF Locked, Working
<1>6. session' \in [Sessions -> Requests]
  BY <1>0, <1>1 DEF TypeOK
<1> DEFINE W == {}
<1>7. W \in SUBSET Sessions /\ \A t \in W : FALSE
  OBVIOUS
<1> HIDE DEF W
<1>8. /\ \A t \in Sessions \ W : session'[t] = session[t]
      /\ \A t \in W : session'[t].op = "idle"
      /\ \A t \in Sessions \ W : Working(session[t]) => rows'[session[t].id] = rows[session[t].id]
  BY <1>1, <1>4, <1>5, <1>7
<1>9. /\ \A j \in Changes : rows[j].status # "none" => rows'[j].status # "none"
      /\ \A j \in Changes : rows'[j].status \in {"none", "draft"} => starts[j] = 0 \/ rows'[j] = rows[j]
      /\ \A t \in W : session[t].op = "execute" /\ session[t].at \in Outcomes =>
                        rows'[session[t].id].status \notin {"none", "draft"}
  BY <1>3, <1>4, <1>7
<1> QED
  BY <1>1, <1>4, <1>6, <1>7, <1>8, <1>9, TableStep

\* The commit of an execution or a rollback writes the row it holds.
LEMMA CommitKeeps ==
  ASSUME ChangesInv, NEW s \in Sessions, CommitExecute(s) \/ CommitRollback(s)
  PROVE  ChangesInv'
<1>0. TypeOK /\ LockInv
  BY DEF ChangesInv
<1> DEFINE i == session[s].id
<1>1. Working(session[s]) /\ Close(s) /\ UNCHANGED <<content, edits, starts>>
  BY DEF CommitExecute, CommitRollback, Working
<1>2. i \in Changes /\ rows[i].status # "none"
  BY <1>0, <1>1, RequestFields DEF Working, LockInv, Target
<1>3. PICK row \in Row : /\ rows' = [rows EXCEPT ![i] = row]
                         /\ row.status \notin {"none", "draft"}
  <2>1. CASE CommitExecute(s)
    <3> DEFINE row == [rows[i] EXCEPT !.status = session[s].at, !.prev = session[s].prev,
                                      !.applied = session[s].applied]
    <3>1. session[s].op = "execute" /\ session[s].at \in Outcomes /\ rows' = [rows EXCEPT ![i] = row]
      BY <2>1 DEF CommitExecute
    <3>2. session[s].prev \in Held /\ session[s].applied \in Held /\ session[s].at \in Statuses
          /\ session[s].at \notin {"none", "draft"}
      BY <1>0, <3>1, RequestFields DEF Outcomes, Statuses
    <3>3. rows[i] \in [status : Statuses, author : Authors, kind : Kinds, new : Held,
                       valid : BOOLEAN, base : Held, prev : Held, applied : Held]
      BY <1>0, <1>2, RowFields
    <3>4. row \in [status : Statuses, author : Authors, kind : Kinds, new : Held,
                   valid : BOOLEAN, base : Held, prev : Held, applied : Held]
          /\ row.status = session[s].at
      BY <3>2, <3>3
    <3>5. row \in Row
      BY <3>4 DEF Row
    <3> QED
      BY <3>1, <3>2, <3>4, <3>5
  <2>2. CASE CommitRollback(s)
    <3> DEFINE row == [rows[i] EXCEPT !.status = "rolled_back"]
    <3>1. rows' = [rows EXCEPT ![i] = row]
      BY <2>2 DEF CommitRollback
    <3>2. "rolled_back" \in Statuses
      BY DEF Statuses
    <3>3. row \in Row /\ row.status = "rolled_back"
      BY <1>0, <1>2, <3>2, StatusTyped
    <3> QED
      BY <3>1, <3>3
  <2> QED
    BY <2>1, <2>2
<1>4. /\ rows' \in [Changes -> Row]
      /\ \A j \in Changes : rows'[j] = IF j = i THEN row ELSE rows[j]
  BY <1>0, <1>2, <1>3 DEF TypeOK
<1>5. /\ session' \in [Sessions -> Requests]
      /\ \A t \in Sessions : t # s => session'[t] = session[t]
      /\ session'[s].op = "idle"
  BY <1>0, <1>1, CloseTyped
<1>6. \A t \in Sessions : t # s /\ Working(session[t]) =>
                            session[t].id \in Changes /\ session[t].id # i
  BY <1>0, <1>1, RequestFields DEF LockInv, Working
<1> DEFINE W == {s}
<1>7. /\ W \in SUBSET Sessions
      /\ \A t \in Sessions \ W : t \in Sessions /\ t # s
      /\ \A t \in W : t = s
  OBVIOUS
<1> HIDE DEF W
<1>8. /\ \A t \in Sessions \ W : session'[t] = session[t]
      /\ \A t \in W : session'[t].op = "idle"
      /\ \A t \in Sessions \ W : Working(session[t]) => rows'[session[t].id] = rows[session[t].id]
  BY <1>4, <1>5, <1>6, <1>7
<1>9. /\ \A j \in Changes : rows[j].status # "none" => rows'[j].status # "none"
      /\ \A j \in Changes : rows'[j].status \in {"none", "draft"} => starts[j] = 0 \/ rows'[j] = rows[j]
      /\ \A t \in W : session[t].op = "execute" /\ session[t].at \in Outcomes =>
                        rows'[session[t].id].status \notin {"none", "draft"}
  BY <1>2, <1>3, <1>4, <1>7
<1> QED
  BY <1>1, <1>4, <1>5, <1>7, <1>8, <1>9, TableStep

\* Taking a row that nobody holds.
LEMMA TakeKeeps ==
  ASSUME ChangesInv, NEW s \in Sessions, NEW i \in Changes,
         BeginExecute(s, i) \/ BeginRollback(s, i)
  PROVE  ChangesInv'
<1>0. TypeOK /\ LockInv /\ DraftsExist /\ RunsOnce /\ RunsAreOnRecord
  BY DEF ChangesInv
<1>1. PICK req \in Requests :
        /\ Open(s, req) /\ req.id = i
        /\ \/ req.op = "execute" /\ rows[i].status = "draft"
           \/ req.op = "rollback" /\ rows[i].status = "executed" /\ rows[i].kind # "run"
  <2>1. CASE BeginExecute(s, i)
    <3> DEFINE req == [op |-> "execute", id |-> i, at |-> "snapshot", prev |-> Absent,
                       applied |-> Absent]
    <3>1. req \in Requests /\ req.id = i /\ req.op = "execute"
      BY DEF Requests, ExecuteSteps, Held
    <3> QED
      BY <2>1, <3>1 DEF BeginExecute
  <2>2. CASE BeginRollback(s, i)
    <3> DEFINE req == [op |-> "rollback", id |-> i, at |-> "write"]
    <3>1. req \in Requests /\ req.id = i /\ req.op = "rollback"
      BY DEF Requests
    <3> QED
      BY <2>2, <3>1 DEF BeginRollback
  <2> QED
    BY <2>1, <2>2
<1>2. ~Locked(i) /\ UNCHANGED <<rows, content, edits, starts>>
  BY DEF BeginExecute, BeginRollback
<1>3. /\ session[s].op = "idle" /\ session'[s] = req
      /\ session' \in [Sessions -> Requests]
      /\ \A t \in Sessions : t # s => session'[t] = session[t]
  BY <1>0, <1>1, OpenTyped
<1>4. TypeOK'
  BY <1>0, <1>2, <1>3 DEF TypeOK
<1>5. LockInv'
  BY <1>0, <1>1, <1>2, <1>3 DEF LockInv, Locked, Target
<1>6. DraftsExist'
  BY <1>0, <1>1, <1>2, <1>3, DraftsKept
<1>7. RunsOnce' /\ RunsAreOnRecord'
  BY <1>0, <1>2, <1>3, RecordKept
<1> QED
  BY <1>4, <1>5, <1>6, <1>7 DEF ChangesInv

\* A step of an execution that has no outcome yet and starts no run.
LEMMA ExecuteStepKeeps ==
  ASSUME ChangesInv, NEW s \in Sessions, session[s].op = "execute", session[s].at \notin Outcomes,
         rows' = rows, starts' = starts, edits' = edits, content' \in Held,
         session' \in [Sessions -> Requests],
         \A t \in Sessions : t # s => session'[t] = session[t],
         \/ session'[s].op = "idle"
         \/ session'[s].op = "execute" /\ session'[s].id = session[s].id
  PROVE  ChangesInv'
<1>0. TypeOK /\ LockInv /\ DraftsExist /\ RunsOnce /\ RunsAreOnRecord
  BY DEF ChangesInv
<1>1. TypeOK'
  BY <1>0 DEF TypeOK
<1>2. LockInv'
  BY <1>0, LocksKept DEF Working
<1>3. DraftsExist'
  BY <1>0, DraftsKept
<1>4. RunsOnce' /\ RunsAreOnRecord'
  BY <1>0, RecordKept
<1> QED
  BY <1>1, <1>2, <1>3, <1>4 DEF ChangesInv

\* The TM1 calls of an execution, a run excepted.
LEMMA ExecutionKeeps ==
  ASSUME ChangesInv, NEW s \in Sessions,
         \/ Snapshot(s) \/ Write(s) \/ Check(s) \/ Record(s) \/ Restore(s) \/ RestoreThenRaise(s)
  PROVE  ChangesInv'
<1>0. TypeOK
  BY DEF ChangesInv
<1>1. session[s].op = "execute" /\ session[s].at \notin Outcomes
  BY DEF Snapshot, Write, Check, Record, Restore, RestoreThenRaise, At, Outcomes
<1>2. rows' = rows /\ starts' = starts /\ edits' = edits
  BY DEF Snapshot, Write, Check, Record, Restore, RestoreThenRaise
<1>3. session[s] \in [op : {"execute"}, id : Changes, at : ExecuteSteps \cup Outcomes,
                      prev : Held, applied : Held]
  BY <1>0, <1>1, RequestFields
<1>4. content' \in Held
  <2>1. content \in Held /\ session[s].prev \in Held
    BY <1>0, <1>3 DEF TypeOK
  <2>2. Target(s).status = "draft" /\ session[s].id \in Changes
    BY <1>1, <1>3 DEF ChangesInv, LockInv
  <2>3. Target(s).new \in Held
    BY <1>0, <2>2, RowFields DEF Target
  <2> QED
    BY <2>1, <2>3 DEF Snapshot, Write, Check, Record, Restore, RestoreThenRaise
<1>5. PICK next \in Requests : /\ session' = [session EXCEPT ![s] = next]
                               /\ \/ next.op = "idle"
                                  \/ next.op = "execute" /\ next.id = session[s].id
  <2>1. ASSUME NEW step \in ExecuteSteps \cup Outcomes, Goto(s, step)
        PROVE  \E next \in Requests : /\ session' = [session EXCEPT ![s] = next]
                                      /\ next.op = "execute" /\ next.id = session[s].id
    <3> DEFINE next == [session[s] EXCEPT !.at = step]
    <3>1. next \in [op : {"execute"}, id : Changes, at : ExecuteSteps \cup Outcomes,
                    prev : Held, applied : Held]
      BY <1>3
    <3>2. next \in Requests /\ next.op = "execute" /\ next.id = session[s].id
      BY <1>3, <3>1 DEF Requests
    <3>3. session' = [session EXCEPT ![s] = next]
      BY <2>1 DEF Goto
    <3> QED
      BY <3>2, <3>3
  <2>2. CASE Close(s)
    BY <2>2, IdleRequest DEF Close
  <2>3. CASE Snapshot(s)
    <3> DEFINE prev == IF Target(s).kind = "run" THEN Absent ELSE content
               next == [session[s] EXCEPT !.at = "write", !.prev = prev]
    <3>1. prev \in Held
      BY <1>0 DEF TypeOK, Held
    <3>2. session' = [session EXCEPT ![s] = next]
      BY <2>3 DEF Snapshot
    <3> HIDE DEF prev
    <3>3. next \in [op : {"execute"}, id : Changes, at : ExecuteSteps \cup Outcomes,
                    prev : Held, applied : Held]
      BY <1>3, <3>1 DEF ExecuteSteps
    <3>4. next \in Requests /\ next.op = "execute" /\ next.id = session[s].id
      BY <1>3, <3>3 DEF Requests
    <3> QED
      BY <3>2, <3>4
  <2>4. CASE Record(s) /\ session' = [session EXCEPT ![s].at = "executed", ![s].applied = content]
    <3> DEFINE next == [session[s] EXCEPT !.at = "executed", !.applied = content]
    <3>1. next \in [op : {"execute"}, id : Changes, at : ExecuteSteps \cup Outcomes,
                    prev : Held, applied : Held]
      BY <1>0, <1>3 DEF Outcomes, TypeOK
    <3>2. next \in Requests /\ next.op = "execute" /\ next.id = session[s].id
      BY <1>3, <3>1 DEF Requests
    <3> QED
      BY <2>4, <3>2
  <2>5. /\ \A step \in {"check", "record", "restore", "undo", "undo_unknown"} : step \in ExecuteSteps
        /\ \A step \in Outcomes : step \in ExecuteSteps \cup Outcomes
        /\ "executed" \in Outcomes /\ "failed" \in Outcomes /\ "unknown" \in Outcomes
    BY DEF ExecuteSteps, Outcomes
  <2>6. CASE Write(s)
    BY <2>1, <2>5, <2>6 DEF Write
  <2>7. CASE Check(s)
    BY <2>1, <2>5, <2>7 DEF Check
  <2>8. CASE Record(s)
    BY <2>1, <2>4, <2>5, <2>8 DEF Record
  <2>9. CASE Restore(s)
    BY <2>1, <2>5, <2>9 DEF Restore
  <2>10. CASE RestoreThenRaise(s)
    BY <2>1, <2>2, <2>5, <2>10 DEF RestoreThenRaise
  <2> QED
    BY <2>3, <2>6, <2>7, <2>8, <2>9, <2>10
<1>6. /\ session' \in [Sessions -> Requests]
      /\ \A t \in Sessions : session'[t] = IF t = s THEN next ELSE session[t]
  BY <1>0, <1>5, SessionStep
<1> QED
  BY <1>1, <1>2, <1>4, <1>5, <1>6, ExecuteStepKeeps

\* A run: its change is a draft this request alone holds, so it has not been
\* started, and the outcome this step notes will be recorded.
LEMMA RunKeeps ==
  ASSUME ChangesInv, NEW s \in Sessions, Run(s)
  PROVE  ChangesInv'
<1> DEFINE i == session[s].id
<1>0. TypeOK /\ LockInv /\ DraftsExist /\ RunsOnce /\ RunsAreOnRecord
  BY DEF ChangesInv
<1>1. /\ session[s].op = "execute" /\ session[s].at = "write"
      /\ rows' = rows /\ content' = content /\ edits' = edits
  BY DEF Run, At
<1>2. PICK outcome \in Outcomes : Goto(s, outcome)
  BY DEF Run, Outcomes
<1>3. /\ session' \in [Sessions -> Requests]
      /\ \A t \in Sessions : t # s => session'[t] = session[t]
      /\ session'[s].op = "execute" /\ session'[s].id = i /\ session'[s].at = outcome
  BY <1>0, <1>1, <1>2, StepTyped
<1>4. i \in Changes /\ rows[i].status = "draft"
  BY <1>0, <1>1, RequestFields DEF LockInv, Target
<1>5. \A t \in Sessions : session[t].op = "execute" /\ session[t].id = i => session[t].at \notin Outcomes
  BY <1>0, <1>1 DEF LockInv, Outcomes
<1>6. starts[i] = 0
  BY <1>4, <1>5, UnheldDraft
<1>7. \/ starts' = starts
      \/ starts' = [starts EXCEPT ![i] = IF starts[i] = 0 THEN 1 ELSE 2]
  BY DEF Run
<1>8. /\ starts' \in [Changes -> 0 .. 2]
      /\ \A j \in Changes : j # i => starts'[j] = starts[j]
      /\ starts[i] = 0 => starts'[i] <= 1
  <2>0. starts \in [Changes -> 0 .. 2] /\ i \in Changes
    BY <1>0, <1>4 DEF TypeOK
  <2>1. CASE starts' = starts
    BY <2>0, <2>1
  <2>2. ASSUME NEW n \in {1, 2}, starts[i] = 0 => n = 1, starts' = [starts EXCEPT ![i] = n]
        PROVE  /\ starts' \in [Changes -> 0 .. 2]
               /\ \A j \in Changes : j # i => starts'[j] = starts[j]
               /\ starts[i] = 0 => starts'[i] <= 1
    BY <2>0, <2>2
  <2> QED
    BY <1>7, <2>1, <2>2
<1>9. TypeOK'
  BY <1>0, <1>1, <1>3, <1>8 DEF TypeOK
<1>10. LockInv'
  BY <1>0, <1>1, <1>3, LocksKept DEF Working
<1>11. DraftsExist'
  BY <1>0, <1>1, <1>3, DraftsKept
<1>12. RunsOnce'
  <2> SUFFICES ASSUME NEW j \in Changes PROVE starts'[j] <= 1
    BY DEF RunsOnce
  <2> QED
    BY <1>0, <1>6, <1>8 DEF RunsOnce
<1>13. RunsAreOnRecord'
  <2> SUFFICES ASSUME NEW j \in Changes, starts'[j] > 0,
                      rows[j].status \in {"none", "draft"}
               PROVE  \E t \in Sessions : session'[t].op = "execute" /\ session'[t].id = j
                                          /\ session'[t].at \in Outcomes
    BY <1>1 DEF RunsAreOnRecord
  <2>1. CASE j = i
    BY <1>3, <2>1
  <2>2. CASE j # i
    <3>1. PICK t \in Sessions : session[t].op = "execute" /\ session[t].id = j
                                /\ session[t].at \in Outcomes
      BY <1>0, <1>8, <2>2 DEF RunsAreOnRecord
    <3> QED
      BY <1>3, <2>2, <3>1
  <2> QED
    BY <2>1, <2>2
<1> QED
  BY <1>9, <1>10, <1>11, <1>12, <1>13 DEF ChangesInv

\* A request that ends without committing.
LEMMA EndKeeps ==
  ASSUME ChangesInv, NEW s \in Sessions, Close(s),
         UNCHANGED <<rows, edits, starts>>, content' \in Held,
         session[s].op # "execute" \/ session[s].at \notin Outcomes
  PROVE  ChangesInv'
<1>0. TypeOK /\ LockInv /\ DraftsExist /\ RunsOnce /\ RunsAreOnRecord
  BY DEF ChangesInv
<1>1. /\ session' \in [Sessions -> Requests]
      /\ \A t \in Sessions : t # s => session'[t] = session[t]
      /\ session'[s].op = "idle"
  BY <1>0, CloseTyped
<1>2. TypeOK'
  BY <1>0, <1>1 DEF TypeOK
<1>3. LockInv'
  BY <1>0, <1>1, LocksKept DEF Working
<1>4. DraftsExist'
  BY <1>0, <1>1, DraftsKept
<1>5. RunsOnce' /\ RunsAreOnRecord'
  BY <1>0, <1>1, RecordKept
<1> QED
  BY <1>2, <1>3, <1>4, <1>5 DEF ChangesInv

\* A request that dies takes the run it may have started with it.
LEMMA CrashKeeps ==
  ASSUME ChangesInv, NEW s \in Sessions, Crash(s)
  PROVE  ChangesInv'
<1>0. TypeOK /\ LockInv /\ DraftsExist /\ RunsOnce /\ RunsAreOnRecord
  BY DEF ChangesInv
<1>1. Close(s) /\ UNCHANGED <<rows, content, edits>>
  BY DEF Crash
<1>2. /\ session' \in [Sessions -> Requests]
      /\ \A t \in Sessions : t # s => session'[t] = session[t]
      /\ session'[s].op = "idle"
  BY <1>0, <1>1, CloseTyped
<1>3. /\ starts' \in [Changes -> 0 .. 2]
      /\ \A j \in Changes : starts'[j] = starts[j] \/ starts'[j] = 0
      /\ session[s].op = "execute" => session[s].id \in Changes /\ starts'[session[s].id] = 0
  <2>1. CASE session[s].op = "execute"
    <3>1. session[s].id \in Changes
      BY <1>0, <2>1, RequestFields
    <3>2. starts' = [starts EXCEPT ![session[s].id] = 0]
      BY <2>1 DEF Crash
    <3> QED
      BY <1>0, <3>1, <3>2 DEF TypeOK
  <2>2. CASE session[s].op # "execute"
    BY <1>0, <2>2 DEF Crash, TypeOK
  <2> QED
    BY <2>1, <2>2
<1>4. TypeOK'
  BY <1>0, <1>1, <1>2, <1>3 DEF TypeOK
<1>5. LockInv'
  BY <1>0, <1>1, <1>2, LocksKept DEF Working
<1>6. DraftsExist'
  BY <1>0, <1>1, <1>2, DraftsKept
<1>7. RunsOnce'
  BY <1>0, <1>3 DEF RunsOnce
<1>8. RunsAreOnRecord'
  <2> SUFFICES ASSUME NEW j \in Changes, starts'[j] > 0, rows[j].status \in {"none", "draft"}
               PROVE  \E t \in Sessions : session'[t].op = "execute" /\ session'[t].id = j
                                          /\ session'[t].at \in Outcomes
    BY <1>1 DEF RunsAreOnRecord
  <2>1. starts[j] > 0
    BY <1>3
  <2>2. PICK t \in Sessions : session[t].op = "execute" /\ session[t].id = j
                              /\ session[t].at \in Outcomes
    BY <1>0, <2>1 DEF RunsAreOnRecord
  <2>3. t # s
    BY <1>3, <2>2
  <2> QED
    BY <1>2, <2>2, <2>3
<1> QED
  BY <1>4, <1>5, <1>6, <1>7, <1>8 DEF ChangesInv

\* The write of a rollback.
LEMMA RollbackWriteKeeps ==
  ASSUME ChangesInv, NEW s \in Sessions, RollbackWrite(s)
  PROVE  ChangesInv'
<1>0. TypeOK /\ LockInv /\ DraftsExist /\ RunsOnce /\ RunsAreOnRecord
  BY DEF ChangesInv
<1>1. session[s].op = "rollback" /\ UNCHANGED <<rows, edits, starts>>
  BY DEF RollbackWrite
<1>2. /\ session[s] \in [op : {"rollback"}, id : Changes, at : {"write", "rolled_back"}]
      /\ session[s].id \in Changes /\ Target(s).status = "executed"
  BY <1>0, <1>1, RequestFields DEF LockInv
<1>3. Target(s).prev \in Held
  BY <1>0, <1>2, RowFields DEF Target
<1>4. content' \in Held
  BY <1>0, <1>3 DEF RollbackWrite, TypeOK
<1>5. CASE Close(s)
  BY <1>1, <1>4, <1>5, EndKeeps
<1>6. CASE Goto(s, "rolled_back")
  <2> DEFINE next == [session[s] EXCEPT !.at = "rolled_back"]
  <2>1. next \in [op : {"rollback"}, id : Changes, at : {"write", "rolled_back"}]
        /\ next.op = "rollback" /\ next.id = session[s].id
    BY <1>2
  <2>2. next \in Requests
    BY <2>1 DEF Requests
  <2>3. session' = [session EXCEPT ![s] = next]
    BY <1>6 DEF Goto
  <2>4. /\ session' \in [Sessions -> Requests]
        /\ \A t \in Sessions : t # s => session'[t] = session[t]
        /\ session'[s].op = "rollback" /\ session'[s].id = session[s].id
    BY <1>0, <2>1, <2>2, <2>3, SessionStep
  <2>5. TypeOK'
    BY <1>0, <1>1, <1>4, <2>4 DEF TypeOK
  <2>6. LockInv'
    BY <1>0, <1>1, <2>4, LocksKept
  <2>7. DraftsExist'
    BY <1>0, <1>1, <2>4, DraftsKept
  <2>8. RunsOnce' /\ RunsAreOnRecord'
    BY <1>0, <1>1, <2>4, RecordKept
  <2> QED
    BY <2>5, <2>6, <2>7, <2>8 DEF ChangesInv
<1> QED
  BY <1>5, <1>6 DEF RollbackWrite

\* No change has been drafted.
LEMMA InitChanges == Init => ChangesInv
  BY ChangesAssumption
  DEF Init, ChangesInv, TypeOK, LockInv, DraftsExist, RunsOnce, RunsAreOnRecord,
      Row, Requests, Idle

\* ChangesInv is inductive.
LEMMA NextChanges == ChangesInv /\ [Next]_vars => ChangesInv'
<1> SUFFICES ASSUME ChangesInv, [Next]_vars PROVE ChangesInv'
  OBVIOUS
<1>0. TypeOK
  BY DEF ChangesInv
<1>1. ASSUME NEW s \in Sessions, Request(s) PROVE ChangesInv'
  <2>1. CASE \E a \in Authors, kind \in Kinds, new \in Held : BeginPropose(s, a, kind, new)
    BY <2>1, ProposeKeeps
  <2>2. CASE \E valid \in BOOLEAN : Validate(s, valid)
    BY <2>2, ValidateKeeps
  <2>3. CASE \E i \in Changes : CommitPropose(s, i) \/ BeginExecute(s, i) \/ BeginRollback(s, i)
    BY <2>3, CommitProposeKeeps, TakeKeeps
  <2>4. CASE \/ Snapshot(s) \/ Write(s) \/ Check(s) \/ Record(s) \/ Restore(s)
             \/ RestoreThenRaise(s)
    BY <2>4, ExecutionKeeps
  <2>5. CASE Run(s)
    BY <2>5, RunKeeps
  <2>6. CASE Refused(s)
    <3>1. Close(s) /\ UNCHANGED <<rows, content, edits, starts>>
      BY <2>6 DEF Refused
    <3>2. session[s].op # "execute" \/ session[s].at \notin Outcomes
      BY <2>6 DEF Refused, At, Outcomes
    <3>3. content' \in Held
      BY <1>0, <3>1 DEF TypeOK
    <3> QED
      BY <3>1, <3>2, <3>3, EndKeeps
  <2>7. CASE CommitExecute(s) \/ CommitRollback(s)
    BY <2>7, CommitKeeps
  <2>8. CASE RollbackWrite(s)
    BY <2>8, RollbackWriteKeeps
  <2>9. CASE Crash(s)
    BY <2>9, CrashKeeps
  <2> QED
    BY <1>1, <2>1, <2>2, <2>3, <2>4, <2>5, <2>6, <2>7, <2>8, <2>9 DEF Request
<1>2. ASSUME NEW i \in Changes, Reject(i) PROVE ChangesInv'
  BY <1>2, RejectKeeps
<1>3. ASSUME UNCHANGED <<rows, starts, session>>, TypeOK' PROVE ChangesInv'
  BY <1>3 DEF ChangesInv, LockInv, Target, DraftsExist, RunsOnce, RunsAreOnRecord
<1>4. ASSUME NEW c \in Held, Edit(c) PROVE ChangesInv'
  BY <1>0, <1>3, <1>4, ChangesAssumption DEF Edit, TypeOK
<1>5. CASE UNCHANGED vars
  BY <1>0, <1>3, <1>5 DEF vars, TypeOK
<1> QED
  BY <1>1, <1>2, <1>4, <1>5 DEF Next

\* However requests overlap, fail or die, the row lock and what each request
\* read keep the table, the runs and the requests consistent.
THEOREM ChangesInvariant == Spec => []ChangesInv
<1> QED
  BY InitChanges, NextChanges, PTL DEF Spec

\* The table, the object and every open request stay well typed.
THEOREM ChangesTypeCorrect == Spec => []TypeOK
<1>1. ChangesInv => TypeOK
  BY DEF ChangesInv
<1> QED
  BY <1>1, ChangesInvariant, PTL

\* A change is executed or rolled back by one request at a time, and is a draft,
\* or executed, until that request commits (_lock).
THEOREM LocksHold == Spec => []LockInv
<1>1. ChangesInv => LockInv
  BY DEF ChangesInv
<1> QED
  BY <1>1, ChangesInvariant, PTL

\* An approved run is asked of TM1 at most once (_run), unless a request can die.
THEOREM RunsAreStartedOnce == Spec => []RunsOnce
<1>1. ChangesInv => RunsOnce
  BY DEF ChangesInv
<1> QED
  BY <1>1, ChangesInvariant, PTL

-----------------------------------------------------------------------------
(***************************************************************************)
(* One request at a time, with no edit in TM1 during one of them.  The     *)
(* argument: between two steps of a request nothing else moves, so what it *)
(* read of its row and of the object is still so when it writes.           *)
(***************************************************************************)

\* What the object held before the change, as its draft recorded it.
BaseOf(row) == IF row.kind = "create" THEN Absent ELSE row.base

\* What a request has seen is what is there.
StillSeen(s) ==
  /\ session[s].op = "propose" => \A j \in session[s].drafts : rows[j].status = "draft"
  /\ session[s].op = "execute" =>
       /\ session[s].at \in {"snapshot", "write"} /\ Target(s).kind \in {"update", "delete"} =>
            content = Target(s).base
       /\ session[s].at # "snapshot" /\ Target(s).kind # "run" =>
            session[s].prev = BaseOf(Target(s))
  /\ session[s].op = "rollback" =>
       /\ session[s].at = "write" => AsApplied(session[s].id)
       /\ session[s].at = "rolled_back" => content = Target(s).prev

\* A change that was executed can be taken back to its base.
BaseKept ==
  \A i \in Changes :
    rows[i].status = "executed" /\ rows[i].kind # "run" => rows[i].prev = BaseOf(rows[i])

AloneInv ==
  /\ ChangesInv /\ BaseKept
  /\ \A s, t \in Busy : s = t
  /\ \A s \in Sessions : StillSeen(s)

\* What a serial step may do.
AloneStep ==
  AloneInv' /\ Lifecycle /\ OverwritesOnlyItsBase /\ RollbackRestoresBase /\ RollbackKeepsLaterEdits


\* No request but that of s is open, before or after the step.
OnlyOf(s) ==
  ChangesInv' /\ \A t \in Sessions : t # s => session[t] = Idle /\ session'[t] = Idle

\* A request is open before its step or after it.
LEMMA RequestIsOpen ==
  ASSUME TypeOK, NEW s \in Sessions, Request(s)
  PROVE  session[s] # Idle \/ session'[s] # Idle
<1>1. ASSUME session[s].op # "idle" PROVE session[s] # Idle
  BY <1>1, IdleRequest
<1>2. ASSUME NEW req, req.op # "idle", Open(s, req) PROVE session'[s] # Idle
  BY <1>2, IdleRequest DEF Open, TypeOK
<1>3. ASSUME NEW a, NEW kind, NEW new, BeginPropose(s, a, kind, new)
      PROVE  session'[s] # Idle
  BY <1>2, <1>3 DEF BeginPropose
<1>4. ASSUME NEW i, BeginExecute(s, i) \/ BeginRollback(s, i) PROVE session'[s] # Idle
  BY <1>2, <1>4 DEF BeginExecute, BeginRollback
<1>5. ASSUME NEW valid, Validate(s, valid) PROVE session[s] # Idle
  BY <1>1, <1>5 DEF Validate
<1>6. ASSUME NEW i, CommitPropose(s, i) PROVE session[s] # Idle
  BY <1>1, <1>6 DEF CommitPropose
<1>7. CASE \/ Snapshot(s) \/ Write(s) \/ Run(s) \/ Check(s) \/ Record(s) \/ Restore(s)
           \/ RestoreThenRaise(s)
  BY <1>1, <1>7 DEF Snapshot, Write, Run, Check, Record, Restore, RestoreThenRaise, At
<1>8. CASE Refused(s) \/ CommitExecute(s) \/ RollbackWrite(s) \/ CommitRollback(s)
  BY <1>1, <1>8 DEF Refused, CommitExecute, RollbackWrite, CommitRollback, At
<1> QED
  BY <1>3, <1>4, <1>5, <1>6, <1>7, <1>8 DEF Request, Crash

\* While a request moves no other is open.
LEMMA OnlyOne ==
  ASSUME AloneInv, SerialNext, NEW s \in Sessions, Request(s)
  PROVE  OnlyOf(s)
<1>1. ChangesInv'
  BY NextChanges DEF AloneInv, SerialNext
<1>2. \A p, q \in Busy \cup Busy' : p = q
  BY DEF SerialNext
<1>3. session[s] # Idle \/ session'[s] # Idle
  BY RequestIsOpen DEF AloneInv, ChangesInv
<1> QED
  BY <1>1, <1>2, <1>3 DEF Busy, OnlyOf

\* A step of the one open request keeps what the requests have seen true.
LEMMA SeenStep ==
  ASSUME AloneInv, NEW s \in Sessions, OnlyOf(s), StillSeen(s)', BaseKept'
  PROVE  AloneInv'
<1>1. \A t \in Sessions : t # s => StillSeen(t)'
  BY IdleRequest DEF OnlyOf, StillSeen
<1>2. \A p, q \in Busy' : p = q
  BY DEF OnlyOf, Busy
<1>3. \A t \in Sessions : StillSeen(t)'
  BY <1>1
<1> QED
  BY <1>2, <1>3 DEF AloneInv, OnlyOf

\* What a step that leaves the table alone still owes.
LEMMA TableKept ==
  ASSUME AloneInv, rows' = rows
  PROVE  BaseKept' /\ Lifecycle /\ RollbackRestoresBase
  BY DEF AloneInv, BaseKept, BaseOf, Lifecycle, RollbackRestoresBase

\* A write meets the content its change was drafted against.
LEMMA BaseIsThere ==
  ASSUME AloneInv
  PROVE  OverwritesOnlyItsBase
  BY DEF AloneInv, StillSeen, OverwritesOnlyItsBase, At

\* A request that does not roll back, or that leaves the object alone, takes
\* back nothing of others.
LEMMA NothingTakenBack ==
  ASSUME NEW s \in Sessions, OnlyOf(s), session[s].op # "rollback" \/ content' = content
  PROVE  RollbackKeepsLaterEdits
  BY IdleRequest DEF RollbackKeepsLaterEdits, OnlyOf

\* A request that has just ended has seen nothing.
LEMMA EndSees ==
  ASSUME AloneInv, NEW s \in Sessions, Close(s)
  PROVE  StillSeen(s)'
<1>1. session'[s].op = "idle"
  BY CloseTyped DEF AloneInv, ChangesInv
<1> QED
  BY <1>1 DEF StillSeen

\* A proposal starts, or looks at TM1.
LEMMA ProposeAlone ==
  ASSUME AloneInv, NEW s \in Sessions, OnlyOf(s),
         \/ \E a \in Authors, kind \in Kinds, new \in Held : BeginPropose(s, a, kind, new)
         \/ \E valid \in BOOLEAN : Validate(s, valid)
  PROVE  AloneStep
<1>0. TypeOK
  BY DEF AloneInv, ChangesInv
<1>1. rows' = rows /\ content' = content
  BY DEF BeginPropose, Validate
<1>2. StillSeen(s)'
  <2>1. ASSUME NEW a, NEW kind, NEW new, BeginPropose(s, a, kind, new) PROVE StillSeen(s)'
    <3>1. session'[s].op = "propose" /\ session'[s].drafts = OpenDrafts(a, kind)
      BY <1>0, <2>1 DEF BeginPropose, Open, TypeOK
    <3> QED
      BY <1>1, <3>1 DEF StillSeen, OpenDrafts
  <2>2. ASSUME NEW valid, Validate(s, valid) PROVE StillSeen(s)'
    <3>0. /\ session \in [Sessions -> Requests] /\ s \in Sessions
          /\ session[s].op = "propose"
          /\ session' = [session EXCEPT ![s].at = "saving", ![s].valid = valid,
                                        ![s].base = IF session[s].kind \in {"update", "delete"} /\ valid
                                                      THEN content ELSE Absent]
      BY <1>0, <2>2 DEF Validate, TypeOK
    <3>1. session'[s].op = session[s].op /\ session'[s].drafts = session[s].drafts
          /\ session[s].op = "propose"
      BY <1>0, <3>0, RequestFields
    <3> QED
      BY <1>1, <3>1 DEF StillSeen, AloneInv
  <2> QED
    BY <2>1, <2>2
<1>3. session[s].op # "rollback" \/ content' = content
  BY <1>1
<1> QED
  BY <1>1, <1>2, <1>3, SeenStep, TableKept, BaseIsThere, NothingTakenBack DEF AloneStep

\* An execution starts on content that has not drifted, a rollback on what the change left.
LEMMA TakeAlone ==
  ASSUME AloneInv, NEW s \in Sessions, NEW i \in Changes, OnlyOf(s),
         BeginExecute(s, i) \/ BeginRollback(s, i)
  PROVE  AloneStep
<1>0. TypeOK
  BY DEF AloneInv, ChangesInv
<1>1. rows' = rows /\ content' = content
  BY DEF BeginExecute, BeginRollback
<1>2. CASE BeginExecute(s, i)
  <2>1. session'[s].op = "execute" /\ session'[s].id = i /\ session'[s].at = "snapshot"
    BY <1>0, <1>2 DEF BeginExecute, Open, TypeOK
  <2> QED
    BY <1>1, <1>2, <2>1, SeenStep, TableKept, BaseIsThere, NothingTakenBack
    DEF AloneStep, StillSeen, Target, BeginExecute, Undrifted
<1>3. CASE BeginRollback(s, i)
  <2>1. session'[s].op = "rollback" /\ session'[s].id = i /\ session'[s].at = "write"
    BY <1>0, <1>3 DEF BeginRollback, Open, TypeOK
  <2>2. StillSeen(s)'
    BY <1>1, <1>3, <2>1 DEF StillSeen, AsApplied, BeginRollback
  <2> QED
    BY <1>1, <2>2, SeenStep, TableKept, BaseIsThere, NothingTakenBack DEF AloneStep
<1> QED
  BY <1>2, <1>3

\* A read that notes what is there, of the content the change was drafted against.
LEMMA SnapshotAlone ==
  ASSUME AloneInv, NEW s \in Sessions, OnlyOf(s), Snapshot(s)
  PROVE  AloneStep
<1>0. TypeOK
  BY DEF AloneInv, ChangesInv
<1>1. rows' = rows /\ content' = content /\ session[s].op = "execute" /\ session[s].at = "snapshot"
  BY DEF Snapshot, At
<1>2. session'[s] = [session[s] EXCEPT !.at = "write",
                                       !.prev = IF Target(s).kind = "run" THEN Absent ELSE content]
  BY <1>0 DEF Snapshot, TypeOK
<1>3. /\ session'[s].op = "execute" /\ session'[s].id = session[s].id /\ session'[s].at = "write"
      /\ session'[s].prev = IF Target(s).kind = "run" THEN Absent ELSE content
  BY <1>0, <1>1, <1>2, RequestFields
<1>4. Target(s).kind \in Kinds
  BY <1>0, <1>1, RequestFields, RowFields DEF AloneInv, ChangesInv, LockInv, Target
<1>5. /\ Target(s).kind \in {"update", "delete"} => content = Target(s).base
      /\ Target(s).kind = "create" => content = Absent
  BY <1>1 DEF AloneInv, StillSeen, Snapshot
<1>6. StillSeen(s)'
  BY <1>1, <1>3, <1>4, <1>5 DEF StillSeen, Target, BaseOf, Kinds
<1> QED
  BY <1>1, <1>6, SeenStep, TableKept, BaseIsThere, NothingTakenBack DEF AloneStep

\* The other steps of an execution keep its snapshot.
LEMMA ExecutionAlone ==
  ASSUME AloneInv, NEW s \in Sessions, OnlyOf(s),
         Write(s) \/ Run(s) \/ Check(s) \/ Record(s) \/ Restore(s) \/ RestoreThenRaise(s)
  PROVE  AloneStep
<1>0. TypeOK
  BY DEF AloneInv, ChangesInv
<1>1. /\ rows' = rows /\ session[s].op = "execute"
      /\ session[s].at \in ExecuteSteps /\ session[s].at # "snapshot"
  BY DEF Write, Run, Check, Record, Restore, RestoreThenRaise, At, ExecuteSteps
<1>2. ASSUME NEW step \in (ExecuteSteps \cup Outcomes) \ {"snapshot", "write"}, Goto(s, step)
      PROVE  StillSeen(s)'
  <2>1. session'[s] = [session[s] EXCEPT !.at = step]
    BY <1>0, <1>1, <1>2, StepTyped
  <2>2. /\ session'[s].op = "execute" /\ session'[s].id = session[s].id
        /\ session'[s].prev = session[s].prev /\ session'[s].at = step
    BY <1>0, <1>1, <2>1, RequestFields
  <2> QED
    BY <1>1, <2>2 DEF StillSeen, Target, BaseOf, AloneInv
<1>3. ASSUME Record(s), ~Goto(s, "unknown") PROVE StillSeen(s)'
  <2>1. session'[s] = [session[s] EXCEPT !.at = "executed", !.applied = content]
    BY <1>0, <1>3 DEF Record, TypeOK
  <2>2. /\ session'[s].op = "execute" /\ session'[s].id = session[s].id
        /\ session'[s].prev = session[s].prev /\ session'[s].at = "executed"
    BY <1>0, <1>1, <2>1, RequestFields
  <2> QED
    BY <1>1, <2>2 DEF StillSeen, Target, BaseOf, AloneInv
<1>4. \/ Close(s)
      \/ \E step \in (ExecuteSteps \cup Outcomes) \ {"snapshot", "write"} : Goto(s, step)
      \/ Record(s) /\ ~Goto(s, "unknown")
  <2>1. CASE Write(s)
    BY <2>1 DEF Write, ExecuteSteps, Outcomes
  <2>2. CASE Run(s)
    BY <2>2 DEF Run, ExecuteSteps, Outcomes
  <2>3. CASE Check(s)
    BY <2>3 DEF Check, ExecuteSteps
  <2>4. CASE Record(s)
    BY <2>4 DEF Record, ExecuteSteps, Outcomes
  <2>5. CASE Restore(s) \/ RestoreThenRaise(s)
    BY <2>5 DEF Restore, RestoreThenRaise, ExecuteSteps, Outcomes
  <2> QED
    BY <2>1, <2>2, <2>3, <2>4, <2>5
<1>5. StillSeen(s)'
  BY <1>2, <1>3, <1>4, EndSees
<1>6. session[s].op # "rollback"
  BY <1>1
<1> QED
  BY <1>1, <1>5, <1>6, SeenStep, TableKept, BaseIsThere, NothingTakenBack DEF AloneStep

\* A request that ends without committing.
LEMMA EndAlone ==
  ASSUME AloneInv, NEW s \in Sessions, OnlyOf(s), Refused(s) \/ Crash(s)
  PROVE  AloneStep
<1>1. rows' = rows /\ content' = content /\ Close(s)
  BY DEF Refused, Crash
<1> QED
  BY <1>1, EndSees, SeenStep, TableKept, BaseIsThere, NothingTakenBack DEF AloneStep

\* The write of a rollback meets what its change left there.
LEMMA RollbackWriteAlone ==
  ASSUME AloneInv, NEW s \in Sessions, OnlyOf(s), RollbackWrite(s)
  PROVE  AloneStep
<1>0. TypeOK
  BY DEF AloneInv, ChangesInv
<1>1. rows' = rows /\ session[s].op = "rollback" /\ session[s].at = "write"
  BY DEF RollbackWrite
<1>2. AsApplied(session[s].id)
  BY <1>1 DEF AloneInv, StillSeen
<1>3. RollbackKeepsLaterEdits
  BY <1>2, IdleRequest DEF RollbackKeepsLaterEdits, OnlyOf
<1>4. CASE Goto(s, "rolled_back") /\ content' = Target(s).prev
  <2>1. session'[s] = [session[s] EXCEPT !.at = "rolled_back"]
    BY <1>0, <1>4 DEF Goto, TypeOK
  <2>2. /\ session'[s].op = "rollback" /\ session'[s].id = session[s].id
        /\ session'[s].at = "rolled_back"
    BY <1>0, <1>1, <2>1, RequestFields
  <2> QED
    BY <1>1, <1>3, <1>4, <2>2, SeenStep, TableKept, BaseIsThere DEF AloneStep, StillSeen, Target
<1>5. CASE Close(s)
  BY <1>1, <1>3, <1>5, EndSees, SeenStep, TableKept, BaseIsThere DEF AloneStep
<1> QED
  BY <1>4, <1>5 DEF RollbackWrite

\* A change is recorded as executed with the base it replaced.
LEMMA CommitExecuteAlone ==
  ASSUME AloneInv, NEW s \in Sessions, OnlyOf(s), CommitExecute(s)
  PROVE  AloneStep
<1> DEFINE i == session[s].id
<1>0. TypeOK
  BY DEF AloneInv, ChangesInv
<1>1. /\ session[s].op = "execute" /\ session[s].at \in Outcomes /\ content' = content /\ Close(s)
      /\ rows' = [rows EXCEPT ![i].status = session[s].at, ![i].prev = session[s].prev,
                              ![i].applied = session[s].applied]
  BY DEF CommitExecute
<1>2. i \in Changes /\ rows[i].status = "draft"
  BY <1>0, <1>1, RequestFields DEF AloneInv, ChangesInv, LockInv, Target
<1>3. /\ rows'[i] = [rows[i] EXCEPT !.status = session[s].at, !.prev = session[s].prev,
                                    !.applied = session[s].applied]
      /\ \A j \in Changes : j # i => rows'[j] = rows[j]
  BY <1>0, <1>1, <1>2 DEF TypeOK
<1>4. rows'[i].status = session[s].at /\ rows'[i].prev = session[s].prev
      /\ rows'[i].kind = rows[i].kind /\ rows'[i].base = rows[i].base
  BY <1>0, <1>2, <1>3, RowFields
<1>5. rows[i].kind # "run" => session[s].prev = BaseOf(rows[i])
  BY <1>1 DEF AloneInv, StillSeen, Target, Outcomes
<1>6. BaseKept'
  <2>1. rows[i].kind # "run" => rows'[i].prev = BaseOf(rows'[i])
    BY <1>4, <1>5 DEF BaseOf
  <2>2. \A j \in Changes : j # i =>
          (rows'[j].status = "executed" /\ rows'[j].kind # "run" =>
             rows'[j].prev = BaseOf(rows'[j]))
    BY <1>3 DEF BaseKept, AloneInv
  <2> QED
    BY <1>4, <2>1, <2>2 DEF BaseKept, BaseOf
<1>7. Lifecycle /\ RollbackRestoresBase
  BY <1>1, <1>2, <1>3, <1>4 DEF Lifecycle, RollbackRestoresBase, Outcomes
<1> QED
  BY <1>1, <1>6, <1>7, EndSees, SeenStep, BaseIsThere, NothingTakenBack DEF AloneStep

\* A change is recorded as rolled back when its base is there again.
LEMMA CommitRollbackAlone ==
  ASSUME AloneInv, NEW s \in Sessions, OnlyOf(s), CommitRollback(s)
  PROVE  AloneStep
<1> DEFINE i == session[s].id
<1>0. TypeOK
  BY DEF AloneInv, ChangesInv
<1>1. /\ session[s].op = "rollback" /\ session[s].at = "rolled_back"
      /\ content' = content /\ Close(s)
      /\ rows' = [rows EXCEPT ![i].status = "rolled_back"]
  BY DEF CommitRollback
<1>2. i \in Changes /\ rows[i].status = "executed" /\ rows[i].kind # "run"
  BY <1>0, <1>1, RequestFields DEF AloneInv, ChangesInv, LockInv, Target
<1>3. /\ rows'[i] = [rows[i] EXCEPT !.status = "rolled_back"]
      /\ \A j \in Changes : j # i => rows'[j] = rows[j]
  BY <1>0, <1>1, <1>2 DEF TypeOK
<1>4. rows'[i].status = "rolled_back"
  BY <1>0, <1>2, <1>3, RowFields
<1>5. content = BaseOf(rows[i])
  BY <1>1, <1>2 DEF AloneInv, StillSeen, Target, BaseKept
<1>6. BaseKept'
  BY <1>3, <1>4 DEF BaseKept, BaseOf, AloneInv
<1>7. Lifecycle /\ RollbackRestoresBase
  BY <1>2, <1>3, <1>4, <1>5 DEF Lifecycle, RollbackRestoresBase, BaseOf
<1> QED
  BY <1>1, <1>6, <1>7, EndSees, SeenStep, BaseIsThere, NothingTakenBack DEF AloneStep

\* A new draft replaces drafts only.
LEMMA CommitProposeAlone ==
  ASSUME AloneInv, NEW s \in Sessions, NEW i \in Changes, OnlyOf(s), CommitPropose(s, i)
  PROVE  AloneStep
<1>0. TypeOK
  BY DEF AloneInv, ChangesInv
<1>1. /\ session[s].op = "propose" /\ content' = content /\ Close(s)
      /\ rows' = Superseding(session[s], i)
  BY DEF CommitPropose
<1>7. rows[i].status = "none"
  BY DEF CommitPropose
<1>2. \A j \in Changes : j \in session[s].drafts => rows[j].status = "draft"
  BY <1>1 DEF AloneInv, StillSeen
<1>3. /\ rows'[i].status = "draft"
      /\ \A j \in Changes : j # i /\ j \notin session[s].drafts => rows'[j] = rows[j]
  BY <1>1 DEF Superseding
<1>4. ASSUME NEW j \in Changes, j # i, j \in session[s].drafts
      PROVE  rows'[j].status = "superseded" /\ rows[j].status = "draft"
  <2>1. rows'[j] = [rows[j] EXCEPT !.status = "superseded"]
    BY <1>1, <1>4 DEF Superseding
  <2> QED
    BY <1>0, <1>2, <1>4, <2>1, RowFields
<1>5. BaseKept'
  BY <1>3, <1>4 DEF BaseKept, BaseOf, AloneInv
<1>6. Lifecycle /\ RollbackRestoresBase
  BY <1>1, <1>3, <1>4, <1>7 DEF Lifecycle, RollbackRestoresBase
<1> QED
  BY <1>1, <1>5, <1>6, EndSees, SeenStep, BaseIsThere, NothingTakenBack DEF AloneStep

\* Between requests a draft may be rejected and the object edited.
LEMMA BetweenRequests ==
  ASSUME AloneInv, ChangesInv', session' = session, Busy = {},
         \/ \E i \in Changes : Reject(i)
         \/ \E c \in Held : Edit(c)
  PROVE  AloneStep
<1>0. TypeOK
  BY DEF AloneInv, ChangesInv
<1>1. \A s \in Sessions : session[s].op = "idle" /\ session'[s].op = "idle"
  BY IdleRequest DEF Busy
<1>2. (\A s \in Sessions : StillSeen(s)') /\ (\A s, t \in Busy' : s = t)
  BY <1>1 DEF StillSeen, Busy
<1>3. RollbackKeepsLaterEdits
  BY <1>1 DEF RollbackKeepsLaterEdits
<1>4. ASSUME NEW i \in Changes, Reject(i)
      PROVE  BaseKept' /\ Lifecycle /\ RollbackRestoresBase
  <2>1. rows[i].status = "draft" /\ rows' = [rows EXCEPT ![i].status = "rejected"]
    BY <1>4 DEF Reject
  <2>2. /\ rows'[i] = [rows[i] EXCEPT !.status = "rejected"]
        /\ \A j \in Changes : j # i => rows'[j] = rows[j]
    BY <1>0, <2>1 DEF TypeOK
  <2>3. rows'[i].status = "rejected"
    BY <1>0, <2>1, <2>2, RowFields
  <2>4. BaseKept'
    BY <2>2, <2>3 DEF BaseKept, BaseOf, AloneInv
  <2> QED
    BY <2>1, <2>2, <2>3, <2>4 DEF Lifecycle, RollbackRestoresBase
<1>5. ASSUME NEW c \in Held, Edit(c)
      PROVE  BaseKept' /\ Lifecycle /\ RollbackRestoresBase
  BY <1>5, TableKept DEF Edit
<1>6. BaseKept' /\ Lifecycle /\ RollbackRestoresBase
  BY <1>4, <1>5
<1> QED
  BY <1>2, <1>3, <1>6, BaseIsThere DEF AloneStep, AloneInv

\* Nothing has been drafted.
LEMMA InitAlone == Init => AloneInv
<1> SUFFICES ASSUME Init PROVE AloneInv
  OBVIOUS
<1>1. \A s \in Sessions : session[s] = Idle /\ session[s].op = "idle"
  BY IdleRequest DEF Init
<1>2. BaseKept
  BY DEF Init, BaseKept
<1> QED
  BY <1>1, <1>2, InitChanges DEF AloneInv, StillSeen, Busy

\* AloneInv is inductive, and every step keeps the promises.
LEMMA NextAlone == AloneInv /\ [SerialNext]_vars => AloneInv' /\ [AloneStep]_vars
<1> SUFFICES ASSUME AloneInv, [SerialNext]_vars PROVE AloneInv' /\ [AloneStep]_vars
  OBVIOUS
<1>1. CASE UNCHANGED vars
  BY <1>1 DEF vars, AloneInv, ChangesInv, TypeOK, LockInv, Target, DraftsExist, RunsOnce,
              RunsAreOnRecord, BaseKept, BaseOf, Busy, StillSeen, AsApplied
<1>2. CASE SerialNext
  <2>1. ASSUME NEW s \in Sessions, Request(s) PROVE AloneStep
    <3>1. OnlyOf(s)
      BY <1>2, <2>1, OnlyOne
    <3>2. CASE \/ \E a \in Authors, kind \in Kinds, new \in Held : BeginPropose(s, a, kind, new)
               \/ \E valid \in BOOLEAN : Validate(s, valid)
      BY <3>1, <3>2, ProposeAlone
    <3>3. CASE \E i \in Changes : CommitPropose(s, i) \/ BeginExecute(s, i) \/ BeginRollback(s, i)
      BY <3>1, <3>3, CommitProposeAlone, TakeAlone
    <3>4. CASE Snapshot(s)
      BY <3>1, <3>4, SnapshotAlone
    <3>5. CASE \/ Write(s) \/ Run(s) \/ Check(s) \/ Record(s) \/ Restore(s) \/ RestoreThenRaise(s)
      BY <3>1, <3>5, ExecutionAlone
    <3>6. CASE Refused(s) \/ Crash(s)
      BY <3>1, <3>6, EndAlone
    <3>7. CASE CommitExecute(s) \/ CommitRollback(s)
      BY <3>1, <3>7, CommitExecuteAlone, CommitRollbackAlone
    <3>8. CASE RollbackWrite(s)
      BY <3>1, <3>8, RollbackWriteAlone
    <3> QED
      BY <2>1, <3>2, <3>3, <3>4, <3>5, <3>6, <3>7, <3>8 DEF Request
  <2>2. ASSUME (\E i \in Changes : Reject(i)) \/ (\E c \in Held : Edit(c)) PROVE AloneStep
    <3>1. session' = session
      BY <2>2 DEF Reject, Edit
    <3>2. ChangesInv' /\ Busy = {}
      BY <1>2, <3>1, NextChanges DEF SerialNext, AloneInv
    <3> QED
      BY <2>2, <3>1, <3>2, BetweenRequests
  <2>3. AloneStep
    BY <1>2, <2>1, <2>2 DEF SerialNext, Next
  <2> QED
    BY <2>3 DEF AloneStep
<1> QED
  BY <1>1, <1>2

\* One at a time, what a request saw of its change and of the object is so until it ends.
THEOREM AloneInvariant == SerialSpec => []AloneInv
  BY InitAlone, NextAlone, PTL DEF SerialSpec

\* In the composition with the rules of environments and the cell writes, changes
\* that are worked on one at a time keep the invariant and its promises.
ChangedAlone == part = "alone" => AloneInv

LEMMA ComposedSteps ==
  /\ MCInit => ChangedAlone
  /\ ChangedAlone /\ [MCNext]_MCvars => ChangedAlone' /\ (part = "alone" => [AloneStep]_vars)
<1>1. MCInit => ChangedAlone
  BY InitAlone DEF MCInit, ChangedAlone
<1>2. ASSUME ChangedAlone, [MCNext]_MCvars, part = "alone" \/ part' = "alone"
      PROVE  AloneInv /\ [SerialNext]_vars
  BY <1>2 DEF MCNext, MCvars, OnlyDeployment, OnlyRules, OnlyCells, ChangedAlone
<1> QED
  BY <1>1, <1>2, NextAlone DEF ChangedAlone

\* One at a time, a change moves only along the lifecycle its model documents, and its
\* write overwrites only what its author saw (execute_change's drift check).
THEOREM WritesKeepTheirBase == MCSpec => OverwritesOnlyItsBaseAlone
<1>1. ChangedAlone /\ [MCNext]_MCvars =>
        [part = "alone" => Lifecycle /\ OverwritesOnlyItsBase]_vars
  BY ComposedSteps DEF AloneStep
<1> QED
  BY <1>1, ComposedSteps, PTL DEF MCSpec, OverwritesOnlyItsBaseAlone

\* One at a time, a rollback overwrites only what its change left there, and puts
\* back exactly what the change was drafted against (rollback_change).
THEOREM RollbacksRestoreTheBase == MCSpec => RollsBackItsOwnAlone
<1>1. ChangedAlone /\ [MCNext]_MCvars =>
        [part = "alone" => RollbackRestoresBase /\ RollbackKeepsLaterEdits]_vars
  BY ComposedSteps DEF AloneStep
<1> QED
  BY <1>1, ComposedSteps, PTL DEF MCSpec, RollsBackItsOwnAlone

-----------------------------------------------------------------------------
(***************************************************************************)
(* A change of cell values (CellWrites).                                   *)
(***************************************************************************)
CellRows == {v \in [Cube!Cells -> Cube!Values] : \A c \in Cube!Cells \ {Text} : ~Cube!IsText(v[c])}

Readable == Cube!Values \cup {Cube!Nothing}

\* The change has passed its checks.
Accepted == status \notin {"none", "refused"}

\* A request applies the change, or it is applied and might be rolled back.
Undoable == at \in {"write", "check", "restore", "undo"} \/ status = "executed"

\* The request is where the status has it, and its draft has no total that was one before.
StepInv ==
  /\ at \in {"snapshot", "write", "check", "restore"} => status = "draft"
  /\ at = "undo" => status = "executed"
  /\ Accepted /\ ~reshaped /\ consolidated => Total \notin Cube!Written

\* Until it writes, the cells are those it checked, and those its author saw, but for
\* what was touched.
SeenInv ==
  at \in {"snapshot", "write"} =>
    /\ \A c \in Cube!Cells \ touched : value[c] = was[c]
    /\ \A c \in Cube!Written \ touched : \E v \in Cube!Reports(value[c]) : Cube!Normalised(v) = base[c]

\* The snapshot has the numeric cells as they were.
SnapshotInv ==
  Undoable =>
    /\ before \in [Cube!Written -> Readable]
    /\ \A c \in Cube!Written \ {Text} : ~Cube!IsText(Cube!Normalised(before[c]))
    /\ \A c \in Cube!Written \ (touched \cup {Text}) : Cube!Normalised(before[c]) = was[c]

\* An executed change is what the server holds, also while it is rolled back.
HeldInv == status = "executed" => \A c \in Cube!Written \ touched : Cube!same_value(value[c], writes[c])

CellsInv == Cube!TypeOK /\ StepInv /\ SeenInv /\ SnapshotInv /\ HeldInv /\ Cube!CellsComeBack

-----------------------------------------------------------------------------
\* The values, told apart.
LEMMA ValuesAre ==
  /\ Cube!Values = {Cube!Zero, Cube!One, Cube!Blank, Cube!Word, <<"text", "0">>, <<"text", "1">>}
  /\ Cube!Nothing \notin Cube!Values
  /\ \A v \in Cube!Values : Cube!IsText(v) <=> v \notin {Cube!Zero, Cube!One}
  /\ \A v \in Cube!Values : <<"text", v[2]>> \in Cube!Values
  /\ \A v \in Cube!Values : Cube!IsText(<<"text", v[2]>>)
<1>1. Cube!Values = {Cube!Zero, Cube!One, Cube!Blank, Cube!Word, <<"text", "0">>, <<"text", "1">>}
  BY DEF Cube!Values
<1>2. Cube!Nothing \notin Cube!Values
  BY DEF Cube!Values, Cube!Nothing, Cube!Zero, Cube!One, Cube!Blank, Cube!Word
<1>3. \A v \in Cube!Values : Cube!IsText(v) <=> v \notin {Cube!Zero, Cube!One}
  <2>1. /\ ~Cube!IsText(Cube!Zero) /\ ~Cube!IsText(Cube!One) /\ Cube!IsText(Cube!Blank) /\ Cube!IsText(Cube!Word)
        /\ Cube!IsText(<<"text", "0">>) /\ Cube!IsText(<<"text", "1">>)
    BY DEF Cube!IsText, Cube!Zero, Cube!One, Cube!Blank, Cube!Word
  <2> QED
    BY <1>1, <2>1
<1>4. \A v \in Cube!Values : <<"text", v[2]>> \in Cube!Values
  <2>1. /\ Cube!Zero[2] = "0" /\ Cube!One[2] = "1" /\ Cube!Blank[2] = "" /\ Cube!Word[2] = "a"
        /\ Cube!Blank = <<"text", "">> /\ Cube!Word = <<"text", "a">>
        /\ <<"text", "0">>[2] = "0" /\ <<"text", "1">>[2] = "1"
    BY DEF Cube!Zero, Cube!One, Cube!Blank, Cube!Word
  <2> QED
    BY <1>1, <2>1
<1>5. \A v \in Cube!Values : Cube!IsText(<<"text", v[2]>>)
  BY DEF Cube!IsText
<1> QED
  BY <1>1, <1>2, <1>3, <1>4, <1>5

\* A value that is read as it is, or as nothing, is normalised to a value: a number to itself.
LEMMA NormalIs ==
  /\ \A v \in Readable : Cube!Normalised(v) \in Cube!Values
  /\ \A v \in Cube!Values : Cube!Reports(v) \subseteq Readable
  /\ \A v \in Cube!Values : \A r \in Cube!Reports(v) : ~Cube!IsText(v) => Cube!Normalised(r) = v
<1>1. Cube!Zero \in Cube!Values
  BY ValuesAre
<1>2. \A v \in Readable : Cube!Normalised(v) \in Cube!Values
  BY <1>1 DEF Readable, Cube!Normalised
<1>3. \A v \in Cube!Values : Cube!Reports(v) \subseteq Readable
  BY DEF Cube!Reports, Readable
<1>4. ASSUME NEW v \in Cube!Values, NEW r \in Cube!Reports(v), ~Cube!IsText(v)
      PROVE  Cube!Normalised(r) = v
  <2>1. v \in {Cube!Zero, Cube!One} /\ Cube!One # Cube!Zero /\ Cube!One # Cube!Blank
    BY <1>4, ValuesAre DEF Cube!Zero, Cube!One, Cube!Blank
  <2>2. Cube!Zero # Cube!Nothing /\ Cube!One # Cube!Nothing
    BY <1>1, ValuesAre
  <2> QED
    BY <2>1, <2>2, <1>4 DEF Cube!Reports, Cube!Normalised
<1> QED
  BY <1>2, <1>3, <1>4

\* What is read back as what was written is what was written.
LEMMA ReadIsHeld ==
  ASSUME NEW v \in Cube!Values, NEW r \in Cube!Reports(v), NEW w \in {Cube!Zero, Cube!One, Cube!Word},
         Cube!same_value(r, w)
  PROVE  Cube!same_value(v, w)
<1>1. CASE r = v
  BY <1>1
<1>2. CASE r = Cube!Nothing /\ v \in {Cube!Zero, Cube!Blank}
  <2>1. Cube!AsNumber(r) = "0" /\ Cube!AsText(r) = ""
    BY <1>2 DEF Cube!AsNumber, Cube!AsText
  <2>2. Cube!Zero[2] = "0"
    BY DEF Cube!Zero
  <2>3. Cube!AsNumber(v) = "0"
    BY <1>2, <2>2 DEF Cube!AsNumber
  <2>4. Cube!AsNumber(r) = "0" /\ Cube!AsNumber(v) = "0" /\ Cube!AsText(r) = ""
    BY <2>1, <2>3
  <2>5. CASE w \in {Cube!Zero, Cube!One}
    <3>1. w[1] = "number"
      BY <2>5 DEF Cube!Zero, Cube!One
    <3> QED
      BY <2>4, <3>1 DEF Cube!same_value
  <2>6. CASE w = Cube!Word
    <3>1. w[1] = "text" /\ r[1] = "none" /\ Cube!AsText(w) = "a"
      BY <1>2, <2>6 DEF Cube!Word, Cube!Nothing, Cube!AsText
    <3> QED
      BY <2>4, <3>1 DEF Cube!same_value
  <2> QED
    BY <2>5, <2>6
<1> QED
  BY <1>1, <1>2 DEF Cube!Reports

\* One request to write (external): what it puts where, unless one of the cells is a total.
LEMMA PutIs ==
  ASSUME NEW v \in CellRows, NEW w, DOMAIN w \subseteq Cube!Cells, \A c \in DOMAIN w : w[c] \in Cube!Values,
         Cube!Accepts(w)
  PROVE  /\ Cube!Put(v, w) \in CellRows
         /\ ~(consolidated /\ Total \in DOMAIN w) =>
              \A c \in Cube!Cells :
                ~(consolidated /\ c = Total) =>
                   Cube!Put(v, w)[c] = IF c \in DOMAIN w THEN Cube!Stored(c, w[c]) ELSE v[c]
<1> DEFINE w1 == [c \in Cube!Cells |-> IF c \in DOMAIN w THEN Cube!Stored(c, w[c]) ELSE v[c]]
<1>1. Numeric \in Cube!Cells /\ Total \in Cube!Cells /\ Text \in Cube!Cells
      /\ Numeric # Text /\ Total # Text /\ Numeric # Total
  BY CellsAssumption DEF Cube!Cells
<1>2. \A c \in Cube!Cells : w1[c] \in Cube!Values /\ (c # Text => ~Cube!IsText(w1[c]))
  <2> SUFFICES ASSUME NEW c \in Cube!Cells
               PROVE  w1[c] \in Cube!Values /\ (c # Text => ~Cube!IsText(w1[c]))
    OBVIOUS
  <2>1. CASE c \in DOMAIN w
    <3>1. w1[c] = Cube!Stored(c, w[c]) /\ w[c] \in Cube!Values
      BY <2>1
    <3>2. c # Text => ~Cube!IsText(w[c])
      BY <2>1 DEF Cube!Accepts
    <3> QED
      BY <3>1, <3>2, ValuesAre DEF Cube!Stored
  <2>2. CASE c \notin DOMAIN w
    BY <2>2 DEF CellRows
  <2> QED
    BY <2>1, <2>2
<1>3. w1 \in [Cube!Cells -> Cube!Values]
  BY <1>2
<1> HIDE DEF w1
<1>4. Cube!Put(v, w) = IF consolidated /\ Total \in DOMAIN w
                       THEN [w1 EXCEPT ![Numeric] = w1[Total]] ELSE Cube!Summed(w1)
  BY DEF Cube!Put, w1
<1>5. CASE consolidated /\ Total \in DOMAIN w
  <2>1. Cube!Put(v, w) = [w1 EXCEPT ![Numeric] = w1[Total]]
    BY <1>4, <1>5
  <2> QED
    BY <1>1, <1>2, <1>3, <1>5, <2>1 DEF CellRows
<1>6. CASE ~(consolidated /\ Total \in DOMAIN w)
  <2>1. Cube!Put(v, w) = IF consolidated THEN [w1 EXCEPT ![Total] = w1[Numeric]] ELSE w1
    BY <1>4, <1>6 DEF Cube!Summed
  <2>2. Cube!Put(v, w) \in CellRows
    BY <1>1, <1>2, <1>3, <2>1 DEF CellRows
  <2>3. \A c \in Cube!Cells : ~(consolidated /\ c = Total) => Cube!Put(v, w)[c] = w1[c]
    BY <1>1, <1>3, <2>1
  <2> QED
    BY <2>2, <2>3 DEF w1
<1> QED
  BY <1>5, <1>6

\* The types, part by part.
LEMMA CellTypes ==
  Cube!TypeOK <=>
    /\ value \in CellRows /\ consolidated \in BOOLEAN /\ reshaped \in BOOLEAN /\ writes \in Cube!Some
    /\ status \in {"none", "refused", "draft", "executed", "failed", "unknown", "rolled_back"}
    /\ at \in {"rest", "snapshot", "write", "check", "restore", "undo"}
    /\ touched \in SUBSET Cube!Cells
  BY DEF Cube!TypeOK, CellRows

\* What a change writes.
LEMMA WritesAre ==
  ASSUME NEW w \in Cube!Some
  PROVE  DOMAIN w \subseteq Cube!Cells /\ \A c \in DOMAIN w : w[c] \in {Cube!Zero, Cube!One, Cube!Word}
  BY DEF Cube!Some

\* The cells as the model begins satisfy the invariant.
LEMMA InitCells == Cube!Init => CellsInv
<1> SUFFICES ASSUME Cube!Init PROVE CellsInv
  OBVIOUS
<1>1. value \in CellRows
  BY CellsAssumption, ValuesAre DEF Cube!Init, CellRows, Cube!Cells
<1>2. Cube!Unset \in Cube!Some
  <2>1. Cube!Cardinality({}) = 0
    BY FS_EmptySet DEF Cube!Cardinality, Cardinality
  <2>2. {} \in {E \in SUBSET Cube!Cells : Cube!Cardinality(E) <= MaxCellWrites}
    BY <2>1, CellsAssumption
  <2>3. Cube!Unset \in [{} -> {Cube!Zero, Cube!One, Cube!Word}]
    BY DEF Cube!Unset
  <2> QED
    BY <2>2, <2>3 DEF Cube!Some
<1>3. Cube!TypeOK
  BY <1>1, <1>2, CellTypes DEF Cube!Init
<1> QED
  BY <1>3 DEF Cube!Init, CellsInv, StepInv, SeenInv, SnapshotInv, HeldInv, Cube!CellsComeBack, Undoable, Accepted

\* What holds of the cells of a change while others work in TM1: they change the cells
\* they touch, and what a request saw of the others is still so.
LEMMA OthersTouch ==
  ASSUME CellsInv, value' \in CellRows, consolidated' \in BOOLEAN, reshaped' \in BOOLEAN,
         Cube!Open, UNCHANGED <<writes, status, at, base, before, applied, was>>,
         NEW D \in SUBSET Cube!Cells, \A c \in Cube!Cells \ D : value'[c] = value[c],
         touched' = IF at # "rest" \/ status = "executed" THEN touched \cup D ELSE touched,
         status # "none" /\ ~reshaped' => ~reshaped /\ consolidated' = consolidated
  PROVE  CellsInv'
<1>1. Cube!Written' = Cube!Written /\ Cube!Written \subseteq Cube!Cells
  BY CellTypes, WritesAre DEF CellsInv, Cube!Written
<1>2. touched \subseteq touched' /\ touched' \in SUBSET Cube!Cells
  BY CellTypes DEF CellsInv
<1>3. Cube!TypeOK'
  BY <1>2, CellTypes DEF CellsInv, Cube!TypeOK, CellRows
<1>4. Accepted' = Accepted /\ (Accepted /\ ~reshaped' => ~reshaped /\ consolidated' = consolidated)
  BY DEF Accepted
<1>5. StepInv'
  BY <1>1, <1>4 DEF CellsInv, StepInv
<1>6. ASSUME at # "rest" \/ status = "executed", NEW c \in Cube!Cells \ touched'
      PROVE  c \notin touched /\ value'[c] = value[c]
  BY <1>6
<1>7. SeenInv'
  BY <1>1, <1>6 DEF CellsInv, SeenInv, Cube!Reports
<1>8. Undoable' = Undoable
  BY DEF Undoable
<1>9. SnapshotInv'
  BY <1>1, <1>2, <1>8 DEF CellsInv, SnapshotInv, Readable
<1>10. HeldInv'
  BY <1>1, <1>6 DEF CellsInv, HeldInv
<1>11. Cube!CellsComeBack'
  BY DEF Cube!Open, Cube!CellsComeBack
<1> QED
  BY <1>3, <1>5, <1>7, <1>9, <1>10, <1>11 DEF CellsInv

\* A planner's write (external) keeps the invariant.
LEMMA PlannerStep ==
  ASSUME CellsInv, NEW c \in Cube!Cells, NEW v \in {Cube!Zero, Cube!One, Cube!Blank, Cube!Word}, Cube!Planner(c, v)
  PROVE  CellsInv'
<1>1. value \in CellRows /\ v \in Cube!Values /\ (c # Text => ~Cube!IsText(v))
  BY CellTypes, ValuesAre DEF CellsInv, Cube!Planner
<1>2. PICK w : w = [value EXCEPT ![c] = v]
  OBVIOUS
<1>3. w \in CellRows
  BY <1>1, <1>2 DEF CellRows
<1>4. Cube!Summed(w) \in CellRows
  BY <1>3, CellsAssumption DEF Cube!Summed, CellRows, Cube!Cells
<1>5. value' = Cube!Summed(w) /\ UNCHANGED <<consolidated, reshaped>>
  BY <1>2 DEF Cube!Planner
<1>6. PICK D \in SUBSET Cube!Cells : D = {d \in Cube!Cells : value'[d] # value[d]}
  OBVIOUS
<1>7. touched' = IF at # "rest" \/ status = "executed" THEN touched \cup D ELSE touched
  BY <1>6 DEF Cube!Planner, Cube!Touch
<1>8. consolidated' \in BOOLEAN /\ reshaped' \in BOOLEAN /\ value' \in CellRows
  BY <1>4, <1>5, CellTypes DEF CellsInv
<1>9. UNCHANGED <<writes, status, at, base, before, applied, was>> /\ Cube!Open
  BY DEF Cube!Planner
<1>10. \A d \in Cube!Cells \ D : value'[d] = value[d]
  BY <1>6
<1> QED
  BY <1>5, <1>7, <1>8, <1>9, <1>10, OthersTouch

\* So does an element that becomes the parent of another (external).
LEMMA ReshapeStep ==
  ASSUME CellsInv, Cube!Reshape
  PROVE  CellsInv'
<1>1. value \in CellRows
  BY CellTypes DEF CellsInv
<1>2. value' \in CellRows /\ \A d \in Cube!Cells \ {Total} : value'[d] = value[d]
  BY <1>1, CellsAssumption DEF Cube!Reshape, CellRows, Cube!Cells
<1>3. {Total} \in SUBSET Cube!Cells
  BY DEF Cube!Cells
<1>4. touched' = IF at # "rest" \/ status = "executed" THEN touched \cup {Total} ELSE touched
  BY DEF Cube!Reshape, Cube!Touch
<1>5. consolidated' \in BOOLEAN /\ reshaped' \in BOOLEAN /\ (status # "none" => reshaped')
      /\ UNCHANGED <<writes, status, at, base, before, applied, was>> /\ Cube!Open
  BY DEF Cube!Reshape
<1> QED
  BY <1>2, <1>3, <1>4, <1>5, OthersTouch

-----------------------------------------------------------------------------
\* What the cells read are.
LEMMA ReadingsAre ==
  ASSUME NEW D, NEW r \in Cube!Readings(D)
  PROVE  /\ DOMAIN r = D /\ r \in [D -> Readable] /\ \A c \in D : r[c] \in Cube!Reports(value[c])
         /\ DOMAIN Cube!Normal(r) = D /\ \A c \in D : Cube!Normal(r)[c] = Cube!Normalised(r[c])
  BY DEF Cube!Readings, Readable, Cube!Normal

\* A change that is drafted keeps the invariant (create_change).
LEMMA DraftCellsStep ==
  ASSUME CellsInv, NEW w \in Cube!Some, Cube!create_change(w)
  PROVE  CellsInv'
<1>1. at = "rest" /\ UNCHANGED <<value, consolidated, at, reshaped, touched>>
  BY CellTypes DEF CellsInv, StepInv, Cube!create_change
<1>2. PICK r \in Cube!Readings(DOMAIN w) : status' = IF Cube!Findings(w, r) = {} THEN "draft" ELSE "refused"
  BY DEF Cube!create_change
<1>3. status' = "draft" /\ consolidated => Total \notin Cube!Written'
  BY <1>2 DEF Cube!create_change, Cube!Findings, Cube!Written
<1>4. Cube!TypeOK'
  BY <1>1, <1>2, CellTypes DEF CellsInv, Cube!TypeOK, Cube!create_change
<1>5. StepInv' /\ SeenInv' /\ SnapshotInv' /\ HeldInv' /\ Cube!CellsComeBack'
  BY <1>1, <1>2, <1>3 DEF StepInv, SeenInv, SnapshotInv, HeldInv, Cube!CellsComeBack, Undoable, Accepted
<1> QED
  BY <1>4, <1>5 DEF CellsInv

\* A request that begins to apply it has looked at the cells (execute_change).
LEMMA BeginCellsStep ==
  ASSUME CellsInv, Cube!execute_change
  PROVE  CellsInv'
<1>1. /\ status = "draft" /\ at = "rest" /\ was' = value /\ touched' = {} /\ at' = "snapshot"
      /\ UNCHANGED <<consolidated, writes, reshaped, base, value, status, before, applied>>
  BY DEF Cube!execute_change, Cube!Goto
<1>2. PICK r \in Cube!Readings(Cube!Written) : Cube!Normal(r) = base
  BY DEF Cube!execute_change
<1>3. Cube!TypeOK'
  BY <1>1, CellTypes DEF CellsInv, Cube!TypeOK
<1>4. \A c \in Cube!Written : r[c] \in Cube!Reports(value[c]) /\ Cube!Normalised(r[c]) = base[c]
  BY <1>2, ReadingsAre
<1>5. Cube!Written' = Cube!Written
  BY <1>1 DEF Cube!Written
<1>6. SeenInv'
  BY <1>1, <1>4, <1>5 DEF SeenInv, Cube!Reports
<1>7. StepInv' /\ SnapshotInv' /\ HeldInv' /\ Cube!CellsComeBack'
  BY <1>1, <1>5 DEF CellsInv, StepInv, SnapshotInv, HeldInv, Cube!CellsComeBack, Undoable, Accepted
<1> QED
  BY <1>3, <1>6, <1>7 DEF CellsInv

\* Its snapshot.
LEMMA SnapshotCellsStep ==
  ASSUME CellsInv, Cube!Snapshot
  PROVE  CellsInv'
<1>1. /\ at = "snapshot" /\ at' = "write" /\ before' \in Cube!Readings(Cube!Written)
      /\ UNCHANGED <<consolidated, writes, reshaped, base, value, status, applied, was, touched>>
  BY DEF Cube!Snapshot, Cube!Goto
<1>2. Cube!TypeOK' /\ Cube!Written' = Cube!Written /\ Cube!Written \subseteq Cube!Cells
  BY <1>1, CellTypes, WritesAre DEF CellsInv, Cube!TypeOK, Cube!Written
<1>3. before' \in [Cube!Written -> Readable] /\ \A c \in Cube!Written : before'[c] \in Cube!Reports(value[c])
  BY <1>1, ReadingsAre
<1>4. \A c \in Cube!Written : value[c] \in Cube!Values /\ (c # Text => ~Cube!IsText(value[c]))
  BY <1>2, CellTypes DEF CellsInv, CellRows
<1>5. \A c \in Cube!Written \ {Text} : Cube!Normalised(before'[c]) = value[c]
  BY <1>3, <1>4, NormalIs
<1>6. \A c \in Cube!Written \ touched : value[c] = was[c]
  BY <1>1, <1>2 DEF CellsInv, SeenInv
<1>7. SnapshotInv'
  <2>1. \A c \in Cube!Written \ {Text} : ~Cube!IsText(Cube!Normalised(before'[c]))
    BY <1>4, <1>5
  <2>2. \A c \in Cube!Written \ (touched \cup {Text}) : Cube!Normalised(before'[c]) = was[c]
    BY <1>5, <1>6
  <2> QED
    BY <1>1, <1>2, <1>3, <2>1, <2>2 DEF SnapshotInv, Readable, Cube!IsText, Cube!Normalised
<1>8. StepInv' /\ SeenInv' /\ HeldInv' /\ Cube!CellsComeBack'
  BY <1>1, <1>2 DEF CellsInv, StepInv, SeenInv, HeldInv, Cube!CellsComeBack, Accepted, Cube!Reports
<1> QED
  BY <1>2, <1>7, <1>8 DEF CellsInv

-----------------------------------------------------------------------------
\* What a step of a request promises beside the invariant.
CellsStep == Cube!OnlyListedCells /\ Cube!OverwritesWhatWasSeen

\* A step of a request that leaves the cells, the draft and what it saw as they are
\* keeps the invariant if what its outcome says is so.
LEMMA RequestKeeps ==
  ASSUME CellsInv, at # "rest", value' \in CellRows,
         UNCHANGED <<consolidated, writes, reshaped, was>>, touched' \in SUBSET Cube!Cells, touched \subseteq touched',
         status' \in {"draft", "executed", "failed", "unknown", "rolled_back"},
         at' \in {"rest", "check", "restore"}, at' \in {"check", "restore"} => status' = "draft",
         Undoable' => Undoable /\ before' = before,
         HeldInv', Cube!CellsComeBack',
         ~reshaped => \A c \in Cube!Leaves \ Cube!Written : value'[c] = value[c]
  PROVE  CellsInv' /\ CellsStep
<1>1. Cube!Written' = Cube!Written /\ Cube!TypeOK'
  BY CellTypes DEF CellsInv, Cube!Written, Cube!TypeOK, CellRows
<1>2. Accepted
  BY CellTypes DEF CellsInv, StepInv, Accepted
<1>3. StepInv' /\ SeenInv'
  BY <1>1, <1>2 DEF CellsInv, StepInv, SeenInv
<1>4. SnapshotInv'
  BY <1>1 DEF CellsInv, SnapshotInv, Readable
<1>5. CellsStep
  BY DEF CellsInv, SeenInv, CellsStep, Cube!OnlyListedCells, Cube!OverwritesWhatWasSeen
<1> QED
  BY <1>1, <1>3, <1>4, <1>5 DEF CellsInv

\* What a write of the change itself puts where.
LEMMA PutsTheChange ==
  ASSUME CellsInv, Cube!Accepts(writes), NEW D \in SUBSET Cube!Written
  PROVE  /\ Cube!Put(value, Cube!Only(writes, D)) \in CellRows
         /\ ~reshaped /\ Accepted => \A c \in Cube!Leaves \ Cube!Written : Cube!Put(value, Cube!Only(writes, D))[c] = value[c]
<1>1. PICK w : w = Cube!Only(writes, D)
  OBVIOUS
<1>2. DOMAIN w = D /\ \A c \in D : w[c] = writes[c]
  BY <1>1 DEF Cube!Only
<1>3. value \in CellRows /\ writes \in Cube!Some
  BY CellTypes DEF CellsInv
<1>4. D \subseteq Cube!Cells /\ \A c \in D : w[c] \in Cube!Values
  BY <1>2, <1>3, WritesAre, ValuesAre DEF Cube!Written
<1>5. Cube!Accepts(w)
  BY <1>2 DEF Cube!Accepts, Cube!Written
<1>6. /\ Cube!Put(value, w) \in CellRows
      /\ ~(consolidated /\ Total \in D) =>
           \A c \in Cube!Cells : ~(consolidated /\ c = Total) =>
             Cube!Put(value, w)[c] = IF c \in D THEN Cube!Stored(c, w[c]) ELSE value[c]
  BY <1>2, <1>3, <1>4, <1>5, PutIs
<1>7. ~reshaped /\ Accepted => ~(consolidated /\ Total \in D)
  BY DEF CellsInv, StepInv
<1> QED
  BY <1>1, <1>6, <1>7 DEF Cube!Leaves

\* All of it is what the draft says.
LEMMA AllIsTheChange ==
  ASSUME CellsInv
  PROVE  Cube!Only(writes, Cube!Written) = writes
  BY DEF CellsInv, Cube!TypeOK, Cube!Some, Cube!Only, Cube!Written

\* What the restored snapshot puts where (restore_cells).
LEMMA PutsItBack ==
  ASSUME CellsInv, Undoable, Accepted
  PROVE  /\ Cube!Put(value, Cube!Restored) \in CellRows
         /\ ~reshaped =>
              /\ \A c \in Cube!Leaves \ Cube!Written : Cube!Put(value, Cube!Restored)[c] = value[c]
              /\ \A c \in Cube!Written \ (touched \cup {Text}) : Cube!Put(value, Cube!Restored)[c] = was[c]
<1>1. PICK w : w = Cube!Restored
  OBVIOUS
<1>2. before \in [Cube!Written -> Readable]
  BY DEF CellsInv, SnapshotInv
<1>3. DOMAIN w = Cube!Written /\ \A c \in Cube!Written : w[c] = Cube!Normalised(before[c])
  BY <1>1, <1>2 DEF Cube!Restored, Cube!Normal
<1>4. value \in CellRows /\ Cube!Written \subseteq Cube!Cells
  BY CellTypes, WritesAre DEF CellsInv, Cube!Written
<1>5. \A c \in Cube!Written : w[c] \in Cube!Values
  BY <1>2, <1>3, NormalIs
<1>6. \A c \in Cube!Written : c # Text => ~Cube!IsText(w[c])
  BY <1>3 DEF CellsInv, SnapshotInv
<1>7. Cube!Accepts(w)
  BY <1>3, <1>6 DEF Cube!Accepts
<1>8. /\ Cube!Put(value, w) \in CellRows
      /\ ~(consolidated /\ Total \in Cube!Written) =>
           \A c \in Cube!Cells : ~(consolidated /\ c = Total) =>
             Cube!Put(value, w)[c] = IF c \in Cube!Written THEN Cube!Stored(c, w[c]) ELSE value[c]
  BY <1>3, <1>4, <1>5, <1>7, PutIs
<1>9. ~reshaped => ~(consolidated /\ Total \in Cube!Written)
  BY DEF CellsInv, StepInv
<1>10. \A c \in Cube!Written \ (touched \cup {Text}) : Cube!Stored(c, w[c]) = was[c]
  BY <1>3 DEF CellsInv, SnapshotInv, Cube!Stored
<1> QED
  BY <1>1, <1>4, <1>8, <1>9, <1>10 DEF Cube!Leaves

-----------------------------------------------------------------------------
\* A request that ends with an error leaves the row as it was.
LEMMA RaisesIs ==
  ASSUME CellsInv, Accepted, at # "rest", Cube!Raises
  PROVE  /\ at' = "rest" /\ status' = status /\ UNCHANGED <<consolidated, writes, reshaped>>
         /\ status' \in {"draft", "executed", "failed", "unknown", "rolled_back"}
         /\ Undoable' => Undoable /\ before' = before
  BY CellTypes DEF CellsInv, StepInv, Cube!Raises, Cube!Goto, Undoable, Accepted

\* The write (sent once).
LEMMA WriteStep ==
  ASSUME CellsInv, Cube!Write
  PROVE  CellsInv' /\ CellsStep
<1>1. at = "write" /\ status = "draft" /\ UNCHANGED <<applied, was, touched>> /\ value \in CellRows
      /\ touched \in SUBSET Cube!Cells
  BY CellTypes DEF CellsInv, StepInv, Cube!Write
<1>2. Accepted
  BY <1>1 DEF Accepted
<1>3. CASE /\ Cube!Accepts(writes)
           /\ \E D \in SUBSET Cube!Written : value' = Cube!Put(value, Cube!Only(writes, D))
           /\ Cube!Goto("check") /\ UNCHANGED <<base, status, before>>
  <2>1. value' \in CellRows /\ (~reshaped => \A c \in Cube!Leaves \ Cube!Written : value'[c] = value[c])
    BY <1>2, <1>3, PutsTheChange
  <2>2. UNCHANGED <<consolidated, writes, reshaped>> /\ at' = "check" /\ status' = "draft" /\ before' = before
    BY <1>1, <1>3 DEF Cube!Goto
  <2>3. HeldInv' /\ Cube!CellsComeBack' /\ Undoable
    BY <1>1, <2>2 DEF HeldInv, Cube!CellsComeBack, Undoable
  <2> QED
    BY <1>1, <2>1, <2>2, <2>3, RequestKeeps
<1>4. CASE value' = value /\ Cube!Raises
  <2>1. /\ at' = "rest" /\ status' = "draft" /\ UNCHANGED <<consolidated, writes, reshaped>>
        /\ Undoable' => Undoable /\ before' = before
    BY <1>1, <1>2, <1>4, RaisesIs
  <2>2. HeldInv' /\ Cube!CellsComeBack'
    BY <2>1 DEF HeldInv, Cube!CellsComeBack
  <2> QED
    BY <1>1, <1>4, <2>1, <2>2, RequestKeeps
<1>5. CASE value' \in {value, Cube!Put(value, writes)} /\ (value' # value => Cube!Accepts(writes)) /\ Cube!Ends("unknown")
  <2>1. value' \in CellRows /\ (~reshaped => \A c \in Cube!Leaves \ Cube!Written : value'[c] = value[c])
    <3>1. CASE value' = value
      BY <1>1, <3>1
    <3>2. CASE value' = Cube!Put(value, writes) /\ Cube!Accepts(writes)
      <4>1. value' = Cube!Put(value, Cube!Only(writes, Cube!Written))
        BY <3>2, AllIsTheChange
      <4> QED
        BY <1>2, <3>2, <4>1, PutsTheChange
    <3> QED
      BY <1>5, <3>1, <3>2
  <2>2. UNCHANGED <<consolidated, writes, reshaped>> /\ at' = "rest" /\ status' = "unknown"
    BY <1>5 DEF Cube!Ends, Cube!Goto
  <2>3. HeldInv' /\ Cube!CellsComeBack' /\ ~Undoable'
    BY <2>2 DEF HeldInv, Cube!CellsComeBack, Undoable
  <2> QED
    BY <1>1, <2>1, <2>2, <2>3, RequestKeeps
<1> QED
  BY <1>3, <1>4, <1>5 DEF Cube!Write

\* What is left or put back when TM1 may not have answered.
LEMMA BackOrNot ==
  ASSUME CellsInv, Undoable, Accepted, value' \in {value, Cube!Put(value, Cube!Restored)}
  PROVE  value' \in CellRows /\ (~reshaped => \A c \in Cube!Leaves \ Cube!Written : value'[c] = value[c])
<1>1. value \in CellRows
  BY CellTypes DEF CellsInv
<1>2. CASE value' = value
  BY <1>1, <1>2
<1>3. CASE value' = Cube!Put(value, Cube!Restored)
  BY <1>3, PutsItBack
<1> QED
  BY <1>2, <1>3

\* The read-back and its comparison.
LEMMA CheckCellsStep ==
  ASSUME CellsInv, Cube!Check
  PROVE  CellsInv' /\ CellsStep
<1>1. at = "check" /\ status = "draft" /\ UNCHANGED <<was, touched>> /\ value \in CellRows
      /\ touched \in SUBSET Cube!Cells
  BY CellTypes DEF CellsInv, StepInv, Cube!Check
<1>2. Accepted /\ Undoable
  BY <1>1 DEF Accepted, Undoable
<1>3. ASSUME NEW r \in Cube!Readings(Cube!Written), \A c \in Cube!Written : Cube!same_value(r[c], writes[c]),
             value' = value, Cube!Ends("executed")
      PROVE  CellsInv' /\ CellsStep
  <2>1. /\ UNCHANGED <<consolidated, writes, reshaped>> /\ at' = "rest" /\ status' = "executed" /\ before' = before
    BY <1>3 DEF Cube!Ends, Cube!Goto
  <2>2. Cube!Written \subseteq Cube!Cells /\ \A c \in Cube!Written : writes[c] \in {Cube!Zero, Cube!One, Cube!Word}
    BY CellTypes, WritesAre DEF CellsInv, Cube!Written
  <2>3. \A c \in Cube!Written : r[c] \in Cube!Reports(value[c]) /\ value[c] \in Cube!Values
    BY <1>1, <1>3, <2>2, ReadingsAre DEF CellRows
  <2>4. \A c \in Cube!Written : Cube!same_value(value[c], writes[c])
    BY <1>3, <2>2, <2>3, ReadIsHeld
  <2>5. Cube!Written' = Cube!Written
    BY <2>1 DEF Cube!Written
  <2>6. HeldInv'
    BY <1>3, <2>1, <2>4, <2>5 DEF HeldInv, Cube!same_value, Cube!AsNumber, Cube!AsText
  <2>7. Cube!CellsComeBack'
    BY <2>1 DEF Cube!CellsComeBack
  <2> QED
    BY <1>1, <1>2, <1>3, <2>1, <2>6, <2>7, RequestKeeps
<1>4. ASSUME UNCHANGED <<value, applied, base, status, before>>, Cube!Goto("restore")
      PROVE  CellsInv' /\ CellsStep
  <2>1. UNCHANGED <<consolidated, writes, reshaped>> /\ at' = "restore" /\ status' = "draft"
    BY <1>1, <1>4 DEF Cube!Goto
  <2>2. HeldInv' /\ Cube!CellsComeBack'
    BY <2>1 DEF HeldInv, Cube!CellsComeBack
  <2> QED
    BY <1>1, <1>2, <1>4, <2>1, <2>2, RequestKeeps
<1>5. ASSUME value' \in {value, Cube!Put(value, Cube!Restored)}, Cube!Raises \/ Cube!Ends("unknown")
      PROVE  CellsInv' /\ CellsStep
  <2>1. value' \in CellRows /\ (~reshaped => \A c \in Cube!Leaves \ Cube!Written : value'[c] = value[c])
    BY <1>2, <1>5, BackOrNot
  <2>2. CASE Cube!Raises
    <3>1. /\ at' = "rest" /\ status' = "draft" /\ UNCHANGED <<consolidated, writes, reshaped>>
          /\ Undoable' => Undoable /\ before' = before
      BY <1>1, <1>2, <2>2, RaisesIs
    <3>2. HeldInv' /\ Cube!CellsComeBack'
      BY <3>1 DEF HeldInv, Cube!CellsComeBack
    <3> QED
      BY <1>1, <2>1, <3>1, <3>2, RequestKeeps
  <2>3. CASE Cube!Ends("unknown")
    <3>1. UNCHANGED <<consolidated, writes, reshaped>> /\ at' = "rest" /\ status' = "unknown"
      BY <2>3 DEF Cube!Ends, Cube!Goto
    <3>2. HeldInv' /\ Cube!CellsComeBack' /\ ~Undoable'
      BY <3>1 DEF HeldInv, Cube!CellsComeBack, Undoable
    <3> QED
      BY <1>1, <2>1, <3>1, <3>2, RequestKeeps
  <2> QED
    BY <1>5, <2>2, <2>3
<1> QED
  BY <1>3, <1>4, <1>5 DEF Cube!Check

\* The cells are put back after a write that was not what was asked.
LEMMA RestoreStep ==
  ASSUME CellsInv, Cube!Restore
  PROVE  CellsInv' /\ CellsStep
<1>1. at = "restore" /\ status = "draft" /\ UNCHANGED <<applied, was, touched>> /\ value \in CellRows
      /\ touched \in SUBSET Cube!Cells
  BY CellTypes DEF CellsInv, StepInv, Cube!Restore
<1>2. Accepted /\ Undoable
  BY <1>1 DEF Accepted, Undoable
<1>3. value' \in CellRows /\ (~reshaped => \A c \in Cube!Leaves \ Cube!Written : value'[c] = value[c])
  BY <1>2, BackOrNot DEF Cube!Restore
<1>4. CASE value' = Cube!Put(value, Cube!Restored) /\ Cube!Ends("failed")
  <2>1. UNCHANGED <<consolidated, writes, reshaped>> /\ at' = "rest" /\ status' = "failed"
    BY <1>4 DEF Cube!Ends, Cube!Goto
  <2>2. ~reshaped => \A c \in Cube!Written \ (touched \cup {Text}) : value'[c] = was[c]
    BY <1>2, <1>4, PutsItBack
  <2>3. Cube!CellsComeBack' /\ HeldInv' /\ ~Undoable'
    BY <1>1, <2>1, <2>2 DEF HeldInv, Cube!CellsComeBack, Undoable, Cube!Written
  <2> QED
    BY <1>1, <1>3, <2>1, <2>3, RequestKeeps
<1>5. CASE value' = value /\ Cube!Raises
  <2>1. /\ at' = "rest" /\ status' = "draft" /\ UNCHANGED <<consolidated, writes, reshaped>>
        /\ Undoable' => Undoable /\ before' = before
    BY <1>1, <1>2, <1>5, RaisesIs
  <2>2. HeldInv' /\ Cube!CellsComeBack'
    BY <2>1 DEF HeldInv, Cube!CellsComeBack
  <2> QED
    BY <1>1, <1>3, <2>1, <2>2, RequestKeeps
<1>6. CASE Cube!Ends("unknown")
  <2>1. UNCHANGED <<consolidated, writes, reshaped>> /\ at' = "rest" /\ status' = "unknown"
    BY <1>6 DEF Cube!Ends, Cube!Goto
  <2>2. HeldInv' /\ Cube!CellsComeBack' /\ ~Undoable'
    BY <2>1 DEF HeldInv, Cube!CellsComeBack, Undoable
  <2> QED
    BY <1>1, <1>3, <2>1, <2>2, RequestKeeps
<1> QED
  BY <1>4, <1>5, <1>6 DEF Cube!Restore

\* A rollback that begins (rollback_change).
LEMMA BeginUndoStep ==
  ASSUME CellsInv, Cube!rollback_change
  PROVE  CellsInv'
<1>1. /\ status = "executed" /\ at = "rest" /\ at' = "undo"
      /\ UNCHANGED <<consolidated, writes, reshaped, base, value, status, before, applied, was, touched>>
  BY DEF Cube!rollback_change, Cube!Goto
<1>2. Cube!TypeOK' /\ Cube!Written' = Cube!Written /\ Undoable /\ Accepted' = Accepted
  BY <1>1, CellTypes DEF CellsInv, Cube!TypeOK, Cube!Written, Undoable, Accepted
<1>3. StepInv' /\ SeenInv' /\ HeldInv' /\ Cube!CellsComeBack'
  BY <1>1, <1>2 DEF CellsInv, StepInv, SeenInv, HeldInv, Cube!CellsComeBack, Cube!same_value, Cube!AsNumber, Cube!AsText
<1>4. SnapshotInv'
  BY <1>1, <1>2 DEF CellsInv, SnapshotInv, Readable, Cube!IsText, Cube!Normalised
<1> QED
  BY <1>2, <1>3, <1>4 DEF CellsInv

\* Its write, and the answer that may not come.
LEMMA UndoStep ==
  ASSUME CellsInv, Cube!Undo
  PROVE  CellsInv' /\ CellsStep
<1>1. at = "undo" /\ status = "executed" /\ UNCHANGED <<applied, was>> /\ value \in CellRows
      /\ touched \in SUBSET Cube!Cells
  BY CellTypes DEF CellsInv, StepInv, Cube!Undo
<1>2. Accepted /\ Undoable /\ Cube!Written \subseteq Cube!Cells
  BY <1>1, CellTypes, WritesAre DEF CellsInv, Accepted, Undoable, Cube!Written
<1>3. value' \in CellRows /\ (~reshaped => \A c \in Cube!Leaves \ Cube!Written : value'[c] = value[c])
  BY <1>2, BackOrNot DEF Cube!Undo
<1>4. CASE value' = Cube!Put(value, Cube!Restored) /\ Cube!Ends("rolled_back") /\ UNCHANGED touched
  <2>1. UNCHANGED <<consolidated, writes, reshaped>> /\ at' = "rest" /\ status' = "rolled_back"
    BY <1>4 DEF Cube!Ends, Cube!Goto
  <2>2. ~reshaped => \A c \in Cube!Written \ (touched \cup {Text}) : value'[c] = was[c]
    BY <1>2, <1>4, PutsItBack
  <2>3. Cube!CellsComeBack' /\ HeldInv' /\ ~Undoable'
    BY <1>1, <1>4, <2>1, <2>2 DEF HeldInv, Cube!CellsComeBack, Undoable, Cube!Written
  <2> QED
    BY <1>1, <1>3, <1>4, <2>1, <2>3, RequestKeeps
<1>5. ASSUME Cube!Raises, touched' \in {touched, touched \cup Cube!Written},
             value' # value => touched' = touched \cup Cube!Written
      PROVE  CellsInv' /\ CellsStep
  <2>1. /\ at' = "rest" /\ status' = "executed" /\ UNCHANGED <<consolidated, writes, reshaped>>
        /\ Undoable' => Undoable /\ before' = before
    BY <1>1, <1>2, <1>5, RaisesIs
  <2>2. Cube!Written' = Cube!Written
    BY <2>1 DEF Cube!Written
  <2>3. touched \subseteq touched' /\ touched' \in SUBSET Cube!Cells
    BY <1>1, <1>2, <1>5
  <2>4. \A c \in Cube!Written \ touched' : value' = value /\ c \in Cube!Written \ touched
    BY <1>5, <2>3
  <2>5. \A c \in Cube!Written \ touched' : Cube!same_value(value'[c], writes[c])
    BY <1>1, <2>4 DEF CellsInv, HeldInv
  <2>6. HeldInv' /\ Cube!CellsComeBack'
    BY <2>1, <2>2, <2>5 DEF HeldInv, Cube!CellsComeBack, Cube!same_value, Cube!AsNumber, Cube!AsText
  <2> QED
    BY <1>1, <1>3, <2>1, <2>3, <2>6, RequestKeeps
<1> QED
  BY <1>4, <1>5 DEF Cube!Undo

-----------------------------------------------------------------------------
\* Every step keeps the invariant, and those of a request their promise.
LEMMA NextCells == CellsInv /\ [Cube!Next]_cellVars => CellsInv' /\ [CellsStep]_cellVars
<1> SUFFICES ASSUME CellsInv, [Cube!Next]_cellVars PROVE CellsInv' /\ [CellsStep]_cellVars
  OBVIOUS
<1>1. CASE UNCHANGED cellVars
  <2>1. CellsInv'
    BY <1>1 DEF CellsInv, cellVars, Cube!TypeOK, StepInv, SeenInv, SnapshotInv, HeldInv, Cube!CellsComeBack,
                Cube!Written, Accepted, Undoable, Readable, Cube!Reports, Cube!same_value, Cube!AsNumber, Cube!AsText,
                Cube!IsText, Cube!Normalised
  <2> QED
    BY <1>1, <2>1
<1>2. ASSUME NEW c \in Cube!Cells, NEW v \in {Cube!Zero, Cube!One, Cube!Blank, Cube!Word}, Cube!Planner(c, v)
      PROVE  CellsInv' /\ at' = at
  BY <1>2, PlannerStep DEF Cube!Planner
<1>3. CASE Cube!Reshape
  BY <1>3, ReshapeStep DEF Cube!Reshape, CellsStep, Cube!OnlyListedCells, Cube!OverwritesWhatWasSeen
<1>4. ASSUME NEW w \in Cube!Some, Cube!create_change(w) PROVE CellsInv' /\ at' = at
  BY <1>4, DraftCellsStep DEF Cube!create_change
<1>5. CASE Cube!execute_change
  BY <1>5, BeginCellsStep DEF Cube!execute_change, CellsStep, Cube!OnlyListedCells, Cube!OverwritesWhatWasSeen
<1>6. CASE Cube!Snapshot
  BY <1>6, SnapshotCellsStep DEF Cube!Snapshot, CellsStep, Cube!OnlyListedCells, Cube!OverwritesWhatWasSeen
<1>7. CASE Cube!Write \/ Cube!Check \/ Cube!Restore \/ Cube!Undo
  BY <1>7, WriteStep, CheckCellsStep, RestoreStep, UndoStep
<1>8. CASE Cube!rollback_change
  BY <1>8, BeginUndoStep DEF Cube!rollback_change, CellsStep, Cube!OnlyListedCells, Cube!OverwritesWhatWasSeen
<1>9. ASSUME CellsInv', at' = at PROVE CellsInv' /\ [CellsStep]_cellVars
  BY <1>9 DEF CellsStep, Cube!OnlyListedCells, Cube!OverwritesWhatWasSeen
<1> QED
  BY <1>1, <1>2, <1>3, <1>4, <1>5, <1>6, <1>7, <1>8, <1>9 DEF Cube!Next

\* In the composition.
WhileCells == part = "cells" => CellsInv

LEMMA ComposedCells ==
  /\ MCInit => WhileCells
  /\ WhileCells /\ [MCNext]_MCvars => WhileCells' /\ (part = "cells" => [CellsStep]_cellVars)
<1>1. MCInit => WhileCells
  BY InitCells DEF MCInit, WhileCells
<1>2. ASSUME WhileCells, [MCNext]_MCvars, part = "cells" \/ part' = "cells"
      PROVE  CellsInv /\ [Cube!Next]_cellVars
  BY <1>2 DEF MCNext, MCvars, OnlyDeployment, OnlyRules, OnlyCells, WhileCells
<1> QED
  BY <1>1, <1>2, NextCells DEF WhileCells

\* An executed change is what the server holds in every cell nobody wrote since, and
\* after a failed or rolled back one every numeric cell it wrote holds what it held
\* before, unless others wrote it meanwhile or it became a total (_apply,
\* restore_cells).
THEOREM CellsStayKept == MCSpec => []CellsAreKept
<1>1. ASSUME CellsInv PROVE Cube!ExecutedIsHeld
  BY <1>1 DEF CellsInv, HeldInv, Cube!ExecutedIsHeld
<1>2. WhileCells => CellsAreKept
  BY <1>1 DEF WhileCells, CellsAreKept, CellsInv
<1> QED
  BY <1>2, ComposedCells, PTL DEF MCSpec

\* Nothing but the listed cells is written, unless one of them became a total since the
\* draft was checked, and over values the author saw or ones put there after the
\* request's last look at the cells (create_change's checks, base_fingerprint).
THEOREM ChangesWriteWhatWasAsked == MCSpec => WritesWhatWasAsked
<1>1. WhileCells /\ [MCNext]_MCvars =>
        [part = "cells" => Cube!OnlyListedCells /\ Cube!OverwritesWhatWasSeen]_cellVars
  BY ComposedCells DEF CellsStep
<1> QED
  BY <1>1, ComposedCells, PTL DEF MCSpec, WritesWhatWasAsked

-----------------------------------------------------------------------------
(***************************************************************************)
(* The rules of environments (Governance).                                 *)
(***************************************************************************)
\* What an open request is.
RuleRequests ==
  {Rules!Idle}
    \cup [op : {"execute", "apply"}, user : Users, on : Servers, seen : Rules!ENVIRONMENTS, raced : BOOLEAN,
          id : Rules!Changes]
    \cup [op : {"relabel"}, user : Users, on : Servers, seen : Rules!ENVIRONMENTS, raced : BOOLEAN,
          new : Rules!ENVIRONMENTS]

\* A change that stands, as its row has it.
KeptRows ==
  [status : {"draft", "executed", "rolled_back"}, on : Servers, env : Rules!ENVIRONMENTS, by : Users,
   content : {Absent}, ai : BOOLEAN, from : Rules!Changes \cup {None}]

Applied == {"executed", "rolled_back"}

\* What a change was promoted from was applied and is what it is itself.
FromInv ==
  \A i \in Rules!Kept : change[i].from # None =>
    LET j == change[i].from IN
    /\ j \in Rules!Kept /\ change[j].status \in Applied
    /\ change[j].content = change[i].content /\ change[j].ai = change[i].ai

\* No promotions lead round in a circle.
NoCircle == \A S \in SUBSET Rules!Kept : S # {} => \E i \in S : change[i].from \notin S

\* An approval that goes on passed its checks under the label it saw.
Approved(q) ==
  /\ q.id \in Rules!Made
  /\ change[q.id].status = "draft" => Rules!check_can_apply(q.user, q.id, q.seen, "execute")
  /\ q.op = "apply" => /\ mode = "readwrite" /\ q.id \in proposed
                       /\ change[q.id].status = "draft" => change[q.id].by = q.user

Backed(q) ==
  /\ q.op \in {"execute", "apply"} => Approved(q)
  /\ q.op = "relabel" => Rules!check_environment_change(q.user, q.seen, q.new)
  /\ q # Rules!Idle /\ ~q.raced => label[q.on] = q.seen

RuleTypes ==
  /\ mode \in Modes /\ relabels \in 0 .. MaxRelabels
  /\ label \in [Servers -> Rules!ENVIRONMENTS]
  /\ change \in [Rules!Changes -> Rules!Row]
  /\ proposed \subseteq Rules!Changes
  /\ request \in [Sessions -> RuleRequests]

RuleInv == RuleTypes /\ FromInv /\ NoCircle /\ \A r \in Sessions : Backed(request[r])

\* What a step promises beside it.
RuleStep == Rules!TwoPersons /\ Rules!NoWayRound /\ Rules!LabelsNeedRights /\ Rules!AssistantStaysLow

-----------------------------------------------------------------------------
\* Induction over the subsets of a finite set.
LEMMA SubsetInduction ==
  ASSUME NEW S, IsFiniteSet(S), NEW T \in SUBSET SUBSET S, {} \in T,
         \A U \in T, x \in S : U \cup {x} \in T
  PROVE  S \in T
<1> SUFFICES ASSUME S \notin T PROVE FALSE
  OBVIOUS
<1> DEFINE R == StrictSubsetOrdering(S)  F == FiniteSubsetsOf(S)  B == {U \in F : U \notin T}
<1>1. IsWellFoundedOn(R, F)
  BY FS_StrictSubsetOrderingWellFounded
<1>2. B \subseteq F /\ B # {}
  BY DEF FiniteSubsetsOf
<1>3. \A U \in B : U \in SUBSET S /\ IsFiniteSet(U) /\ U \notin T
  BY DEF FiniteSubsetsOf
<1>4. \A U \in F, V \in F : V \subseteq U /\ V # U => <<V, U>> \in R
  BY DEF FiniteSubsetsOf, StrictSubsetOrdering
<1>5. \A U \in SUBSET S : IsFiniteSet(U) => U \in F
  BY DEF FiniteSubsetsOf
<1> HIDE DEF R, F
<1>6. PICK U \in B : \A V \in B : ~(<<V, U>> \in R)
  <2> HIDE DEF B
  <2> QED BY <1>1, <1>2, WFMin
<1>7. PICK x \in U : TRUE
  BY <1>3, <1>6
<1>8. U \ {x} \in F
  BY <1>3, <1>5, <1>6, FS_RemoveElement
<1>9. U \ {x} \in T
  BY <1>2, <1>4, <1>6, <1>7, <1>8
<1>10. U = (U \ {x}) \cup {x}
  BY <1>7
<1> QED
  BY <1>3, <1>6, <1>7, <1>9, <1>10

\* A set of changes has a first and a last one (Max, Min).
LEMMA EndsExist ==
  ASSUME NEW S \in SUBSET Rules!Changes, S # {}
  PROVE  Rules!Max(S) \in S /\ Rules!Min(S) \in S
<1> DEFINE T == {U \in SUBSET S : U = {} \/ \E x, y \in U : \A z \in U : x >= z /\ y <= z}
<1>1. IsFiniteSet(S) /\ S \subseteq Nat
  <2>1. IsFiniteSet(1 .. MaxChanges)
    BY ChangesAssumption, FS_Interval
  <2>2. S \in SUBSET (1 .. MaxChanges) /\ S \subseteq Nat
    BY ChangesAssumption DEF Rules!Changes
  <2>3. IsFiniteSet(S)
    BY <2>1, <2>2, FS_Subset
  <2> QED
    BY <2>2, <2>3
<1>2. {} \in T
  OBVIOUS
<1>3. ASSUME NEW U \in T, NEW x \in S PROVE U \cup {x} \in T
  <2>1. CASE U = {}
    BY <1>1, <2>1
  <2>2. CASE U # {}
    <3>1. PICK a \in U, b \in U : \A z \in U : a >= z /\ b <= z
      BY <2>2
    <3>2. PICK c \in {a, x} : c >= a /\ c >= x
      BY <1>1, <3>1
    <3>3. PICK d \in {b, x} : d <= b /\ d <= x
      BY <1>1, <3>1
    <3>4. \A z \in U \cup {x} : c >= z /\ d <= z
      BY <1>1, <3>1, <3>2, <3>3
    <3> QED BY <3>2, <3>3, <3>4
  <2> QED BY <2>1, <2>2
<1>4. S \in T
  <2>1. T \in SUBSET SUBSET S
    OBVIOUS
  <2> HIDE DEF T
  <2> QED BY <1>1, <1>2, <1>3, <2>1, SubsetInduction
<1> QED
  BY <1>4 DEF Rules!Max, Rules!Min

-----------------------------------------------------------------------------
\* A row is a change that stands or it is not.
LEMMA RowKinds ==
  ASSUME NEW x \in Rules!Row
  PROVE  /\ x \in KeptRows <=> x.status # "none" /\ x # Rules!Closed
         /\ x \in KeptRows <=> x.status \in {"draft", "executed", "rolled_back"}
<1>1. x \in [status : {"none", "closed"}] \/ x \in KeptRows
  BY DEF Rules!Row, KeptRows
<1>2. x \in [status : {"none", "closed"}] /\ x.status # "none" => x = Rules!Closed
  BY DEF Rules!Closed
<1>3. x \in KeptRows => x.status \in {"draft", "executed", "rolled_back"}
  BY DEF KeptRows
<1>4. x \in [status : {"none", "closed"}] => x.status \notin {"draft", "executed", "rolled_back"}
  OBVIOUS
<1>5. Rules!Closed.status = "closed"
  BY DEF Rules!Closed
<1> QED
  BY <1>1, <1>2, <1>3, <1>4, <1>5

\* The changes that stand, and those there are.
LEMMA RuleRows ==
  ASSUME change \in [Rules!Changes -> Rules!Row]
  PROVE  /\ Rules!Made = {i \in Rules!Changes : change[i].status # "none"}
         /\ Rules!Kept = {i \in Rules!Changes : change[i] \in KeptRows}
         /\ Rules!Kept = {i \in Rules!Changes : change[i].status \in {"draft", "executed", "rolled_back"}}
  BY RowKinds DEF Rules!Made, Rules!Kept

LEMMA RuleRowsAfter ==
  ASSUME change' \in [Rules!Changes -> Rules!Row]
  PROVE  /\ Rules!Made' = {i \in Rules!Changes : change'[i].status # "none"}
         /\ Rules!Kept' = {i \in Rules!Changes : change'[i] \in KeptRows}
         /\ Rules!Kept' = {i \in Rules!Changes : change'[i].status \in {"draft", "executed", "rolled_back"}}
  BY RowKinds DEF Rules!Made, Rules!Kept

\* A row that is closed, and one that stands, are rows.
LEMMA RowsAre == Rules!Closed \in Rules!Row /\ Rules!Closed \notin KeptRows /\ KeptRows \subseteq Rules!Row
                 /\ Rules!Closed.status = "closed"
  BY DEF Rules!Row, KeptRows, Rules!Closed

\* How an approval that goes on looks.
LEMMA RequestIs ==
  ASSUME RuleInv, NEW r \in Sessions, request[r].op \in {"execute", "apply"}
  PROVE  /\ request[r] # Rules!Idle /\ request[r].user \in Users /\ request[r].on \in Servers
         /\ request[r].seen \in Rules!ENVIRONMENTS
         /\ request[r].id \in Rules!Changes /\ Approved(request[r])
<1>1. request[r] \in RuleRequests /\ Backed(request[r])
  BY DEF RuleInv, RuleTypes
<1> QED
  BY <1>1 DEF RuleRequests, Backed, Rules!Idle

\* The stricter of two environments.
LEMMA StricterIs ==
  ASSUME NEW i \in Rules!Kept, change \in [Rules!Changes -> Rules!Row], NEW now \in Rules!ENVIRONMENTS
  PROVE  /\ Rules!effective_environment(i, now) \in Rules!ENVIRONMENTS
         /\ Rules!Strictness[Rules!effective_environment(i, now)] >= Rules!Strictness[change[i].env]
         /\ Rules!Strictness[Rules!effective_environment(i, now)] >= Rules!Strictness[now]
         /\ change[i].env = "prod" \/ now = "prod" => Rules!effective_environment(i, now) = "prod"
<1>1. change[i].env \in {"dev", "qa", "prod"} /\ now \in {"dev", "qa", "prod"}
  BY RuleRows DEF KeptRows, Rules!ENVIRONMENTS
<1>2. Rules!Strictness["dev"] = 0 /\ Rules!Strictness["qa"] = 1 /\ Rules!Strictness["prod"] = 2
  BY DEF Rules!Strictness
<1> QED
  BY <1>1, <1>2 DEF Rules!effective_environment, Rules!ENVIRONMENTS

-----------------------------------------------------------------------------
\* A step that loosens no draft leaves what open approvals checked as it was.
RowsGoOn ==
  \A i \in Rules!Made :
    /\ i \in Rules!Made'
    /\ change'[i].status = "draft" => /\ change[i].status = "draft"
                                      /\ change'[i].env = change[i].env /\ change'[i].by = change[i].by

LEMMA RequestsKeep ==
  ASSUME RuleInv, RuleTypes', RowsGoOn, proposed \subseteq proposed', UNCHANGED <<mode, label>>,
         \A r \in Sessions : request'[r] \in {request[r], Rules!Idle}
  PROVE  \A r \in Sessions : Backed(request[r])'
<1> SUFFICES ASSUME NEW r \in Sessions PROVE Backed(request[r])'
  OBVIOUS
<1>1. PICK q \in RuleRequests : q = request'[r] /\ Backed(q)
  <2>1. request'[r] \in RuleRequests
    BY DEF RuleTypes
  <2>2. Backed(Rules!Idle)
    BY DEF Backed, Rules!Idle
  <2> QED BY <2>1, <2>2 DEF RuleInv
<1>2. Rules!check_environment_change(q.user, q.seen, q.new)' = Rules!check_environment_change(q.user, q.seen, q.new)
  BY DEF Rules!check_environment_change
<1>3. ASSUME Approved(q) PROVE Approved(q)'
  <2>1. q.id \in Rules!Made /\ q.id \in Rules!Made'
    BY <1>3 DEF Approved, RowsGoOn
  <2>2. ASSUME change'[q.id].status = "draft"
        PROVE  /\ change[q.id].status = "draft" /\ change'[q.id].by = change[q.id].by
               /\ Rules!check_can_apply(q.user, q.id, q.seen, "execute")'
    <3>1. /\ change[q.id].status = "draft"
          /\ change'[q.id].env = change[q.id].env /\ change'[q.id].by = change[q.id].by
      BY <2>1, <2>2 DEF RowsGoOn
    <3>2. Rules!check_can_apply(q.user, q.id, q.seen, "execute")
      BY <1>3, <3>1 DEF Approved
    <3>3. Rules!effective_environment(q.id, q.seen)' = Rules!effective_environment(q.id, q.seen)
      BY <3>1 DEF Rules!effective_environment
    <3> QED BY <3>1, <3>2, <3>3 DEF Rules!check_can_apply
  <2> QED BY <1>3, <2>1, <2>2 DEF Approved
<1>4. q # Rules!Idle /\ ~q.raced => label'[q.on] = q.seen
  BY <1>1 DEF Backed
<1>5. Backed(q)'
  BY <1>1, <1>2, <1>3, <1>4 DEF Backed, Rules!Idle
<1> QED
  BY <1>1, <1>5 DEF Backed, Approved

\* A step that settles changes, or closes them, leads into no circle.
LEMMA RoadKept ==
  ASSUME RuleInv, change' \in [Rules!Changes -> Rules!Row],
         \A i \in Rules!Kept' : /\ i \in Rules!Kept
                                /\ change'[i].from = change[i].from /\ change'[i].content = change[i].content
                                /\ change'[i].ai = change[i].ai,
         \A i \in Rules!Kept : change[i].status \in Applied => i \in Rules!Kept' /\ change'[i].status \in Applied
  PROVE  FromInv' /\ NoCircle'
<1>1. FromInv'
  <2> SUFFICES ASSUME NEW i \in Rules!Kept', change'[i].from # None
               PROVE  /\ change'[i].from \in Rules!Kept' /\ change'[change'[i].from].status \in Applied
                      /\ change'[change'[i].from].content = change'[i].content
                      /\ change'[change'[i].from].ai = change'[i].ai
    BY DEF FromInv, Applied
  <2>1. PICK j \in Rules!Kept : j = change[i].from /\ j = change'[i].from /\ change[j].status \in Applied
                                /\ change[j].content = change[i].content /\ change[j].ai = change[i].ai
    BY DEF RuleInv, FromInv
  <2>2. j \in Rules!Kept' /\ change'[j].status \in Applied
    BY <2>1
  <2> QED BY <2>1, <2>2
<1>2. NoCircle'
  BY DEF RuleInv, NoCircle
<1> QED
  BY <1>1, <1>2

\* A step in which nothing is applied and no server is relabelled promises all.
LEMMA QuietStep ==
  ASSUME RuleInv, label' = label,
         \A i \in Rules!Made : change[i].status = "draft" => change'[i].status # "executed"
  PROVE  RuleStep
<1>1. \A r \in Sessions : ~Rules!Applies(r)
  BY RequestIs DEF Rules!Applies, Approved
<1>2. Rules!TwoPersons /\ Rules!NoWayRound /\ Rules!AssistantStaysLow
  BY <1>1 DEF Rules!TwoPersons, Rules!NoWayRound, Rules!AssistantStaysLow
<1>3. Rules!LabelsNeedRights
  BY DEF Rules!LabelsNeedRights
<1> QED
  BY <1>2, <1>3 DEF RuleStep

\* What a draft request does to the rows (create_change).
LEMMA DraftStep ==
  ASSUME RuleInv, NEW u \in Users, NEW s \in Servers, NEW v \in {Absent}, NEW ai \in BOOLEAN, NEW tool \in BOOLEAN,
         NEW from, \/ from = None
                   \/ /\ from \in Rules!Kept /\ change[from].status = "executed"
                      /\ change[from].content = v /\ change[from].ai = ai,
         Rules!Draft(u, s, v, ai, from, tool)
  PROVE  RuleInv' /\ RuleStep
<1> DEFINE there == Rules!Same(u, s, v, ai)
           open == Rules!OpenDrafts(u, s)
           i == IF there # {} THEN Rules!Max(there) ELSE Rules!Min(Rules!Changes \ Rules!Made)
           fresh == [status |-> "draft", on |-> s, env |-> Rules!DraftedUnder(s), by |-> u, content |-> v, ai |-> ai,
                     from |-> from]
<1>1. /\ there # {} \/ Rules!Made # Rules!Changes
      /\ change' = IF there # {} THEN (IF from = None THEN change ELSE [change EXCEPT ![i].from = from])
                   ELSE [j \in Rules!Changes |-> IF j = i THEN fresh
                                                 ELSE IF j \in open THEN Rules!Closed ELSE change[j]]
      /\ proposed' = IF tool THEN proposed \cup {i} ELSE proposed
      /\ UNCHANGED <<mode, relabels, label, request>>
  BY DEF Rules!Draft
<1>2. change \in [Rules!Changes -> Rules!Row] /\ label \in [Servers -> Rules!ENVIRONMENTS]
      /\ Rules!Made \subseteq Rules!Changes /\ Rules!Kept \subseteq Rules!Made
  BY DEF RuleInv, RuleTypes, Rules!Made, Rules!Kept
<1>3. /\ open \subseteq Rules!Kept /\ \A j \in open : change[j].status = "draft"
      /\ there \subseteq Rules!Kept
      /\ \A j \in there : change[j].status = "draft" /\ change[j].content = v /\ change[j].ai = ai
  BY DEF Rules!OpenDrafts, Rules!Same
<1>4. there # {} => i \in there
  BY <1>2, <1>3, EndsExist
<1>5. there = {} => i \in Rules!Changes \ Rules!Made
  BY <1>1, <1>2, EndsExist
<1>6. fresh \in KeptRows /\ fresh.status = "draft" /\ fresh.from = from /\ fresh.content = v /\ fresh.ai = ai
  BY <1>2 DEF KeptRows, Rules!DraftedUnder, Rules!Kept, Rules!Made
<1>7. \A j \in Rules!Kept : change[j] \in KeptRows
  BY <1>2, RuleRows
<1>8. from # None => from \in Rules!Kept /\ change[from].status = "executed" /\ change[from].content = v /\ change[from].ai = ai
  OBVIOUS
<1> HIDE DEF there, open, i, fresh
<1>9. i \in Rules!Changes /\ (i \in Rules!Made => i \in there /\ change[i].status = "draft")
  BY <1>2, <1>3, <1>4, <1>5
<1>10. PICK row \in KeptRows :
         /\ row.status = "draft" /\ row.content = v /\ row.ai = ai
         /\ i \in Rules!Made => row.env = change[i].env /\ row.by = change[i].by
         /\ row.from = from \/ (i \in Rules!Made /\ row.from = change[i].from)
         /\ change'[i] = row
         /\ \A j \in Rules!Changes \ {i} : change'[j] = change[j] \/ (j \in open /\ change'[j] = Rules!Closed)
         /\ change' \in [Rules!Changes -> Rules!Row]
  <2>1. CASE there # {} /\ from = None
    <3>1. change' = change /\ i \in Rules!Kept
      BY <1>1, <1>3, <1>4, <2>1
    <3> QED BY <1>2, <1>3, <1>4, <1>7, <2>1, <3>1
  <2>2. CASE there # {} /\ from # None
    <3>1. PICK row : row = [change[i] EXCEPT !.from = from]
      OBVIOUS
    <3>2. i \in Rules!Kept /\ change' = [change EXCEPT ![i] = row]
      BY <1>1, <1>3, <1>4, <2>2, <3>1
    <3>3. from \in Rules!Changes
      BY <1>2, <1>8, <2>2
    <3>4. change[i] \in KeptRows
      BY <1>7, <3>2
    <3>5. row \in KeptRows /\ row.status = change[i].status /\ row.content = change[i].content /\ row.ai = change[i].ai
          /\ row.env = change[i].env /\ row.by = change[i].by /\ row.from = from
      BY <3>1, <3>3, <3>4 DEF KeptRows
    <3> QED BY <1>2, <1>3, <1>4, <1>9, <2>2, <3>2, <3>5, RowsAre
  <2>3. CASE there = {}
    <3>1. change' = [j \in Rules!Changes |-> IF j = i THEN fresh
                                             ELSE IF j \in open THEN Rules!Closed ELSE change[j]]
      BY <1>1, <2>3
    <3>2. i \notin Rules!Made
      BY <1>5, <2>3
    <3> QED BY <1>2, <1>6, <1>9, <3>1, <3>2, RowsAre
  <2> QED BY <2>1, <2>2, <2>3
<1>11. RuleTypes'
  <2>1. proposed' \subseteq Rules!Changes
    BY <1>1, <1>9 DEF RuleInv, RuleTypes
  <2> QED BY <1>1, <1>10, <2>1 DEF RuleInv, RuleTypes, Rules!Row
<1>12. /\ Rules!Kept' = {j \in Rules!Changes : change'[j] \in KeptRows}
       /\ Rules!Made' = {j \in Rules!Changes : change'[j].status # "none"}
       /\ Rules!Kept = {j \in Rules!Changes : change[j] \in KeptRows}
       /\ Rules!Made = {j \in Rules!Changes : change[j].status # "none"}
  BY <1>2, <1>10, RuleRows, RuleRowsAfter
<1>13. /\ i \in Rules!Kept' /\ Rules!Kept' \subseteq Rules!Kept \cup {i}
       /\ \A j \in Rules!Kept' \ {i} : change'[j] = change[j]
       /\ \A j \in Rules!Kept : change[j].status \in Applied =>
            /\ j # i /\ j \in Rules!Kept' /\ change'[j] = change[j]
  BY <1>2, <1>3, <1>9, <1>10, <1>12, RowsAre DEF Applied
<1>14. row.from # None => /\ row.from \in Rules!Kept /\ change[row.from].status \in Applied
                          /\ change[row.from].content = v /\ change[row.from].ai = ai
  BY <1>3, <1>8, <1>9, <1>10 DEF RuleInv, FromInv, Applied
<1>15. \A j \in Rules!Kept' : change'[j].from # None =>
         LET k == change'[j].from IN
         /\ k \in Rules!Kept /\ change[k].status \in Applied
         /\ change[k].content = change'[j].content /\ change[k].ai = change'[j].ai
  <2>1. ASSUME NEW j \in Rules!Kept', j # i, change'[j].from # None
        PROVE  LET k == change'[j].from IN
               /\ k \in Rules!Kept /\ change[k].status \in Applied
               /\ change[k].content = change'[j].content /\ change[k].ai = change'[j].ai
    <3>1. j \in Rules!Kept /\ change'[j] = change[j]
      BY <1>13, <2>1
    <3> QED BY <2>1, <3>1 DEF RuleInv, FromInv
  <2> QED BY <1>10, <1>14, <2>1
<1>16. FromInv'
  <2> SUFFICES ASSUME NEW j \in Rules!Kept', change'[j].from # None
               PROVE  /\ change'[j].from \in Rules!Kept' /\ change'[change'[j].from].status \in Applied
                      /\ change'[change'[j].from].content = change'[j].content
                      /\ change'[change'[j].from].ai = change'[j].ai
    BY DEF FromInv, Applied
  <2>1. PICK k \in Rules!Kept : k = change'[j].from /\ change[k].status \in Applied
                                /\ change[k].content = change'[j].content /\ change[k].ai = change'[j].ai
    BY <1>15
  <2> QED BY <1>13, <2>1
<1>17. NoCircle'
  <2> SUFFICES ASSUME NEW S \in SUBSET (Rules!Kept'), S # {} PROVE \E j \in S : change'[j].from \notin S
    BY DEF NoCircle
  <2>1. \A j \in Rules!Kept' : change'[j].from # i
    <3> SUFFICES ASSUME NEW j \in Rules!Kept', change'[j].from = i PROVE FALSE
      OBVIOUS
    <3>1. i # None
      BY <1>9, NoneAssumption, ChangesAssumption DEF Rules!Changes
    <3>2. i \in Rules!Kept /\ change[i].status \in Applied
      BY <1>15, <3>1
    <3> QED BY <1>13, <3>2
  <2>2. CASE S = {i}
    BY <1>13, <2>1, <2>2
  <2>3. CASE S # {i}
    <3>1. S \ {i} # {} /\ S \ {i} \in SUBSET Rules!Kept
      BY <1>13, <2>3
    <3>2. PICK j \in S \ {i} : change[j].from \notin S \ {i}
      BY <3>1 DEF RuleInv, NoCircle
    <3>3. change'[j].from = change[j].from
      BY <1>13, <3>2
    <3> QED BY <2>1, <3>2, <3>3
  <2> QED BY <2>2, <2>3
<1>18. RowsGoOn
  <2> SUFFICES ASSUME NEW j \in Rules!Made
               PROVE  /\ j \in Rules!Made'
                      /\ change'[j].status = "draft" =>
                           /\ change[j].status = "draft"
                           /\ change'[j].env = change[j].env /\ change'[j].by = change[j].by
    BY DEF RowsGoOn
  <2> QED BY <1>2, <1>9, <1>10, <1>12, RowsAre
<1>19. \A r \in Sessions : Backed(request[r])'
  BY <1>1, <1>11, <1>18, RequestsKeep
<1>20. RuleStep
  <2>1. \A j \in Rules!Made : change[j].status = "draft" => change'[j].status # "executed"
    BY <1>2, <1>10, RowsAre
  <2> QED BY <1>1, <2>1, QuietStep
<1> QED
  BY <1>11, <1>16, <1>17, <1>19, <1>20 DEF RuleInv

\* POST .../changes, the assistant's drafts and promotions.
LEMMA DraftingStep ==
  ASSUME RuleInv, NEW u \in Users, Rules!Drafting(u)
  PROVE  RuleInv' /\ RuleStep
<1>1. ASSUME NEW s \in Servers, NEW v \in {Absent}, Rules!Propose(u, s, v) \/ Rules!CreateDraft(u, s, v)
      PROVE  RuleInv' /\ RuleStep
  <2>1. PICK ai \in BOOLEAN, tool \in BOOLEAN : Rules!Draft(u, s, v, ai, None, tool)
    BY <1>1 DEF Rules!Propose, Rules!CreateDraft
  <2>2. None = None
    OBVIOUS
  <2> QED BY <1>1, <2>1, <2>2, DraftStep
<1>2. ASSUME NEW s \in Servers, NEW i \in Rules!Kept, Rules!Promote(u, i, s)
      PROVE  RuleInv' /\ RuleStep
  <2>1. change[i].status = "executed" /\ Rules!Draft(u, s, change[i].content, change[i].ai, i, FALSE)
    BY <1>2 DEF Rules!Promote
  <2>2. change[i] \in KeptRows
    BY <1>2, RuleRows DEF RuleInv, RuleTypes
  <2>3. change[i].content \in {Absent} /\ change[i].ai \in BOOLEAN
    BY <2>2 DEF KeptRows
  <2>4. PICK v \in {Absent}, ai \in BOOLEAN : v = change[i].content /\ ai = change[i].ai
    BY <2>3
  <2>5. Rules!Draft(u, s, v, ai, i, FALSE)
    BY <2>1, <2>4
  <2>6. FALSE \in BOOLEAN
    OBVIOUS
  <2> QED BY <1>2, <2>1, <2>4, <2>5, <2>6, DraftStep
<1> QED
  BY <1>1, <1>2 DEF Rules!Drafting

-----------------------------------------------------------------------------
\* A request that begins.
LEMMA BeginsStep ==
  ASSUME RuleInv, NEW r \in Sessions, NEW q \in RuleRequests, Backed(q), Rules!Open(r, q),
         relabels' \in 0 .. MaxRelabels, UNCHANGED <<mode, label, change, proposed>>
  PROVE  RuleInv' /\ RuleStep
<1>1. request' = [request EXCEPT ![r] = q]
  BY DEF Rules!Open
<1>2. RuleTypes'
  BY <1>1 DEF RuleInv, RuleTypes, RuleRequests, Rules!Row
<1>3. FromInv' /\ NoCircle'
  BY DEF RuleInv, FromInv, NoCircle, Rules!Kept, Rules!Made, Applied
<1>4. \A p \in RuleRequests : Backed(p) => Backed(p)'
  BY DEF Backed, Approved, Rules!Made, Rules!check_can_apply, Rules!effective_environment,
         Rules!check_environment_change
<1>5. \A s \in Sessions : request'[s] \in RuleRequests /\ Backed(request'[s])
  BY <1>1 DEF RuleInv, RuleTypes
<1>6. \A s \in Sessions : Backed(request[s])'
  <2> SUFFICES ASSUME NEW s \in Sessions PROVE Backed(request[s])'
    OBVIOUS
  <2>1. PICK p \in RuleRequests : p = request'[s] /\ Backed(p)
    BY <1>5
  <2>2. Backed(p)'
    BY <1>4, <2>1
  <2> QED BY <2>1, <2>2 DEF Backed, Approved
<1>7. RuleStep
  <2>1. \A i \in Rules!Made : change[i].status = "draft" => change'[i].status # "executed"
    OBVIOUS
  <2> QED BY <2>1, QuietStep
<1> QED
  BY <1>2, <1>3, <1>6, <1>7 DEF RuleInv

\* An approval passes its checks before it waits for the row (execute, apply_change).
LEMMA DecidingStep ==
  ASSUME RuleInv, NEW r \in Sessions, NEW u \in Users, Rules!Deciding(r, u)
  PROVE  RuleInv' /\ RuleStep
<1>1. PICK i \in Rules!Kept, op \in {"execute", "apply"} :
        /\ Rules!check_can_apply(u, i, label[change[i].on], "execute")
        /\ change[i].status = "draft"
        /\ op = "apply" => mode = "readwrite" /\ i \in proposed /\ change[i].by = u
        /\ Rules!Open(r, Rules!Decision(op, u, i))
        /\ UNCHANGED <<mode, relabels, label, change, proposed>>
  BY DEF Rules!Deciding, Rules!Execute, Rules!Apply, Rules!assistant_may_apply, Rules!DraftedHere
<1>2. i \in Rules!Changes /\ i \in Rules!Made /\ change[i].on \in Servers
      /\ label[change[i].on] \in Rules!ENVIRONMENTS
  BY RuleRows DEF RuleInv, RuleTypes, KeptRows, Rules!Kept, Rules!Made
<1>3. PICK q : q = Rules!Decision(op, u, i)
  OBVIOUS
<1>4. /\ q \in RuleRequests /\ q.op = op /\ q.user = u /\ q.on = change[i].on
      /\ q.seen = label[change[i].on] /\ q.id = i
  BY <1>2, <1>3 DEF RuleRequests, Rules!Decision
<1>5. Backed(q)
  BY <1>1, <1>2, <1>4 DEF Backed, Approved
<1>6. relabels' \in 0 .. MaxRelabels /\ Rules!Open(r, q) /\ UNCHANGED <<mode, label, change, proposed>>
  BY <1>1, <1>3 DEF RuleInv, RuleTypes
<1> QED
  BY <1>4, <1>5, <1>6, BeginsStep

\* A relabelling passes its checks before it is written.
LEMMA LabellingStep ==
  ASSUME RuleInv, NEW r \in Sessions, NEW u \in Users, Rules!Labelling(r, u)
  PROVE  RuleInv' /\ RuleStep
<1>1. PICK s \in Servers, e \in Rules!ENVIRONMENTS : Rules!Relabel(r, u, s, e)
  BY DEF Rules!Labelling
<1>2. PICK q : q = [op |-> "relabel", user |-> u, on |-> s, seen |-> label[s], raced |-> FALSE, new |-> e]
  OBVIOUS
<1>3. label[s] \in Rules!ENVIRONMENTS
  BY DEF RuleInv, RuleTypes
<1>4. q \in RuleRequests /\ q.op = "relabel" /\ q.user = u /\ q.on = s /\ q.seen = label[s] /\ q.new = e
  BY <1>2, <1>3 DEF RuleRequests
<1>5. Backed(q)
  BY <1>1, <1>4 DEF Backed, Rules!Relabel
<1>6. Rules!Open(r, q) /\ UNCHANGED <<mode, label, change, proposed>>
  BY <1>1, <1>2 DEF Rules!Relabel
<1>7. relabels' \in 0 .. MaxRelabels
  BY <1>1, NoneAssumption DEF RuleInv, RuleTypes, Rules!Relabel
<1> QED
  BY <1>4, <1>5, <1>6, <1>7, BeginsStep

-----------------------------------------------------------------------------
\* A row whose status moves, or that is closed, and requests that end.
LEMMA SettleStep ==
  ASSUME RuleInv, NEW i \in Rules!Kept, NEW s \in {"closed", "executed", "rolled_back"},
         change' = [change EXCEPT ![i] = IF s = "closed" THEN Rules!Closed ELSE [change[i] EXCEPT !.status = s]],
         change[i].status \in Applied => s = "rolled_back",
         UNCHANGED <<mode, relabels, label, proposed>>, request' \in [Sessions -> RuleRequests],
         \A r \in Sessions : request'[r] \in {request[r], Rules!Idle}
  PROVE  RuleInv'
<1>1. change \in [Rules!Changes -> Rules!Row] /\ i \in Rules!Changes /\ change[i] \in KeptRows
      /\ Rules!Kept \subseteq Rules!Changes /\ Rules!Made \subseteq Rules!Changes
  BY RuleRows DEF RuleInv, RuleTypes, Rules!Made, Rules!Kept
<1>2. PICK row \in Rules!Row :
        /\ row = IF s = "closed" THEN Rules!Closed ELSE [change[i] EXCEPT !.status = s]
        /\ row.status = s
        /\ row \in KeptRows => /\ s # "closed" /\ row.from = change[i].from
                               /\ row.content = change[i].content /\ row.ai = change[i].ai
        /\ s # "closed" => row \in KeptRows
  <2>1. CASE s = "closed"
    BY <2>1, RowsAre
  <2>2. CASE s # "closed"
    <3>1. PICK row : row = [change[i] EXCEPT !.status = s]
      OBVIOUS
    <3>2. row \in KeptRows /\ row.status = s /\ row.from = change[i].from
          /\ row.content = change[i].content /\ row.ai = change[i].ai
      BY <1>1, <2>2, <3>1 DEF KeptRows
    <3> QED BY <2>2, <3>1, <3>2, RowsAre
  <2> QED BY <2>1, <2>2
<1>3. change' \in [Rules!Changes -> Rules!Row] /\ change'[i] = row
      /\ \A j \in Rules!Changes \ {i} : change'[j] = change[j]
  BY <1>1, <1>2
<1>4. RuleTypes'
  BY <1>3 DEF RuleInv, RuleTypes, Rules!Row
<1>5. FromInv' /\ NoCircle'
  <2>1. \A j \in Rules!Kept' : /\ j \in Rules!Kept
                               /\ change'[j].from = change[j].from /\ change'[j].content = change[j].content
                               /\ change'[j].ai = change[j].ai
    BY <1>1, <1>2, <1>3, RuleRows, RuleRowsAfter
  <2>2. \A j \in Rules!Kept : change[j].status \in Applied => j \in Rules!Kept' /\ change'[j].status \in Applied
    BY <1>1, <1>2, <1>3, RuleRows, RuleRowsAfter DEF Applied
  <2> QED BY <1>3, <2>1, <2>2, RoadKept
<1>6. RowsGoOn
  <2>1. \A j \in Rules!Made : j \in Rules!Made'
    BY <1>1, <1>2, <1>3, RuleRows, RuleRowsAfter
  <2> QED BY <1>1, <1>2, <1>3, <2>1 DEF RowsGoOn
<1>7. \A r \in Sessions : Backed(request[r])'
  BY <1>4, <1>6, RequestsKeep
<1> QED
  BY <1>4, <1>5, <1>7 DEF RuleInv

\* Rollbacks and rejections.
LEMMA RollbackOrRejectStep ==
  ASSUME RuleInv, NEW u \in Users, NEW i \in Rules!Kept, Rules!Rollback(u, i) \/ Rules!Reject(u, i)
  PROVE  RuleInv' /\ RuleStep
<1>1. PICK s \in {"closed", "rolled_back"} :
        /\ change' = [change EXCEPT ![i] = IF s = "closed" THEN Rules!Closed ELSE [change[i] EXCEPT !.status = s]]
        /\ change[i].status \in Applied => s = "rolled_back"
        /\ UNCHANGED <<mode, relabels, label, proposed, request>>
  BY DEF Rules!Rollback, Rules!Reject, Applied
<1>2. request' \in [Sessions -> RuleRequests]
  BY <1>1 DEF RuleInv, RuleTypes
<1>3. RuleInv'
  BY <1>1, <1>2, SettleStep
<1>4. \A j \in Rules!Made : change[j].status = "draft" => change'[j].status # "executed"
  <2>1. change \in [Rules!Changes -> Rules!Row] /\ change[i] \in KeptRows /\ Rules!Made \subseteq Rules!Changes
    BY RuleRows DEF RuleInv, RuleTypes, Rules!Made
  <2>2. change'[i].status = s
    BY <1>1, <2>1, RowsAre DEF KeptRows, Rules!Kept, Rules!Made
  <2>3. \A j \in Rules!Changes \ {i} : change'[j] = change[j]
    BY <1>1, <2>1
  <2> QED BY <2>1, <2>2, <2>3
<1> QED
  BY <1>1, <1>3, <1>4, QuietStep

\* Whoever applies a change passed the checks of an environment as strict as any.
LEMMA AppliedByRight ==
  ASSUME RuleInv, NEW r \in Sessions, Rules!Applies(r)
  PROVE  LET q == request[r]
             e == Rules!effective_environment(q.id, q.seen)
         IN  /\ e \in Rules!ENVIRONMENTS /\ Rules!DEPLOY_PERMISSION[e] \in Rights[q.user]
             /\ Rules!Strictness[e] >= Rules!Strictness[change[q.id].env]
             /\ ~q.raced => Rules!Strictness[e] >= Rules!Strictness[label[q.on]]
             /\ change[q.id].env = "prod" \/ (label[q.on] = "prod" /\ ~q.raced) => change[q.id].by # q.user /\ e = "prod"
             /\ q.op = "apply" => mode = "readwrite" /\ q.id \in proposed /\ change[q.id].by = q.user
<1>1. /\ request[r].op \in {"execute", "apply"}
      /\ change[request[r].id].status = "draft"
  BY DEF Rules!Applies
<1>2. PICK q \in RuleRequests : q = request[r] /\ q.id \in Rules!Changes /\ q.seen \in Rules!ENVIRONMENTS /\ Approved(q)
                                /\ q # Rules!Idle
  BY <1>1, RequestIs DEF RuleInv, RuleTypes
<1>3. q.id \in Rules!Kept /\ change \in [Rules!Changes -> Rules!Row]
  BY <1>1, <1>2, RuleRows DEF RuleInv, RuleTypes
<1>4. PICK e : e = Rules!effective_environment(q.id, q.seen)
  OBVIOUS
<1>5. /\ e \in Rules!ENVIRONMENTS
      /\ Rules!Strictness[e] >= Rules!Strictness[change[q.id].env]
      /\ Rules!Strictness[e] >= Rules!Strictness[q.seen]
      /\ change[q.id].env = "prod" \/ q.seen = "prod" => e = "prod"
  BY <1>2, <1>3, <1>4, StricterIs
<1>6. Rules!DEPLOY_PERMISSION[e] \in Rights[q.user] /\ ~(e = "prod" /\ change[q.id].by = q.user)
  BY <1>1, <1>2, <1>4 DEF Approved, Rules!check_can_apply
<1>7. ~q.raced => label[q.on] = q.seen
  BY <1>2 DEF RuleInv, Backed
<1>8. q.op = "apply" => mode = "readwrite" /\ q.id \in proposed /\ change[q.id].by = q.user
  BY <1>1, <1>2 DEF Approved
<1> QED
  BY <1>2, <1>4, <1>5, <1>6, <1>7, <1>8

\* execute_change under the lock.
LEMMA FinishExecuteStep ==
  ASSUME RuleInv, NEW r \in Sessions, Rules!FinishExecute(r)
  PROVE  RuleInv' /\ RuleStep
<1>1. request[r].op \in {"execute", "apply"} /\ request' = [request EXCEPT ![r] = Rules!Idle]
      /\ UNCHANGED <<mode, relabels, label, proposed>>
  BY DEF Rules!FinishExecute, Rules!Close
<1>2. request' \in [Sessions -> RuleRequests] /\ \A s \in Sessions : request'[s] \in {request[s], Rules!Idle}
  BY <1>1 DEF RuleInv, RuleTypes, RuleRequests
<1>3. PICK i \in Rules!Changes : i = request[r].id
  BY <1>1, RequestIs
<1>4. ASSUME change[i].status = "draft" PROVE RuleInv'
  <2>1. i \in Rules!Kept
    BY <1>4, RuleRows DEF RuleInv, RuleTypes
  <2>2. PICK s \in {"closed", "executed", "rolled_back"} :
          change' = [change EXCEPT ![i] = IF s = "closed" THEN Rules!Closed ELSE [change[i] EXCEPT !.status = s]]
    BY <1>3, <1>4 DEF Rules!FinishExecute
  <2>3. change[i].status \notin Applied
    BY <1>4 DEF Applied
  <2> QED BY <1>1, <1>2, <2>1, <2>2, <2>3, SettleStep
<1>5. ASSUME change[i].status # "draft" PROVE RuleInv'
  <2>1. change' = change
    BY <1>3, <1>5 DEF Rules!FinishExecute
  <2>2. RuleTypes' /\ FromInv' /\ NoCircle' /\ RowsGoOn
    BY <1>1, <1>2, <2>1 DEF RuleInv, RuleTypes, Rules!Row, FromInv, NoCircle, RowsGoOn, Rules!Kept, Rules!Made, Applied
  <2>3. \A s \in Sessions : Backed(request[s])'
    BY <1>1, <1>2, <2>2, RequestsKeep
  <2> QED BY <2>2, <2>3 DEF RuleInv
<1>6. RuleInv'
  BY <1>4, <1>5
<1>7. Rules!TwoPersons
  BY AppliedByRight DEF Rules!TwoPersons
<1>8. Rules!NoWayRound
  <2> SUFFICES ASSUME NEW s \in Sessions, Rules!Applies(s)
               PROVE  \E e \in Rules!ENVIRONMENTS :
                        /\ Rules!DEPLOY_PERMISSION[e] \in Rights[request[s].user]
                        /\ Rules!Strictness[e] >= Rules!Strictness[change[request[s].id].env]
                        /\ ~request[s].raced => Rules!Strictness[e] >= Rules!Strictness[label[request[s].on]]
    BY DEF Rules!NoWayRound
  <2> QED BY AppliedByRight
<1>9. Rules!AssistantStaysLow
  BY AppliedByRight DEF Rules!AssistantStaysLow
<1>10. Rules!LabelsNeedRights
  BY <1>1 DEF Rules!LabelsNeedRights
<1> QED
  BY <1>6, <1>7, <1>8, <1>9, <1>10 DEF RuleStep

\* A relabelling, written: what is open on the server was checked against another label.
LEMMA FinishRelabelStep ==
  ASSUME RuleInv, NEW r \in Sessions, Rules!FinishRelabel(r)
  PROVE  RuleInv' /\ RuleStep
<1>1. PICK q \in RuleRequests : q = request[r] /\ Backed(q) /\ q.op = "relabel"
  BY DEF RuleInv, RuleTypes, Rules!FinishRelabel
<1>2. q # Rules!Idle /\ q.on \in Servers /\ q.new \in Rules!ENVIRONMENTS
  BY <1>1 DEF RuleRequests, Rules!Idle
<1>3. /\ label' = [label EXCEPT ![q.on] = q.new]
      /\ request' = [x \in Sessions |->
           IF x = r THEN Rules!Idle
           ELSE IF request[x] # Rules!Idle /\ request[x].on = q.on THEN [request[x] EXCEPT !.raced = TRUE]
           ELSE request[x]]
      /\ UNCHANGED <<mode, relabels, change, proposed>>
  BY <1>1 DEF Rules!FinishRelabel
<1>4. label' \in [Servers -> Rules!ENVIRONMENTS] /\ label'[q.on] = q.new
      /\ \A s \in Servers \ {q.on} : label'[s] = label[s]
  BY <1>2, <1>3 DEF RuleInv, RuleTypes
<1>5. ASSUME NEW s \in Sessions PROVE request'[s] \in RuleRequests /\ Backed(request[s])'
  <2>1. PICK p \in RuleRequests : p = request[s] /\ Backed(p)
    BY DEF RuleInv, RuleTypes
  <2>2. Approved(p)' = Approved(p)
    BY <1>3 DEF Approved, Rules!Made, Rules!check_can_apply, Rules!effective_environment
  <2>3. CASE s = r
    BY <1>3, <2>3 DEF RuleRequests, Backed, Rules!Idle
  <2>4. CASE s # r /\ p # Rules!Idle /\ p.on = q.on
    <3>1. PICK n : n = [p EXCEPT !.raced = TRUE]
      OBVIOUS
    <3>2. request'[s] = n
      BY <1>3, <2>1, <2>4, <3>1
    <3>3. /\ n \in RuleRequests /\ n.op = p.op /\ n.user = p.user /\ n.seen = p.seen /\ n.raced
          /\ n.op = "relabel" => n.new = p.new
          /\ n.op \in {"execute", "apply"} => n.id = p.id
      BY <2>4, <3>1 DEF RuleRequests
    <3>4. Rules!check_environment_change(p.user, p.seen, p.new)' = Rules!check_environment_change(p.user, p.seen, p.new)
      BY DEF Rules!check_environment_change
    <3>5. n.op \in {"execute", "apply"} => Approved(n)'
      <4>1. n.op \in {"execute", "apply"} => (Approved(n)' <=> Approved(p)')
        BY <3>3 DEF Approved
      <4> QED BY <2>1, <2>2, <3>3, <4>1 DEF Backed
    <3>6. n.op = "relabel" => Rules!check_environment_change(n.user, n.seen, n.new)'
      BY <2>1, <3>3, <3>4 DEF Backed
    <3>7. Backed(n)'
      BY <3>3, <3>5, <3>6 DEF Backed
    <3> QED BY <3>2, <3>3, <3>7 DEF Backed, Approved
  <2>5. CASE s # r /\ ~(p # Rules!Idle /\ p.on = q.on)
    <3>1. request'[s] = p
      BY <1>3, <2>1, <2>5
    <3>2. p # Rules!Idle => p.on \in Servers
      BY DEF RuleRequests, Rules!Idle
    <3>3. p # Rules!Idle /\ ~p.raced => label'[p.on] = p.seen
      BY <1>4, <2>1, <2>5, <3>2 DEF Backed
    <3>4. Rules!check_environment_change(p.user, p.seen, p.new)' = Rules!check_environment_change(p.user, p.seen, p.new)
      BY DEF Rules!check_environment_change
    <3>5. Backed(p)'
      BY <2>1, <2>2, <3>3, <3>4 DEF Backed, Rules!Idle
    <3> QED BY <3>1, <3>5 DEF Backed, Approved
  <2> QED BY <2>3, <2>4, <2>5
<1>6. request' \in [Sessions -> RuleRequests]
  <2>1. \A s \in Sessions : request'[s] \in RuleRequests
    BY <1>5
  <2>2. request' = [s \in Sessions |-> request'[s]]
    BY <1>3
  <2> QED BY <2>1, <2>2
<1>7. RuleTypes'
  BY <1>3, <1>4, <1>6 DEF RuleInv, RuleTypes, Rules!Row
<1>8. FromInv' /\ NoCircle'
  BY <1>3 DEF RuleInv, FromInv, NoCircle, Rules!Kept, Rules!Made, Applied
<1>9. \A s \in Sessions : ~Rules!Applies(s)
  BY <1>3 DEF Rules!Applies
<1>10. Rules!LabelsNeedRights
  <2> SUFFICES ASSUME NEW s \in Servers, label'[s] # label[s]
               PROVE  /\ request[r].op = "relabel" /\ request'[r] = Rules!Idle
                      /\ \/ request[r].raced
                         \/ \A e \in {label[s], label'[s]} \ {"dev"} : Rules!DEPLOY_PERMISSION[e] \in Rights[request[r].user]
    BY DEF Rules!LabelsNeedRights
  <2>1. s = q.on
    BY <1>4
  <2>2. ~q.raced => label[s] = q.seen /\ label'[s] = q.new
    BY <1>1, <1>2, <1>4, <2>1 DEF Backed
  <2> QED BY <1>1, <1>3, <2>2 DEF Backed, Rules!check_environment_change
<1>11. Rules!TwoPersons /\ Rules!NoWayRound /\ Rules!AssistantStaysLow
  BY <1>9 DEF Rules!TwoPersons, Rules!NoWayRound, Rules!AssistantStaysLow
<1> QED
  BY <1>5, <1>7, <1>8, <1>10, <1>11 DEF RuleInv, RuleStep

-----------------------------------------------------------------------------
\* The rules as the model begins satisfy the invariant.
LEMMA InitRules == Rules!Init => RuleInv
<1> SUFFICES ASSUME Rules!Init PROVE RuleInv
  OBVIOUS
<1>1. Rules!Kept = {}
  BY DEF Rules!Init, Rules!Kept, Rules!Made
<1>2. RuleTypes
  <2>1. [status |-> "none"] \in Rules!Row
    BY DEF Rules!Row
  <2>2. Rules!Idle \in RuleRequests
    BY DEF RuleRequests
  <2> QED BY <2>1, <2>2, NoneAssumption DEF Rules!Init, RuleTypes
<1>3. \A r \in Sessions : Backed(request[r])
  BY DEF Rules!Init, Backed, Rules!Idle
<1> QED
  BY <1>1, <1>2, <1>3 DEF RuleInv, FromInv, NoCircle

\* Every step keeps it, and the promises.
LEMMA NextRules == RuleInv /\ [Rules!Next]_ruleVars => RuleInv' /\ [RuleStep]_ruleVars
<1> SUFFICES ASSUME RuleInv, [Rules!Next]_ruleVars PROVE RuleInv' /\ [RuleStep]_ruleVars
  OBVIOUS
<1>1. CASE UNCHANGED ruleVars
  BY <1>1 DEF RuleInv, ruleVars, RuleTypes, Rules!Row, FromInv, NoCircle, Rules!Kept, Rules!Made, Applied, Backed,
              Approved, Rules!check_can_apply, Rules!effective_environment, Rules!check_environment_change
<1>2. ASSUME NEW u \in Users, Rules!Drafting(u) \/ \E i \in Rules!Kept : Rules!Rollback(u, i) \/ Rules!Reject(u, i)
      PROVE  RuleInv' /\ RuleStep
  BY <1>2, DraftingStep, RollbackOrRejectStep
<1>3. ASSUME NEW r \in Sessions, NEW u \in Users, Rules!Deciding(r, u) \/ Rules!Labelling(r, u)
      PROVE  RuleInv' /\ RuleStep
  BY <1>3, DecidingStep, LabellingStep
<1>4. ASSUME NEW r \in Sessions, Rules!Finish(r)
      PROVE  RuleInv' /\ RuleStep
  BY <1>4, FinishExecuteStep, FinishRelabelStep DEF Rules!Finish
<1> QED
  BY <1>1, <1>2, <1>3, <1>4 DEF Rules!Next

-----------------------------------------------------------------------------
\* One step up the road, from each change of a set.
Above(S) == S \cup ({change[j].from : j \in S} \ {None})

\* The road from a change is what five such steps reach (Chain).
LEMMA ChainIs ==
  ASSUME NEW i
  PROVE  Rules!Chain(i) = Above(Above(Above(Above({i}))))
<1> DEFINE T == <<{i}, Above({i}), Above(Above({i})), Above(Above(Above({i}))), Above(Above(Above(Above({i}))))>>
           f == [n \in 1 .. 5 |-> T[n]]
           Goes(g) == g = [n \in 1 .. Rules!MAX_CHAIN |->
                             IF n = 1 THEN {i} ELSE g[n - 1] \cup ({change[j].from : j \in g[n - 1]} \ {None})]
<1>1. Rules!MAX_CHAIN = 5 /\ 1 .. 5 = {1, 2, 3, 4, 5}
  BY DEF Rules!MAX_CHAIN
<1>2. f[1] = {i} /\ f[2] = Above(f[1]) /\ f[3] = Above(f[2]) /\ f[4] = Above(f[3]) /\ f[5] = Above(f[4])
  BY <1>1
<1>3. Goes(f)
  <2> HIDE DEF T
  <2>1. \A n \in 1 .. 5 : f[n] = IF n = 1 THEN {i} ELSE Above(f[n - 1])
    <3>1. 2 - 1 = 1 /\ 3 - 1 = 2 /\ 4 - 1 = 3 /\ 5 - 1 = 4
      OBVIOUS
    <3> HIDE DEF f
    <3> QED BY <1>1, <1>2, <3>1
  <2>2. f = [n \in 1 .. 5 |-> IF n = 1 THEN {i} ELSE Above(f[n - 1])]
    BY <2>1
  <2> QED BY <1>1, <2>2 DEF Above
<1>4. PICK g : g = CHOOSE x : Goes(x)
  OBVIOUS
<1> HIDE DEF f
<1>5. Goes(g)
  <2> HIDE DEF Goes
  <2> QED BY <1>3, <1>4
<1>6. Rules!Chain(i) = g[5]
  BY <1>1, <1>4 DEF Rules!Chain
<1>7. \A n \in 1 .. 5 : g[n] = IF n = 1 THEN {i} ELSE Above(g[n - 1])
  <2>1. g = [n \in 1 .. 5 |-> IF n = 1 THEN {i} ELSE Above(g[n - 1])]
    BY <1>1, <1>5 DEF Above
  <2> QED BY <2>1
<1>8. g[1] = {i} /\ g[2] = Above(g[1]) /\ g[3] = Above(g[2]) /\ g[4] = Above(g[3]) /\ g[5] = Above(g[4])
  <2>1. 2 - 1 = 1 /\ 3 - 1 = 2 /\ 4 - 1 = 3 /\ 5 - 1 = 4
    OBVIOUS
  <2> HIDE DEF Goes
  <2> QED BY <1>1, <1>7, <2>1
<1> QED
  BY <1>6, <1>8

\* A change that another was promoted from, directly or not, by way of changes that
\* all lead on to it.
LeadsTo(i, j) ==
  /\ j \in Rules!Kept /\ change[j].content = change[i].content /\ change[j].ai = change[i].ai
  /\ j # i => change[j].status \in Applied
  /\ \E S \in SUBSET Rules!Kept : i \in S /\ j \in S /\ \A k \in S \ {j} : change[k].from \in S

LEMMA RoadGoesOn ==
  ASSUME RuleInv, NEW i \in Rules!Kept, NEW S, \A j \in S : LeadsTo(i, j)
  PROVE  \A j \in Above(S) : LeadsTo(i, j)
<1> SUFFICES ASSUME NEW j \in S, change[j].from # None PROVE LeadsTo(i, change[j].from)
  BY DEF Above
<1>1. PICK U \in SUBSET Rules!Kept : i \in U /\ j \in U /\ \A k \in U \ {j} : change[k].from \in U
  BY DEF LeadsTo
<1>2. PICK m : m = change[j].from
  OBVIOUS
<1>3. /\ m \in Rules!Kept /\ change[m].status \in Applied
      /\ change[m].content = change[i].content /\ change[m].ai = change[i].ai
  BY <1>2 DEF RuleInv, FromInv, LeadsTo
<1>4. PICK V \in SUBSET Rules!Kept : V = U \cup {m}
  BY <1>3
<1>5. i \in V /\ m \in V /\ \A k \in V \ {m} : change[k].from \in V
  BY <1>1, <1>2, <1>4
<1> QED
  BY <1>2, <1>3, <1>5 DEF LeadsTo

\* What a package shows an approver is true.
LEMMA RoadHolds == RuleInv => Rules!RoadIsProven
<1> SUFFICES ASSUME RuleInv, NEW i \in Rules!Kept
             PROVE  \A j \in Rules!Chain(i) \ {i} :
                      /\ change[j].status \in Applied
                      /\ change[j].from # i /\ Rules!Evidence(i).unchanged
  BY DEF Rules!RoadIsProven, Applied
<1>1. \A j \in {i} : LeadsTo(i, j)
  <2>1. {i} \in SUBSET Rules!Kept
    OBVIOUS
  <2> QED BY <2>1 DEF LeadsTo
<1>2. \A j \in Above({i}) : LeadsTo(i, j)
  BY <1>1, RoadGoesOn
<1>3. \A j \in Above(Above({i})) : LeadsTo(i, j)
  BY <1>2, RoadGoesOn
<1>4. \A j \in Above(Above(Above({i}))) : LeadsTo(i, j)
  BY <1>3, RoadGoesOn
<1>5. \A j \in Rules!Chain(i) : LeadsTo(i, j)
  BY <1>4, RoadGoesOn, ChainIs
<1>6. Rules!Evidence(i).unchanged
  BY <1>5 DEF Rules!Evidence, LeadsTo
<1>7. ASSUME NEW j \in Rules!Chain(i) \ {i}, change[j].from = i PROVE FALSE
  <2>1. PICK S \in SUBSET Rules!Kept : i \in S /\ j \in S /\ \A k \in S \ {j} : change[k].from \in S
    BY <1>5, <1>7 DEF LeadsTo
  <2>2. \A k \in S : change[k].from \in S
    BY <1>7, <2>1
  <2> QED BY <2>1, <2>2 DEF RuleInv, NoCircle
<1> QED
  BY <1>5, <1>6, <1>7 DEF LeadsTo

\* The rows and requests are of their types.
LEMMA RulesTyped == RuleInv => Rules!TypeOK
<1> SUFFICES ASSUME RuleInv PROVE Rules!TypeOK
  OBVIOUS
<1>1. ASSUME NEW r \in Sessions
      PROVE  \/ request[r] = Rules!Idle
             \/ /\ request[r].op \in {"execute", "apply", "relabel"}
                /\ request[r].user \in Users /\ request[r].on \in Servers
                /\ request[r].seen \in Rules!ENVIRONMENTS /\ request[r].raced \in BOOLEAN
  <2>1. request[r] \in RuleRequests
    BY DEF RuleInv, RuleTypes
  <2> QED BY <2>1 DEF RuleRequests
<1> QED
  BY <1>1 DEF RuleInv, RuleTypes, Rules!TypeOK

\* In the composition.
WhileRules == part = "rules" => RuleInv

LEMMA ComposedRules ==
  /\ MCInit => WhileRules
  /\ WhileRules /\ [MCNext]_MCvars => WhileRules' /\ (part = "rules" => [RuleStep]_ruleVars)
<1>1. MCInit => WhileRules
  BY InitRules DEF MCInit, WhileRules
<1>2. ASSUME WhileRules, [MCNext]_MCvars, part = "rules" \/ part' = "rules"
      PROVE  part' = part /\ RuleInv /\ [Rules!Next]_ruleVars
  BY <1>2 DEF MCNext, MCvars, OnlyDeployment, OnlyRules, OnlyCells, WhileRules
<1> QED
  BY <1>1, <1>2, NextRules DEF WhileRules

\* No road leads round the people who decide: a PROD change is applied by somebody
\* other than its author (check_can_apply), relabelling a server loosens no rule of a
\* draft (effective_environment) and needs the rights of both labels
\* (check_environment_change), the assistant applies only its own drafts and nothing on
\* PROD (ApplyChangeTool), and what is promoted was applied before (promote).
THEOREM PeopleGoOnDeciding == MCSpec => PeopleDecide
<1>1. WhileRules /\ part = "rules" => Rules!TypeOK /\ Rules!RoadIsProven
  BY RulesTyped, RoadHolds DEF WhileRules
<1>2. (WhileRules /\ part = "rules" => Rules!TypeOK /\ Rules!RoadIsProven)'
  BY <1>1, PTL
<1>3. WhileRules /\ [MCNext]_MCvars =>
        [part = "rules" => /\ Rules!TwoPersons /\ Rules!NoWayRound
                           /\ Rules!LabelsNeedRights /\ Rules!AssistantStaysLow
                           /\ (Rules!TypeOK /\ Rules!RoadIsProven)']_ruleVars
  <2> SUFFICES ASSUME WhileRules, [MCNext]_MCvars, part = "rules"
               PROVE  [/\ Rules!TwoPersons /\ Rules!NoWayRound
                       /\ Rules!LabelsNeedRights /\ Rules!AssistantStaysLow
                       /\ (Rules!TypeOK /\ Rules!RoadIsProven)']_ruleVars
    OBVIOUS
  <2>1. part' = "rules"
    BY DEF MCNext, MCvars, OnlyDeployment, OnlyRules, OnlyCells
  <2>2. WhileRules' /\ [RuleStep]_ruleVars
    BY ComposedRules
  <2> QED BY <1>2, <2>1, <2>2 DEF RuleStep
<1> QED
  BY <1>3, ComposedRules, PTL DEF MCSpec, PeopleDecide
=============================================================================

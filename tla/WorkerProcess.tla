--------------------------- MODULE WorkerProcess ---------------------------
(***************************************************************************)
(* The report worker on a customer's Windows machine: one loop that claims *)
(* a job, carries it out and reports it, and for each job a child process  *)
(* that drives Excel.  Excel's blocking calls cannot be interrupted, so    *)
(* the loop watches the child from outside and kills it.  The control      *)
(* plane is reduced to the execution in hand (see ReportExecutions): every *)
(* call to it may be lost before or after it took effect.                  *)
(***************************************************************************)
EXTENDS Naturals, FiniteSets

CONSTANTS Formats,      \* the output formats of a job
          Direct,       \* TRUE: files are in S3, and signed links can be had
          Keep,         \* keep_workspace_on_failure
          CompleteAttempts \* _COMPLETE_ATTEMPTS

VARIABLES
  at,        \* where the loop is
  refused,   \* an AuthenticationError is on its way out
  tries,     \* calls of complete_job so far
  workspace, \* "none", "open" or "kept"
  child,     \* the step of the child process, or how it ended
  result,    \* what the child wrote to stdout: "", "ok" or "error"
  excel,     \* the Excel the child started: "none", "up" or "hung"
  owned,     \* its process id and creation time are known
  data,      \* of the refresh: "old", "fresh", or "failed" without an exception
  traced,    \* PAfE's trace log can be read
  files,     \* formats exported to the workspace
  sent,      \* formats _upload_artifacts has got through
  overdue,   \* the job's deadline has passed
  job,       \* the execution at the control plane
  stored,    \* its artifacts
  valid,     \* the worker's credential is accepted
  lost       \* some call about this job was lost, or its credential refused

vars == <<at, refused, tries, workspace, child, result, excel, owned, data, traced,
          files, sent, overdue, job, stored, valid, lost>>
machine == <<child, result, excel, owned, data, traced, files, overdue>>
plane == <<job, stored>>

Leased == {"claimed", "running"}
Steps == {"excel", "connect", "logon", "open", "refresh", "wait", "trace", "export", "quit"}
Loop == {"idle", "claimed", "start", "link", "download", "spawn", "supervise", "upload",
         "complete", "report", "beat", "stopped"}

TypeOK ==
  /\ at \in Loop /\ refused \in BOOLEAN /\ tries \in 0..CompleteAttempts
  /\ workspace \in {"none", "open", "kept"}
  /\ child \in Steps \cup {"none", "exited", "died", "killed"} /\ result \in {"", "ok", "error"}
  /\ excel \in {"none", "up", "hung"} /\ owned \in BOOLEAN /\ overdue \in BOOLEAN
  /\ data \in {"old", "fresh", "failed"} /\ traced \in BOOLEAN
  /\ files \subseteq Formats /\ sent \subseteq Formats /\ stored \subseteq Formats
  /\ job \in Leased \cup {"none", "succeeded", "failed", "reclaimed"}
  /\ valid \in BOOLEAN /\ lost \in BOOLEAN

Init ==
  /\ at = "idle" /\ refused = FALSE /\ tries = 0 /\ workspace = "none"
  /\ child = "none" /\ result = "" /\ excel = "none" /\ owned = FALSE /\ overdue = FALSE
  /\ data = "old" /\ traced = TRUE /\ files = {} /\ sent = {}
  /\ job = "none" /\ stored = {} /\ valid = TRUE /\ lost = FALSE

-----------------------------------------------------------------------------
(* A call to the control plane.  _raw_request renews the bearer token and  *)
(* repeats a request once after a 401, so "auth" means the credential      *)
(* itself is refused; "lost" is every other failure to get an answer.      *)

Answers(ours) ==
  {"lost"} \cup IF ~valid THEN {"auth"} ELSE IF ours THEN {"ok"} ELSE {"conflict"}

\* The call took effect: it was answered, or its answer was lost.
Effects(a) == IF a = "ok" THEN {TRUE} ELSE IF a = "lost" /\ valid THEN BOOLEAN ELSE {FALSE}

Heard(a) == lost' = (lost \/ a \in {"lost", "auth"})

\* What __exit__ leaves of the workspace.
Closed(failed) == IF workspace # "open" THEN workspace ELSE IF failed /\ Keep THEN "kept" ELSE "none"

\* execute_job's handlers: a WorkerError is reported; a call that got no answer
\* is not ("the server's lease reaper will time this execution out"); a refused
\* credential ends the loop.  In every case the workspace is closed first.
Fails_Silent(how) ==
  workspace' = Closed(TRUE) /\ at' = "beat" /\ refused' = (how = "auth")

Fails(how) ==
  /\ workspace' = Closed(TRUE)
  /\ at' = IF how = "worker" THEN "report" ELSE "beat"
  /\ refused' = (how = "auth")

-----------------------------------------------------------------------------
(* JobPoller._tick.                                                        *)

\* The heartbeat that may be due, and the claim: a job whose answer is lost is
\* claimed all the same.
Claim ==
  /\ at = "idle"
  /\ \/ /\ ~valid /\ at' = "stopped"
        /\ UNCHANGED <<refused, tries, workspace, machine, sent, plane, valid, lost>>
     \/ /\ valid /\ \E heard \in BOOLEAN :
             /\ at' = IF heard THEN "claimed" ELSE "idle"
             /\ lost' = ~heard
        /\ job' = "claimed" /\ stored' = {} /\ sent' = {} /\ tries' = 0
        /\ child' = "none" /\ result' = "" /\ overdue' = FALSE
        /\ data' = "old" /\ files' = {} /\ excel' = "none"
        /\ traced' \in BOOLEAN
        /\ workspace' = "none"    \* a directory of its own; an older one may be kept
        /\ UNCHANGED <<refused, owned, valid>>

\* The busy heartbeat is outside the try: if it fails the job is never begun.
BusyBeat ==
  /\ at = "claimed"
  /\ \E a \in Answers(TRUE) :
       /\ at' = CASE a = "ok" -> "start" [] a = "auth" -> "stopped" [] OTHER -> "idle"
       /\ Heard(a)
  /\ UNCHANGED <<refused, tries, workspace, machine, sent, plane, valid>>

\* The heartbeat of the finally clause; an error of its own replaces the one on
\* its way out, so a lost answer keeps a refused worker polling once more.
IdleBeat ==
  /\ at = "beat"
  /\ \E a \in Answers(TRUE) :
       /\ at' = IF a = "auth" \/ (a = "ok" /\ refused) THEN "stopped" ELSE "idle"
       /\ Heard(a)
  /\ refused' = FALSE
  /\ UNCHANGED <<tries, workspace, machine, sent, plane, valid>>

-----------------------------------------------------------------------------
(* execute_job.                                                            *)

StartJob ==
  /\ at = "start"
  /\ \E a \in Answers(job = "claimed") : \E done \in Effects(a) :
       /\ job' = IF done /\ job = "claimed" THEN "running" ELSE job
       /\ Heard(a)
       /\ \/ a = "ok" /\ at' = "link" /\ workspace' = "open" /\ UNCHANGED refused
          \/ a # "ok" /\ Fails(IF a = "auth" THEN "auth" ELSE "plane")
  /\ UNCHANGED <<tries, machine, sent, stored, valid>>

\* download_workbook asks for a signed link.  Where there are none the plane
\* answers 404, and _raw_request raises before the fallback is looked at.
Link ==
  /\ at = "link"
  /\ \E a \in Answers(TRUE) :
       /\ Heard(a)
       /\ \/ a = "ok" /\ Direct /\ at' = "download" /\ UNCHANGED <<workspace, refused>>
          \/ a = "ok" /\ ~Direct /\ Fails("plane")
          \/ a # "ok" /\ Fails(IF a = "auth" THEN "auth" ELSE "plane")
  /\ UNCHANGED <<tries, machine, sent, plane, valid>>

\* write_workbook: an empty or foreign file is a WorkerError.
WriteWorkbook ==
  \/ at' = "spawn" /\ UNCHANGED <<workspace, refused>>
  \/ Fails("worker")

\* The file is fetched, or storage refuses it; an altered one is a WorkerError.
Download ==
  /\ at = "download"
  /\ \/ WriteWorkbook /\ UNCHANGED lost
     \/ Fails("worker") /\ UNCHANGED lost
     \/ Fails("plane") /\ lost' = TRUE
  /\ UNCHANGED <<tries, machine, sent, plane, valid>>

\* ExecutionSupervisor.run starts the child, or finds that it cannot.
Spawn ==
  /\ at = "spawn"
  /\ \/ at' = "supervise" /\ child' = "excel" /\ UNCHANGED <<workspace, refused>>
     \/ Fails("worker") /\ UNCHANGED child
  /\ UNCHANGED <<tries, result, excel, owned, data, traced, files, overdue, sent, plane, valid, lost>>

\* _terminate_tree: the child and the Excel it started.
KillTree == child' = "killed" /\ excel' = "none"

\* One turn of the supervisor's loop while the child runs: the lease is renewed,
\* and only a conflict says that the execution is no longer ours.
Supervise_NoDeadline ==
  /\ at = "supervise" /\ child \in Steps
  /\ \E a \in Answers(job \in Leased) :
       /\ Heard(a)
       /\ a = "conflict" /\ Fails("worker") /\ KillTree
  /\ UNCHANGED <<tries, result, owned, data, traced, files, overdue, sent, plane, valid>>

Supervise ==
  /\ at = "supervise" /\ child \in Steps
  /\ \E a \in Answers(job \in Leased) :
       /\ Heard(a)
       /\ IF a = "conflict" \/ overdue
          THEN Fails("worker") /\ KillTree
          ELSE UNCHANGED <<at, workspace, refused, child, excel>>
  /\ UNCHANGED <<tries, result, owned, data, traced, files, overdue, sent, plane, valid>>

\* The child exited: its result is read, and nothing on stdout means a crash.
ReadResult ==
  /\ at = "supervise" /\ child \in {"exited", "died"}
  /\ \/ result = "ok" /\ at' = "upload" /\ UNCHANGED <<workspace, refused>>
     \/ result # "ok" /\ Fails("worker")
  /\ UNCHANGED <<tries, machine, sent, plane, valid, lost>>

\* upload_artifact: a signed link, the file, and its record.  Where there are no
\* signed links the multipart upload is never reached either.
UploadArtifact(f) ==
  \E a \in Answers(job \in Leased) : \E done \in Effects(a) :
    /\ stored' = IF done /\ job \in Leased /\ Direct THEN stored \cup {f} ELSE stored
    /\ Heard(a)
    /\ \/ a = "ok" /\ Direct /\ sent' = sent \cup {f} /\ UNCHANGED <<at, workspace, refused>>
       \/ (a = "ok" => ~Direct) /\ Fails("worker") /\ UNCHANGED sent

\* _upload_artifacts: every failure of an upload, a refused credential too, is a
\* WorkerError.
Upload ==
  /\ at = "upload"
  /\ IF sent = files
     THEN at' = "complete" /\ UNCHANGED <<workspace, refused, sent, stored, lost>>
     ELSE \E f \in files \ sent : UploadArtifact(f)
  /\ UNCHANGED <<tries, machine, job, valid>>

\* _complete_with_retry: complete_job is idempotent for an execution that has
\* succeeded; after _COMPLETE_ATTEMPTS answers that are errors the job is
\* reported as failed.
Complete ==
  /\ at = "complete"
  /\ \E a \in Answers(job \in Leased \cup {"succeeded"}) : \E done \in Effects(a) :
       /\ job' = IF done /\ job \in Leased THEN "succeeded" ELSE job
       /\ Heard(a)
       /\ CASE a = "ok" -> at' = "beat" /\ workspace' = Closed(FALSE) /\ UNCHANGED <<refused, tries>>
            [] a = "auth" -> Fails("auth") /\ UNCHANGED tries
            [] OTHER -> IF tries + 1 < CompleteAttempts
                        THEN tries' = tries + 1 /\ UNCHANGED <<at, workspace, refused>>
                        ELSE Fails("worker") /\ UNCHANGED tries
  /\ UNCHANGED <<machine, sent, stored, valid>>

\* _report_failure, best effort.
ReportFailure ==
  /\ at = "report"
  /\ \E a \in Answers(job \in Leased) : \E done \in Effects(a) :
       /\ job' = IF done /\ job \in Leased THEN "failed" ELSE job
       /\ Heard(a)
  /\ at' = "beat"
  /\ UNCHANGED <<refused, tries, workspace, machine, sent, stored, valid>>

-----------------------------------------------------------------------------
(* The child process: child.main and PAfEWorkbookRunner.run.               *)

Goes(step) == child' = step

\* main turns what the runner raised into an error result; the with statement
\* has closed Excel by then.
Raises == child' = "quit" /\ result' = "error"
ChildKeeps == UNCHANGED <<at, refused, tries, workspace, overdue, sent, plane, valid, lost>>

\* ExcelSession.__enter__: an Excel that starts and never answers is left as it
\* is, for an __enter__ that raises has no __exit__.
StartExcel ==
  /\ child = "excel"
  /\ \/ excel' = "up" /\ owned' \in BOOLEAN /\ Goes("connect") /\ UNCHANGED result
     \/ excel' \in {"hung", excel} /\ child' = "exited" /\ result' = "error" /\ UNCHANGED owned
  /\ ChildKeeps /\ UNCHANGED <<data, traced, files>>

\* connect, and suppress_messages: the add-in may not be there.
Connect ==
  /\ child = "connect"
  /\ \/ Goes("logon") /\ UNCHANGED result
     \/ Raises
  /\ ChildKeeps /\ UNCHANGED <<excel, owned, data, traced, files>>

Logon ==
  \/ Goes("open") /\ UNCHANGED result
  \/ Raises

\* _maybe_logon: without credentials of the machine's own there is no logon.
MaybeLogon ==
  /\ child = "logon"
  /\ \/ Logon
     \/ Goes("open") /\ UNCHANGED result
  /\ ChildKeeps /\ UNCHANGED <<excel, owned, data, traced, files>>

\* open_workbook: Excel opens the file, or refuses it.
OpenWorkbook ==
  /\ child = "open"
  /\ \/ Goes("refresh") /\ UNCHANGED result
     \/ Raises
  /\ ChildKeeps /\ UNCHANGED <<excel, owned, data, traced, files>>

\* RefreshAllData and Wait return although no data arrived.
Refresh ==
  /\ \/ child = "refresh" /\ Goes("wait") /\ UNCHANGED <<result, data>>
     \/ child = "wait" /\ Goes("trace") /\ data' \in {"fresh", "failed"} /\ UNCHANGED result
     \/ child \in {"refresh", "wait"} /\ Raises /\ UNCHANGED data
  /\ ChildKeeps /\ UNCHANGED <<excel, owned, traced, files>>

\* classify_trace_log: a failure PAfE only wrote down; an unreadable log says
\* nothing.
ReadTrace ==
  /\ child = "trace"
  /\ IF traced /\ data = "failed" THEN Raises ELSE Goes("export") /\ UNCHANGED result
  /\ ChildKeeps /\ UNCHANGED <<excel, owned, data, traced, files>>

\* save_workbook_as or export_pdf, for a format that is still to be written; a
\* busy Excel is asked again and may refuse to the end.
SaveFile(f) ==
  \/ files' = files \cup {f} /\ UNCHANGED <<child, result>>
  \/ Raises /\ UNCHANGED files

\* _export, format by format; an empty file is an error.
Export ==
  /\ child = "export"
  /\ \/ \E f \in Formats \ files : SaveFile(f)
     \/ files = Formats /\ Goes("quit") /\ result' = "ok" /\ UNCHANGED files
  /\ ChildKeeps /\ UNCHANGED <<excel, owned, data, traced>>

\* ExcelSession.close: Quit, and if Excel is still there it is terminated when
\* it is known to be ours; then the result is written and the child exits.
Quit ==
  /\ child = "quit"
  /\ child' = "exited" /\ excel' \in (IF owned THEN {"none"} ELSE {"none", "up"})
  /\ ChildKeeps /\ UNCHANGED <<result, owned, data, traced, files>>

\* The child dies at any point without a word.
ChildDies ==
  /\ child \in Steps
  /\ child' = "died" /\ result' = "" /\ excel' \in {"none", excel}
  /\ ChildKeeps /\ UNCHANGED <<owned, data, traced, files>>

\* run, in its order.
ChildStep == \/ StartExcel \/ Connect \/ MaybeLogon \/ OpenWorkbook \/ Refresh \/ ReadTrace
             \/ Export \/ Quit \/ ChildDies

-----------------------------------------------------------------------------
(* The world.                                                              *)

Deadline ==
  /\ at = "supervise" /\ ~overdue /\ overdue' = TRUE
  /\ UNCHANGED <<at, refused, tries, workspace, child, result, excel, owned, data, traced,
                 files, sent, plane, valid, lost>>

\* A cancellation, the execution's timeout, or the lease reaper.
Reclaim ==
  /\ job \in Leased /\ job' = "reclaimed"
  /\ UNCHANGED <<at, refused, tries, workspace, machine, sent, stored, valid, lost>>

\* Disabled, revoked or rotated; after that an operator enrols the worker again.
Revoke ==
  /\ valid /\ valid' = FALSE
  /\ UNCHANGED <<at, refused, tries, workspace, machine, sent, plane, lost>>

Restart ==
  /\ at = "stopped" /\ at' = "idle" /\ valid' = TRUE
  /\ UNCHANGED <<refused, tries, workspace, machine, sent, plane, lost>>

LoopStep == \/ BusyBeat \/ IdleBeat \/ StartJob \/ Link \/ Download \/ Spawn \/ Supervise
            \/ ReadResult \/ Upload \/ Complete \/ ReportFailure

Next == Claim \/ LoopStep \/ ChildStep \/ Deadline \/ Reclaim \/ Revoke \/ Restart

Spec == Init /\ [][Next]_vars

\* The loop keeps turning and the clock passes the deadline.  Nothing is asked
\* of the child: Wait() need never return.
Fairness == WF_vars(LoopStep) /\ WF_vars(Deadline)

-----------------------------------------------------------------------------
\* A report that succeeded has every artifact, and no artifact shows data from
\* before a refresh that PAfE's log says failed (execute_job: "a report marked
\* SUCCEEDED with no artifact is worse than an honest failure"; "a stale report
\* that looks current").
SucceededIsComplete ==
  job = "succeeded" => stored = Formats /\ (data = "failed" => ~traced)

\* Whatever ends a job, the loop never goes on with a child process still
\* running, and an Excel that answered outlives its job only if the child died
\* unasked or could not tell which process it is (_terminate_tree: "killing only
\* the direct child would orphan the Excel process").
NoChildLeftRunning ==
  at # "supervise" => /\ child \notin Steps
                      /\ excel = "up" => child = "died" \/ (child = "exited" /\ ~owned)

\* Report data does not stay on the machine: between jobs the only directory
\* left is that of a failed job an operator asked to keep.
WorkspaceGone ==
  at \in {"idle", "beat", "report", "stopped"} => workspace # "open" /\ (workspace = "kept" => Keep)

\* The worker is done with an execution and it is still leased to it only if a
\* call was lost or the credential refused: every other end is reported
\* (download_workbook: "Older servers answer 404 to the link request and the
\* workbook is streamed through the API as before").
EveryEndIsReported == at = "idle" /\ job \in Leased => lost

\* A job ends whole: all of the above at once (execute_job).
JobsEndWhole ==
  TypeOK /\ EveryEndIsReported /\ SucceededIsComplete /\ NoChildLeftRunning /\ WorkspaceGone

\* The worker always comes back to polling or stops for its operator to see,
\* also when Excel never returns from a call.
BackToPolling == at \notin {"idle", "stopped"} ~> at \in {"idle", "stopped"}
=============================================================================

--------------------------- MODULE DeliveryProofs ---------------------------
(***************************************************************************)
(* What MCDelivery composes, for every set of formats, number of attempts  *)
(* and setting of the worker, and any number of requests, parts and rows:  *)
(* jobs of the report worker end whole, whatever calls are lost, jobs      *)
(* reclaimed, credentials refused and Excels hung; the gateway relay does  *)
(* what GatewayRelayProofs proves of it alone; the files of reports are    *)
(* where their rows say; nobody gets more requests through than their      *)
(* limits; a periodic task has one handler at work.                        *)
(***************************************************************************)
EXTENDS MCDelivery, WellFoundedInduction, FiniteSetTheorems, SequenceTheorems, TLAPS

\* _COMPLETE_ATTEMPTS is a positive constant, the rest are switches.
ConstantsAreSound == Direct \in BOOLEAN /\ Keep \in BOOLEAN /\ CompleteAttempts \in Nat \ {0}

-----------------------------------------------------------------------------
(***************************************************************************)
(* The inductive invariant: the type invariant in the parts that steps     *)
(* change together, then what the loop knows of the job in hand (JobInv),  *)
(* of its child process (ChildInv), of the child's result (ResultInv) and  *)
(* of the artifacts sent (SentInv).  The properties are about how a job    *)
(* ends; what carries them there is what holds at every line before.       *)
(***************************************************************************)
\* The loop, its workspace and what it has sent.
LoopTypes ==
  /\ at \in Loop /\ refused \in BOOLEAN /\ tries \in 0..CompleteAttempts
  /\ workspace \in {"none", "open", "kept"}
  /\ sent \subseteq Formats /\ lost \in BOOLEAN

\* The child process, its Excel and what they produced.
ChildTypes ==
  /\ child \in Steps \cup {"none", "exited", "died", "killed"} /\ result \in {"", "ok", "error"}
  /\ excel \in {"none", "up", "hung"} /\ owned \in BOOLEAN
  /\ data \in {"old", "fresh", "failed"} /\ traced \in BOOLEAN /\ files \subseteq Formats

\* The execution at the control plane, its artifacts, the clock, the credential.
WorldTypes ==
  /\ job \in Leased \cup {"none", "succeeded", "failed", "reclaimed"}
  /\ stored \subseteq Formats /\ overdue \in BOOLEAN /\ valid \in BOOLEAN

\* A claimed job is not begun, an ended one is settled unless a call was lost (or no
\* link can be had), and the workspace is closed on every way out.
JobInv ==
  /\ at \in {"claimed", "start"} => job \in {"claimed", "reclaimed"} /\ workspace = "none"
  /\ at \in {"idle", "beat", "stopped"} /\ job \in Leased => lost \/ ~Direct
  /\ at \in {"idle", "beat", "report", "stopped"} => workspace # "open"
  /\ workspace = "kept" => Keep

\* The child runs exactly while it is supervised, writes its result last, and an
\* Excel outlives it only where close or the kill could not know it.
ChildInv ==
  /\ at \in {"claimed", "start", "link", "download", "spawn"} => child = "none" /\ result = ""
  /\ at # "supervise" => child \notin Steps
  /\ child \in Steps \ {"quit"} => result = ""
  /\ child \in {"none", "excel", "killed"} => excel = "none"
  /\ child = "exited" /\ excel = "up" => ~owned

\* An "ok" stands for every format, exported after the trace log was looked at, and
\* only an "ok" is uploaded.
ResultInv ==
  /\ result = "ok" => files = Formats
  /\ child = "export" \/ result = "ok" => ~(traced /\ data = "failed")
  /\ at \in {"upload", "complete"} => result = "ok"

\* complete_job is called with everything uploaded, and what was uploaded is there.
SentInv ==
  /\ at = "complete" => sent = files
  /\ sent \subseteq stored
  /\ job = "succeeded" => /\ at \in {"complete", "report", "beat", "idle", "stopped"}
                          /\ stored = Formats /\ (data = "failed" => ~traced)

ChildPart == ChildTypes /\ ChildInv /\ ResultInv
LoopPart == LoopTypes /\ WorldTypes
JobPart == JobInv /\ SentInv

WorkerInv == ChildPart /\ LoopPart /\ JobPart

\* The counter of attempts stays within its bound.
LEMMA AttemptsInRange ==
  ASSUME ConstantsAreSound
  PROVE  /\ 0 \in 0..CompleteAttempts
         /\ \A n \in 0..CompleteAttempts : n + 1 < CompleteAttempts => n + 1 \in 0..CompleteAttempts
<1>1. CompleteAttempts \in Nat
  BY DEF ConstantsAreSound
<1> QED BY <1>1

\* The invariant holds when the worker starts.
LEMMA InvInit == ConstantsAreSound /\ Init => WorkerInv
<1> SUFFICES ASSUME ConstantsAreSound, Init PROVE WorkerInv
  OBVIOUS
<1> USE DEF Init, Steps, Leased
<1>1. ChildPart
  BY DEF ChildPart, ChildTypes, ChildInv, ResultInv
<1>2. LoopPart
  BY AttemptsInRange DEF LoopPart, LoopTypes, WorldTypes, Loop
<1>3. JobPart
  BY DEF JobPart, JobInv, SentInv
<1> QED BY <1>1, <1>2, <1>3 DEF WorkerInv

-----------------------------------------------------------------------------
\* The child moves only while the loop supervises it, and nothing else moves then
\* (run's steps are the child process's own).
LEMMA ChildOnly ==
  ASSUME WorkerInv, ChildStep
  PROVE  at = "supervise" /\ child \in Steps /\ ChildKeeps
<1>1. child \in Steps
  BY DEF ChildStep, StartExcel, Connect, MaybeLogon, OpenWorkbook,
         Refresh, ReadTrace, Export, Quit, ChildDies,
         Goes, Raises, Steps
<1>2. ChildKeeps
  BY DEF ChildStep, StartExcel, Connect, MaybeLogon, OpenWorkbook,
         Refresh, ReadTrace, Export, Quit, ChildDies,
         Goes, Raises
<1> QED BY <1>1, <1>2 DEF WorkerInv, ChildPart, ChildInv

\* Killing the child and its Excel leaves them well typed.
LEMMA KillKeepsTypes ==
  ASSUME ChildTypes, child' \in {child, "killed"}, excel' \in {excel, "none"},
         UNCHANGED <<result, owned, data, traced, files>>
  PROVE  ChildTypes'
BY DEF ChildTypes

\* What neither the loop's own steps nor the child's touch leaves the child's part.
LEMMA ChildFrame ==
  ASSUME WorkerInv, Deadline \/ Reclaim \/ Revoke \/ UNCHANGED vars
  PROVE  ChildPart'
<1>1. UNCHANGED <<at, child, result, excel, owned, data, traced, files>>
  BY DEF Deadline, Reclaim, Revoke, vars, machine
<1> QED BY <1>1 DEF WorkerInv, ChildPart, ChildTypes, ChildInv, ResultInv

\* What the child has done is what its step and its result say, and the loop is past a
\* child only when it no longer runs.
LEMMA ChildPartStep ==
  ASSUME ConstantsAreSound, WorkerInv, [Next]_vars
  PROVE  ChildPart'
<1>0. Deadline \/ Reclaim \/ Revoke \/ UNCHANGED vars => ChildPart'
  BY ChildFrame
<1> USE DEF WorkerInv, ChildPart, LoopPart, JobPart, ChildTypes, ChildInv, ResultInv,
           LoopTypes, WorldTypes, SentInv, Steps, Loop, machine, plane
<1>1. CASE Claim
  <2>1. CASE ~valid
    <3>1. /\ UNCHANGED <<refused, tries, workspace, machine, sent, plane, valid, lost>>
          /\ at' = "stopped"
      BY <1>1, <2>1 DEF Claim
    <3>2. ChildTypes'
      BY <1>1, <2>1, <3>1 DEF Claim
    <3>3. ChildInv'
      BY <1>1, <2>1, <3>1 DEF Claim
    <3>4. ResultInv'
      BY <1>1, <2>1, <3>1 DEF Claim
    <3> QED BY <3>2, <3>3, <3>4
  <2>2. CASE valid
    <3>1. ChildTypes'
      BY <1>1, <2>2 DEF Claim
    <3>2. ChildInv'
      BY <1>1, <2>2 DEF Claim
    <3>3. ResultInv'
      BY <1>1, <2>2 DEF Claim
    <3> QED BY <3>1, <3>2, <3>3
  <2> QED BY <2>1, <2>2
<1>2. CASE BusyBeat
  <2>1. ChildTypes'
    BY <1>2 DEF BusyBeat, Answers, Heard
  <2>2. ChildInv'
    BY <1>2 DEF BusyBeat, Answers, Heard
  <2>3. ResultInv'
    BY <1>2 DEF BusyBeat, Answers, Heard
  <2> QED BY <2>1, <2>2, <2>3
<1>3. CASE IdleBeat
  <2>1. ChildTypes'
    BY <1>3 DEF IdleBeat, Answers, Heard
  <2>2. ChildInv'
    BY <1>3 DEF IdleBeat, Answers, Heard
  <2>3. ResultInv'
    BY <1>3 DEF IdleBeat, Answers, Heard
  <2> QED BY <2>1, <2>2, <2>3
<1>4. CASE StartJob
  BY <1>4 DEF StartJob, Answers, Effects, Heard, Fails, Closed
<1>5. CASE Link
  BY <1>5 DEF Link, Answers, Heard, Fails, Closed
<1>6. CASE Download
  BY <1>6 DEF Download, WriteWorkbook, Fails, Closed
<1>7. CASE Spawn
  BY <1>7 DEF Spawn, Fails, Closed
<1>8. CASE Supervise
  <2>0. /\ child' \in {child, "killed"} /\ excel' \in {excel, "none"}
        /\ UNCHANGED <<result, owned, data, traced, files>>
    BY <1>8 DEF Supervise, KillTree
  <2>1. ChildTypes'
    BY <2>0, KillKeepsTypes
  <2>2. ChildInv'
    BY <1>8 DEF Supervise, Answers, Heard, Fails, Closed, KillTree
  <2>3. ResultInv'
    BY <1>8 DEF Supervise, Answers, Heard, Fails, Closed, KillTree
  <2> QED BY <2>1, <2>2, <2>3
<1>9. CASE ReadResult
  BY <1>9 DEF ReadResult, Fails, Closed
<1>10. CASE Upload
  <2>1. ChildTypes'
    BY <1>10 DEF Upload, UploadArtifact, Answers, Effects, Heard, Fails, Closed
  <2>2. ChildInv'
    BY <1>10 DEF Upload, UploadArtifact, Answers, Effects, Heard, Fails, Closed
  <2>3. ResultInv'
    BY <1>10 DEF Upload, UploadArtifact, Answers, Effects, Heard, Fails, Closed
  <2> QED BY <2>1, <2>2, <2>3
<1>11. CASE Complete
  BY <1>11 DEF Complete, Answers, Effects, Heard, Fails, Closed
<1>12. CASE ReportFailure
  BY <1>12 DEF ReportFailure, Answers, Effects, Heard
<1>13. CASE StartExcel
  BY <1>13 DEF StartExcel, Goes, ChildKeeps
<1>14. CASE Connect
  BY <1>14 DEF Connect, Goes, Raises, ChildKeeps
<1>15. CASE MaybeLogon
  BY <1>15 DEF MaybeLogon, Logon, Goes, Raises, ChildKeeps
<1>16. CASE OpenWorkbook
  BY <1>16 DEF OpenWorkbook, Goes, Raises, ChildKeeps
<1>17. CASE Refresh
  BY <1>17 DEF Refresh, Goes, Raises, ChildKeeps
<1>18. CASE ReadTrace
  BY <1>18 DEF ReadTrace, Goes, Raises, ChildKeeps
<1>19. CASE Export
  BY <1>19 DEF Export, SaveFile, Goes, Raises, ChildKeeps
<1>20. CASE Quit
  BY <1>20 DEF Quit, ChildKeeps
<1>21. CASE ChildDies
  BY <1>21 DEF ChildDies, ChildKeeps
<1>22. CASE Restart
  <2>1. ChildTypes'
    BY <1>22 DEF Restart
  <2>2. ChildInv'
    BY <1>22 DEF Restart
  <2>3. ResultInv'
    BY <1>22 DEF Restart
  <2> QED BY <2>1, <2>2, <2>3
<1> QED BY <1>0, <1>1, <1>2, <1>3, <1>4, <1>5, <1>6, <1>7, <1>8, <1>9, <1>10, <1>11, <1>12,
     <1>13, <1>14, <1>15, <1>16, <1>17, <1>18, <1>19, <1>20, <1>21, <1>22
     DEF Next, LoopStep, ChildStep

\* Types of the loop and of the control plane.
LEMMA LoopPartStep ==
  ASSUME ConstantsAreSound, WorkerInv, [Next]_vars
  PROVE  LoopPart'
<1> USE DEF WorkerInv, ChildPart, LoopPart, JobPart, ChildTypes, LoopTypes, WorldTypes,
           Steps, Loop, Leased, machine, plane
<1>1. CASE Claim
  <2>1. CASE ~valid
    <3>1. /\ UNCHANGED <<refused, tries, workspace, machine, sent, plane, valid, lost>>
          /\ at' = "stopped"
      BY <1>1, <2>1 DEF Claim
    <3>2. LoopTypes'
      BY <1>1, <2>1, <3>1 DEF Claim
    <3>3. WorldTypes'
      BY <1>1, <2>1, <3>1 DEF Claim
    <3> QED BY <3>2, <3>3
  <2>2. CASE valid
    <3>1. LoopTypes'
      BY <1>1, <2>2, AttemptsInRange DEF Claim
    <3>2. WorldTypes'
      BY <1>1, <2>2, AttemptsInRange DEF Claim
    <3> QED BY <3>1, <3>2
  <2> QED BY <2>1, <2>2
<1>2. CASE BusyBeat
  BY <1>2 DEF BusyBeat, Answers, Heard
<1>3. CASE IdleBeat
  BY <1>3 DEF IdleBeat, Answers, Heard
<1>4. CASE StartJob
  BY <1>4 DEF StartJob, Answers, Effects, Heard, Fails, Closed
<1>5. CASE Link
  BY <1>5 DEF Link, Answers, Heard, Fails, Closed
<1>6. CASE Download
  BY <1>6 DEF Download, WriteWorkbook, Fails, Closed
<1>7. CASE Spawn
  BY <1>7 DEF Spawn, Fails, Closed
<1>8. CASE Supervise
  BY <1>8 DEF Supervise, Answers, Heard, Fails, Closed, KillTree
<1>9. CASE ReadResult
  BY <1>9 DEF ReadResult, Fails, Closed
<1>10. CASE Upload
  <2>1. LoopTypes'
    BY <1>10 DEF Upload, UploadArtifact, Answers, Effects, Heard, Fails, Closed
  <2>2. WorldTypes'
    BY <1>10 DEF Upload, UploadArtifact, Answers, Effects, Heard, Fails, Closed
  <2> QED BY <2>1, <2>2
<1>11. CASE Complete
  <2>1. tries' \in 0..CompleteAttempts
    BY <1>11, AttemptsInRange DEF Complete, Fails
  <2>2. LoopTypes'
    BY <1>11, <2>1 DEF Complete, Answers, Heard, Fails, Closed
  <2>3. WorldTypes'
    BY <1>11 DEF Complete, Answers, Effects, Heard
  <2> QED BY <2>2, <2>3
<1>12. CASE ReportFailure
  BY <1>12 DEF ReportFailure, Answers, Effects, Heard
<1>13. CASE ChildStep
  BY <1>13, ChildOnly DEF ChildKeeps
<1>14. CASE Deadline
  BY <1>14 DEF Deadline
<1>15. CASE Reclaim
  BY <1>15 DEF Reclaim
<1>16. CASE Revoke
  BY <1>16 DEF Revoke
<1>17. CASE Restart
  BY <1>17 DEF Restart
<1>18. CASE UNCHANGED vars
  <2>1. LoopTypes'
    BY <1>18 DEF vars
  <2>2. WorldTypes'
    BY <1>18 DEF vars
  <2> QED BY <2>1, <2>2
<1> QED BY <1>1, <1>2, <1>3, <1>4, <1>5, <1>6, <1>7, <1>8, <1>9, <1>10, <1>11, <1>12,
     <1>13, <1>14, <1>15, <1>16, <1>17, <1>18
     DEF Next, LoopStep

\* What the loop knows of its job stays true, whatever the control plane does to the
\* execution meanwhile.
LEMMA JobPartStep ==
  ASSUME ConstantsAreSound, WorkerInv, [Next]_vars
  PROVE  JobPart'
<1> USE DEF ConstantsAreSound, WorkerInv, ChildPart, LoopPart, JobPart,
           ChildTypes, LoopTypes, WorldTypes, ChildInv, ResultInv, JobInv, SentInv,
           Steps, Loop, Leased, machine, plane
<1>1. CASE Claim
  <2>1. CASE ~valid
    <3>1. /\ UNCHANGED <<refused, tries, workspace, machine, sent, plane, valid, lost>>
          /\ at' = "stopped"
      BY <1>1, <2>1 DEF Claim
    <3>2. JobInv'
      BY <1>1, <2>1, <3>1 DEF Claim
    <3>3. SentInv'
      BY <1>1, <2>1, <3>1 DEF Claim
    <3> QED BY <3>2, <3>3
  <2>2. CASE valid
    <3>1. JobInv'
      BY <1>1, <2>2 DEF Claim
    <3>2. SentInv'
      BY <1>1, <2>2 DEF Claim
    <3> QED BY <3>1, <3>2
  <2> QED BY <2>1, <2>2
<1>2. CASE BusyBeat
  BY <1>2 DEF BusyBeat, Answers, Heard
<1>3. CASE IdleBeat
  BY <1>3 DEF IdleBeat, Answers, Heard
<1>4. CASE StartJob
  BY <1>4 DEF StartJob, Answers, Effects, Heard, Fails, Closed
<1>5. CASE Link
  BY <1>5 DEF Link, Answers, Heard, Fails, Closed
<1>6. CASE Download
  BY <1>6 DEF Download, WriteWorkbook, Fails, Closed
<1>7. CASE Spawn
  BY <1>7 DEF Spawn, Fails, Closed
<1>8. CASE Supervise
  BY <1>8 DEF Supervise, Answers, Heard, Fails, Closed, KillTree
<1>9. CASE ReadResult
  BY <1>9 DEF ReadResult, Fails, Closed
<1>10. CASE Upload
  <2>1. JobInv'
    <3>1. CASE sent = files
      BY <1>10, <3>1 DEF Upload
    <3>2. CASE sent # files
      <4>1. /\ at' \in {"upload", "report"} /\ UNCHANGED job
            /\ workspace' = IF at' = "report" THEN Closed(TRUE) ELSE workspace
        BY <1>10, <3>2 DEF Upload, UploadArtifact, Fails
      <4> QED BY <4>1 DEF Closed
    <3> QED BY <3>1, <3>2
  <2>2. SentInv'
    BY <1>10 DEF Upload, UploadArtifact, Answers, Effects, Heard, Fails, Closed
  <2> QED BY <2>1, <2>2
<1>11. CASE Complete
  BY <1>11 DEF Complete, Answers, Effects, Heard, Fails, Closed
<1>12. CASE ReportFailure
  BY <1>12 DEF ReportFailure, Answers, Effects, Heard
<1>13. CASE ChildStep
  BY <1>13, ChildOnly DEF ChildKeeps, Steps
<1>14. CASE Deadline
  BY <1>14 DEF Deadline
<1>15. CASE Reclaim
  BY <1>15 DEF Reclaim
<1>16. CASE Revoke
  BY <1>16 DEF Revoke
<1>17. CASE Restart
  BY <1>17 DEF Restart
<1>18. CASE UNCHANGED vars
  BY <1>18 DEF vars
<1> QED BY <1>1, <1>2, <1>3, <1>4, <1>5, <1>6, <1>7, <1>8, <1>9, <1>10, <1>11, <1>12,
     <1>13, <1>14, <1>15, <1>16, <1>17, <1>18
     DEF Next, LoopStep

\* The invariant holds in every reachable state.
THEOREM WorkerInvariant ==
  ASSUME ConstantsAreSound PROVE Spec => []WorkerInv
<1>1. WorkerInv /\ [Next]_vars => WorkerInv'
  BY ChildPartStep, LoopPartStep, JobPartStep DEF WorkerInv
<1>2. Init => WorkerInv
  BY InvInit
<1> QED BY <1>1, <1>2, PTL DEF Spec

-----------------------------------------------------------------------------
\* Every reachable state of the worker, its child process and the execution in hand is
\* well typed.
THEOREM WorkerTypeCorrect ==
  ASSUME ConstantsAreSound PROVE Spec => []TypeOK
<1>1. WorkerInv => TypeOK
  BY DEF WorkerInv, ChildPart, LoopPart, ChildTypes, LoopTypes, WorldTypes, TypeOK
<1> QED BY <1>1, WorkerInvariant, PTL

\* Where signed links can be had, every job ends whole: it is reported unless a call was
\* lost, a success has every artifact and no stale data, no child process goes on and
\* no workspace stays but a kept one (execute_job, ExecutionSupervisor.run).
THEOREM JobsEnd ==
  ASSUME ConstantsAreSound, Direct PROVE Spec => []JobsEndWhole
<1>1. WorkerInv => EveryEndIsReported
  BY DEF WorkerInv, JobPart, JobInv, EveryEndIsReported, Leased
<1>2. WorkerInv => SucceededIsComplete
  BY DEF WorkerInv, JobPart, SentInv, SucceededIsComplete
<1>3. WorkerInv => NoChildLeftRunning
  BY DEF WorkerInv, ChildPart, ChildTypes, ChildInv, NoChildLeftRunning, Steps
<1>4. WorkerInv => WorkspaceGone
  BY DEF WorkerInv, JobPart, JobInv, WorkspaceGone
<1> QED BY <1>1, <1>2, <1>3, <1>4, WorkerTypeCorrect, WorkerInvariant, PTL DEF JobsEndWhole

-----------------------------------------------------------------------------
(* The gateway relay, beside the worker and the other parts.               *)

RelayProofs == INSTANCE GatewayRelayProofs

LEMMA SameRelay ==
  /\ Gateway!Init => RelayProofs!Init
  /\ Gateway!Next => RelayProofs!Next
<1>1. Gateway!Init => RelayProofs!Init
  BY DEF Gateway!Init, Gateway!Idle, RelayProofs!Init, RelayProofs!Idle
<1>2. Gateway!Next => RelayProofs!Next
  BY DEF Gateway!Next, Gateway!Send, Gateway!Receive, Gateway!Timeout,
         Gateway!Expire, Gateway!GatewayStep, Gateway!Poll, Gateway!Take,
         Gateway!PollEnds, Gateway!Forward, Gateway!Post, Gateway!PostFails,
         Gateway!AdminStep, Gateway!RotateKey, Gateway!Setup, Gateway!Link,
         Gateway!Delete, Gateway!KeyAccepted, Gateway!Complete, Gateway!InOrder,
         Gateway!Cardinality, Gateway!SplitAnswer, Gateway!Idle, Gateway!broker,
         Gateway!backend, Gateway!admin, RelayProofs!Next, RelayProofs!Send,
         RelayProofs!Receive, RelayProofs!Timeout, RelayProofs!Expire,
         RelayProofs!GatewayStep, RelayProofs!Poll, RelayProofs!Take,
         RelayProofs!PollEnds, RelayProofs!Forward, RelayProofs!Post,
         RelayProofs!PostFails, RelayProofs!AdminStep, RelayProofs!RotateKey,
         RelayProofs!Setup, RelayProofs!Link, RelayProofs!Delete,
         RelayProofs!KeyAccepted, RelayProofs!Complete, RelayProofs!InOrder,
         RelayProofs!Cardinality, RelayProofs!SplitAnswer, RelayProofs!Idle,
         RelayProofs!broker, RelayProofs!backend, RelayProofs!admin
<1> QED BY <1>1, <1>2

LEMMA ComposedSteps == [MCNext]_MCvars => [RelayProofs!Next]_(RelayProofs!vars)
<1> SUFFICES ASSUME [MCNext]_MCvars, ~UNCHANGED gatewayVars PROVE Gateway!Next
  BY SameRelay DEF RelayProofs!vars, gatewayVars
<1> QED
  BY DEF MCNext, MCvars, OnlyWorker, OnlyFiles, OnlyRates, OnlyPeriodic, OnlyDaily, OnlyHousekeeping

\* TM1 is asked to do a relayed request at most once and never one off the allow-list,
\* and a caller told that TM1 answered has the whole answer of a request TM1 carried
\* out, every part once and in order (pop_request, Gateway.forward, pop_answer, relay),
\* with any number of threads, requests and parts.
THEOREM RequestsAreRelayedOnceAndWhole ==
  ASSUME RelayProofs!ConstantsAreSound
  PROVE  MCSpec => []RelayedOnceAndWhole
<1>1. MCInit => RelayProofs!RelayInv
  BY SameRelay, RelayProofs!InitRelay DEF MCInit
<1>2. RelayProofs!RelayInv /\ [MCNext]_MCvars => RelayProofs!RelayInv'
  BY ComposedSteps, RelayProofs!NextRelay
<1>3. RelayProofs!RelayInv => RelayedOnceAndWhole
  BY DEF RelayProofs!RelayInv, RelayedOnceAndWhole, Gateway!RelayedOnceAndWhole, Gateway!TypeOK, Gateway!CarriedOutOnce,
         Gateway!AnswersAreWhole, Gateway!LinkedGatewayExists,
         Gateway!SplitAnswer, Gateway!Parts, Gateway!Fates,
         RelayProofs!RelayedOnceAndWhole, RelayProofs!TypeOK,
         RelayProofs!CarriedOutOnce, RelayProofs!AnswersAreWhole,
         RelayProofs!LinkedGatewayExists, RelayProofs!SplitAnswer,
         RelayProofs!Parts, RelayProofs!Fates
<1> QED BY <1>1, <1>2, <1>3, PTL DEF MCSpec

-----------------------------------------------------------------------------
(***************************************************************************)
(* The files of reports, beside those.  A row has its bytes because its    *)
(* reference is its own: what is put never takes the place of something,   *)
(* and what is dropped is named by one workbook, whose row goes with it,   *)
(* or whose deletion is known to be between its halves.                    *)
(***************************************************************************)

\* What a request in progress has been promised.
AboutFiles(q) ==
  \/ q = Files!Idle
  \/ q.op \in {"delete", "deleted"} /\ q.what \in Workbooks
  \/ q.op = "upload" /\ q.what \in Executions \X Formats /\ q.sum \in Contents

\* Rows, bytes and requests in progress are well typed.
FilesTypes ==
  /\ bucket \in BOOLEAN /\ used \in 0..MaxRefs
  /\ DOMAIN blobs \subseteq Files!Refs /\ DOMAIN objects \subseteq Files!Refs
  /\ workbook \in [Workbooks -> Files!Files \cup {Absent}]
  /\ artifact \in [Executions \X Formats -> Files!Files \cup {Absent}]
  /\ DOMAIN request = Requests /\ \A q \in Requests : AboutFiles(request[q])
  /\ torn \subseteq Workbooks

\* So are reports and their executions.
ReportTypes ==
  /\ report \in [Reports -> Files!ReportRows \cup {Absent}]
  /\ execution \in [Executions -> Files!ExecutionRows \cup {Absent}]

\* A reference in a row was handed out, by the store there is.
Known(ref) == ref \in Files!Refs /\ ref.id <= used /\ ref.scheme = IF bucket THEN "s3" ELSE "db"

\* Every row's reference was handed out, and a workbook shares its with no row.
RefsInv ==
  /\ \A p \in Executions \X Formats : artifact[p] # Absent => Known(artifact[p].ref)
  /\ \A w \in Workbooks : workbook[w] # Absent =>
       /\ Known(workbook[w].ref)
       /\ \A v \in Workbooks : v # w /\ workbook[v] # Absent => workbook[v].ref # workbook[w].ref
       /\ \A p \in Executions \X Formats : artifact[p] # Absent => artifact[p].ref # workbook[w].ref

\* A deletion of the workbook is between its two halves.
Going(w) == \E q \in Requests : request[q].op = "deleted" /\ request[q].what = w

\* Rows are served; in a database the bytes of a workbook go with the row at the latest.
BytesInv ==
  /\ \A p \in Executions \X Formats : artifact[p] # Absent => Files!Served(artifact[p])
  /\ \A w \in Workbooks :
       workbook[w] # Absent /\ (bucket => w \notin torn /\ ~Going(w)) => Files!Served(workbook[w])

\* The inductive invariant of the files.
FilesInv == FilesTypes /\ ReportTypes /\ RefsInv /\ BytesInv /\ Files!ReportsHaveWorkbooks

\* What every step keeps, and may do.
FilesStep == FilesInv' /\ Files!FirstArtifactStays

\* A file just put is served, under a reference of its own, and the others still are.
LEMMA PutServes ==
  ASSUME FilesTypes, NEW c \in Contents, Files!Put(c), bucket' = bucket,
         NEW ref, ref = Files!NewRef
  PROVE  /\ used' = used + 1 /\ used' \in 0..MaxRefs
         /\ ref \in Files!Refs
         /\ ref.id = used + 1 /\ ref.scheme = IF bucket THEN "s3" ELSE "db"
         /\ DOMAIN blobs' \subseteq Files!Refs /\ DOMAIN objects' \subseteq Files!Refs
         /\ Files!Served([ref |-> ref, sum |-> c])'
         /\ \A file \in Files!Files : Files!Served(file) /\ file.ref # ref => Files!Served(file)'
<1>1. used < MaxRefs /\ used' = used + 1 /\ used \in 0..MaxRefs
  BY DEF Files!Put, FilesTypes
<1>2. used' \in 0..MaxRefs /\ used + 1 \in 1..MaxRefs
  BY <1>1, MaxRefsAssumption
<1>3. /\ ref \in Files!Refs
      /\ ref.id = used + 1 /\ ref.scheme = IF bucket THEN "s3" ELSE "db"
  BY <1>2 DEF Files!NewRef, Files!Refs
<1>4. \/ bucket /\ objects' = Files!Added(objects, ref, c) /\ blobs' = blobs
      \/ ~bucket /\ blobs' = Files!Added(blobs, ref, c) /\ objects' = objects
  BY DEF Files!Put, Files!PutObject, Files!PutBlob
<1>5. ASSUME NEW f
      PROVE  /\ DOMAIN Files!Added(f, ref, c) = DOMAIN f \cup {ref}
             /\ Files!Added(f, ref, c)[ref] = c
             /\ \A r \in DOMAIN f : r # ref => Files!Added(f, ref, c)[r] = f[r]
  BY DEF Files!Added
<1>6. DOMAIN blobs' \subseteq Files!Refs /\ DOMAIN objects' \subseteq Files!Refs
  <2>1. DOMAIN blobs \cup {ref} \subseteq Files!Refs /\ DOMAIN objects \cup {ref} \subseteq Files!Refs
    BY <1>3 DEF FilesTypes
  <2> QED BY <1>4, <1>5, <2>1
<1>7. Files!Served([ref |-> ref, sum |-> c])'
  BY <1>4, <1>5 DEF Files!Served, Files!Held
<1>8. ASSUME NEW file \in Files!Files, Files!Served(file), file.ref # ref
      PROVE  Files!Served(file)'
  <2>1. file.ref \in DOMAIN (IF bucket THEN objects ELSE blobs)
        /\ (IF bucket THEN objects ELSE blobs)[file.ref] = file.sum
    BY <1>8 DEF Files!Served, Files!Held
  <2>2. CASE bucket
    <3>1. file.ref \in DOMAIN objects' /\ objects'[file.ref] = file.sum
      BY <1>4, <1>5, <1>8, <2>1, <2>2
    <3> QED BY <2>2, <3>1 DEF Files!Served, Files!Held
  <2>3. CASE ~bucket
    <3>1. file.ref \in DOMAIN blobs' /\ blobs'[file.ref] = file.sum
      BY <1>4, <1>5, <1>8, <2>1, <2>3
    <3> QED BY <2>3, <3>1 DEF Files!Served, Files!Held
  <2> QED BY <2>2, <2>3
<1> QED BY <1>1, <1>2, <1>3, <1>6, <1>7, <1>8

\* No rows.
LEMMA InitFiles == Files!Init => FilesInv
<1> SUFFICES ASSUME Files!Init PROVE FilesInv
  OBVIOUS
<1>1. FilesTypes /\ ReportTypes
  BY MaxRefsAssumption DEF Files!Init, FilesTypes, ReportTypes, AboutFiles
<1>2. RefsInv /\ BytesInv /\ Files!ReportsHaveWorkbooks
  BY DEF Files!Init, RefsInv, BytesInv, Files!ReportsHaveWorkbooks
<1> QED BY <1>1, <1>2 DEF FilesInv

\* Steps on reports and executions alone.
LEMMA ReportsFiles ==
  ASSUME FilesInv, ReportTypes', Files!ReportsHaveWorkbooks',
         UNCHANGED <<bucket, used, blobs, objects, torn, workbook, artifact>>,
         DOMAIN request' = Requests, \A q \in Requests : AboutFiles(request[q])',
         \A q \in Requests : request[q].op = "deleted" => request'[q] = request[q]
  PROVE  FilesStep
<1>1. FilesTypes'
  BY DEF FilesInv, FilesTypes
<1>2. RefsInv'
  BY DEF FilesInv, RefsInv, Known
<1>3. \A file : Files!Served(file)' <=> Files!Served(file)
  BY DEF Files!Served, Files!Held
<1>4. \A w \in Workbooks : Going(w) => Going(w)'
  BY DEF Going
<1>5. BytesInv'
  BY <1>3, <1>4 DEF FilesInv, BytesInv
<1>6. Files!FirstArtifactStays
  BY DEF Files!FirstArtifactStays
<1> QED BY <1>1, <1>2, <1>5, <1>6 DEF FilesStep, FilesInv

\* Reports are saved over workbooks that exist (ReportService).
LEMMA ReportRequestFiles ==
  ASSUME FilesInv, NEW r \in Reports, Files!ReportRequest(r)
  PROVE  FilesStep
<1>1. UNCHANGED <<bucket, used, blobs, objects, torn, workbook, artifact, request>>
  BY DEF Files!ReportRequest, Files!SaveReport, Files!SetStatus, Files!RunNow, Files!storage
<1>2. ReportTypes' /\ Files!ReportsHaveWorkbooks'
  <2>1. ASSUME NEW w \in Workbooks, Files!SaveReport(r, w) PROVE ReportTypes' /\ Files!ReportsHaveWorkbooks'
    <3>1. PICK st \in {"active", "paused", "archived"} :
            report' = [report EXCEPT ![r] = [workbook |-> w, status |-> st]]
      BY <2>1 DEF Files!SaveReport, FilesInv, ReportTypes, Files!ReportRows
    <3>2. report' \in [Reports -> Files!ReportRows \cup {Absent}] /\ execution' = execution
      BY <2>1, <3>1 DEF FilesInv, ReportTypes, Files!ReportRows, Files!SaveReport
    <3>3. report'[r].workbook = w /\ \A x \in Reports : x # r => report'[x] = report[x]
      BY <3>1 DEF FilesInv, ReportTypes
    <3> QED BY <1>1, <2>1, <3>2, <3>3 DEF FilesInv, ReportTypes, Files!ReportsHaveWorkbooks, Files!SaveReport
  <2>2. ASSUME NEW st \in {"active", "paused", "archived"}, Files!SetStatus(r, st)
        PROVE  ReportTypes' /\ Files!ReportsHaveWorkbooks'
    <3>1. /\ report[r] \in Files!ReportRows /\ execution' = execution
          /\ report' = [report EXCEPT ![r].status = st]
      BY <2>2 DEF Files!SetStatus, FilesInv, ReportTypes
    <3>2. report'[r] \in Files!ReportRows /\ report'[r].workbook = report[r].workbook
          /\ \A x \in Reports : x # r => report'[x] = report[x]
      BY <3>1 DEF FilesInv, ReportTypes, Files!ReportRows
    <3>3. report' \in [Reports -> Files!ReportRows \cup {Absent}]
      BY <3>1, <3>2 DEF FilesInv, ReportTypes
    <3> QED BY <1>1, <2>2, <3>1, <3>2, <3>3 DEF FilesInv, ReportTypes, Files!ReportsHaveWorkbooks, Files!SetStatus
  <2>3. ASSUME NEW e \in Executions, Files!RunNow(e, r) PROVE ReportTypes' /\ Files!ReportsHaveWorkbooks'
    <3>1. report[r] \in Files!ReportRows
      BY <2>3 DEF Files!RunNow, FilesInv, ReportTypes
    <3>2. [workbook |-> report[r].workbook, status |-> "queued"] \in Files!ExecutionRows
      BY <3>1 DEF Files!ReportRows, Files!ExecutionRows
    <3> QED BY <1>1, <2>3, <3>2 DEF Files!RunNow, FilesInv, ReportTypes, Files!ReportsHaveWorkbooks
  <2> QED BY <2>1, <2>2, <2>3 DEF Files!ReportRequest
<1> QED BY <1>1, <1>2, ReportsFiles DEF FilesInv, FilesTypes, AboutFiles

\* Executions go on.
LEMMA AdvanceFiles ==
  ASSUME FilesInv, NEW e \in Executions, Files!Advance(e)
  PROVE  FilesStep
<1>1. UNCHANGED <<bucket, used, blobs, objects, torn, workbook, artifact, request, report>>
  BY DEF Files!Advance, Files!storage
<1>2. execution[e] \in Files!ExecutionRows
  BY DEF Files!Advance, FilesInv, ReportTypes
<1>3. PICK st \in {"leased", "over"} : execution' = [execution EXCEPT ![e].status = st]
  BY DEF Files!Advance
<1>4. execution'[e] \in Files!ExecutionRows
  BY <1>2, <1>3 DEF FilesInv, ReportTypes, Files!ExecutionRows
<1>5. execution' \in [Executions -> Files!ExecutionRows \cup {Absent}]
  BY <1>3, <1>4 DEF FilesInv, ReportTypes
<1> QED BY <1>1, <1>5, ReportsFiles DEF FilesInv, ReportTypes, FilesTypes, AboutFiles, Files!ReportsHaveWorkbooks

\* A request that looks before it acts.
LEMMA BeginFiles ==
  ASSUME FilesInv, NEW q \in Requests,
         \/ \E w \in Workbooks : Files!BeginDelete(q, w)
         \/ \E e \in Executions, f \in Formats, c \in Contents : Files!BeginUpload(q, e, f, c)
  PROVE  FilesStep
<1>1. /\ UNCHANGED <<bucket, used, blobs, objects, torn, workbook, artifact, report, execution>>
      /\ request[q] = Files!Idle
  BY DEF Files!BeginDelete, Files!BeginUpload, Files!storage
<1>2. PICK new : AboutFiles(new) /\ request' = [request EXCEPT ![q] = new]
  <2>1. CASE \E w \in Workbooks : Files!BeginDelete(q, w)
    BY <2>1 DEF Files!BeginDelete, AboutFiles
  <2>2. CASE \E e \in Executions, f \in Formats, c \in Contents : Files!BeginUpload(q, e, f, c)
    <3>1. PICK e \in Executions, f \in Formats, c \in Contents :
            request' = [request EXCEPT ![q] = [op |-> "upload", what |-> <<e, f>>, sum |-> c]]
      BY <2>2 DEF Files!BeginUpload
    <3>2. AboutFiles([op |-> "upload", what |-> <<e, f>>, sum |-> c])
      BY DEF AboutFiles
    <3> QED BY <3>1, <3>2
  <2> QED BY <2>1, <2>2
<1>3. DOMAIN request' = Requests /\ request'[q] = new /\ \A x \in Requests : x # q => request'[x] = request[x]
  BY <1>2 DEF FilesInv, FilesTypes
<1>4. \A x \in Requests : AboutFiles(request[x])'
  BY <1>2, <1>3 DEF FilesInv, FilesTypes, AboutFiles
<1>5. \A x \in Requests : request[x].op = "deleted" => request'[x] = request[x]
  BY <1>1, <1>3 DEF Files!Idle
<1>6. ReportTypes' /\ Files!ReportsHaveWorkbooks'
  BY <1>1 DEF FilesInv, ReportTypes, Files!ReportsHaveWorkbooks
<1> QED BY <1>1, <1>3, <1>4, <1>5, <1>6, ReportsFiles

\* A workbook is stored under a reference nobody has.
LEMMA UploadWorkbookFiles ==
  ASSUME FilesInv, NEW w \in Workbooks, NEW c \in Contents, Files!UploadWorkbook(w, c)
  PROVE  FilesStep
<1>1. PICK ref : ref = Files!NewRef
  OBVIOUS
<1> DEFINE file == [ref |-> ref, sum |-> c]
<1>2. /\ workbook[w] = Absent /\ Files!Put(c) /\ workbook' = [workbook EXCEPT ![w] = file]
      /\ UNCHANGED <<bucket, report, execution, artifact, request, torn>>
  BY <1>1 DEF Files!UploadWorkbook
<1>3. /\ used' = used + 1 /\ used' \in 0..MaxRefs /\ ref \in Files!Refs
      /\ ref.id = used + 1 /\ ref.scheme = IF bucket THEN "s3" ELSE "db"
      /\ DOMAIN blobs' \subseteq Files!Refs /\ DOMAIN objects' \subseteq Files!Refs
      /\ Files!Served(file)'
      /\ \A g \in Files!Files : Files!Served(g) /\ g.ref # ref => Files!Served(g)'
  BY <1>1, <1>2, PutServes DEF FilesInv
<1>4. file \in Files!Files /\ file.ref = ref
  BY <1>3 DEF Files!Files
<1> HIDE DEF file
<1>5. /\ workbook'[w] = file /\ \A v \in Workbooks : v # w => workbook'[v] = workbook[v]
      /\ workbook' \in [Workbooks -> Files!Files \cup {Absent}]
  BY <1>2, <1>4 DEF FilesInv, FilesTypes
<1>6. FilesTypes' /\ ReportTypes'
  BY <1>2, <1>3, <1>5 DEF FilesInv, FilesTypes, ReportTypes, AboutFiles
<1>7. \A g : Known(g) => Known(g)' /\ g # ref
  <2> SUFFICES ASSUME NEW g, Known(g) PROVE Known(g)' /\ g # ref
    OBVIOUS
  <2>1. g.id \in 1..MaxRefs /\ used \in 0..MaxRefs
    BY DEF Known, Files!Refs, FilesInv, FilesTypes
  <2>2. g.id <= used + 1 /\ g.id # used + 1
    BY <2>1, MaxRefsAssumption DEF Known
  <2> QED BY <1>2, <1>3, <2>2 DEF Known
<1>8. Known(ref)'
  BY <1>2, <1>3, MaxRefsAssumption DEF Known, FilesInv, FilesTypes
<1>9. RefsInv'
  BY <1>2, <1>4, <1>5, <1>7, <1>8 DEF FilesInv, RefsInv
<1>10. BytesInv'
  <2>1. ASSUME NEW p \in Executions \X Formats, artifact[p] # Absent
        PROVE  Files!Served(artifact[p])'
    <3>1. artifact[p] \in Files!Files /\ Files!Served(artifact[p]) /\ artifact[p].ref # ref
      BY <1>7, <2>1 DEF FilesInv, FilesTypes, RefsInv, BytesInv
    <3>2. \A g \in Files!Files : Files!Served(g) /\ g.ref # ref => Files!Served(g)'
      BY <1>3
    <3>3. PICK g \in Files!Files : g = artifact[p]
      BY <3>1
    <3>4. Files!Served(g)' /\ artifact' = artifact
      BY <1>2, <3>1, <3>2, <3>3
    <3> QED BY <3>3, <3>4 DEF Files!Served, Files!Held
  <2>2. \A v \in Workbooks : Going(v) <=> Going(v)'
    BY <1>2 DEF Going
  <2>3. ASSUME NEW v \in Workbooks, v # w, workbook[v] # Absent, Files!Served(workbook[v])
        PROVE  Files!Served(workbook[v])'
    BY <1>2, <1>3, <1>5, <1>7, <2>3 DEF FilesInv, FilesTypes, RefsInv
  <2>4. Files!Served(workbook[w])'
    BY <1>3, <1>5 DEF Files!Served, Files!Held
  <2> QED BY <1>2, <1>5, <2>1, <2>2, <2>3, <2>4 DEF FilesInv, BytesInv, Files!Served, Files!Held
<1>11. Files!ReportsHaveWorkbooks'
  BY <1>2, <1>5 DEF FilesInv, ReportTypes, Files!ReportRows, Files!ReportsHaveWorkbooks
<1>12. Files!FirstArtifactStays
  BY <1>2 DEF Files!FirstArtifactStays
<1> QED BY <1>6, <1>9, <1>10, <1>11, <1>12 DEF FilesStep, FilesInv

\* So is an artifact, unless another was faster.
LEMMA CommitUploadFiles ==
  ASSUME FilesInv, NEW q \in Requests, Files!CommitUpload(q)
  PROVE  FilesStep
<1>0. PICK p, c : p = request[q].what /\ c = request[q].sum
  OBVIOUS
<1>1. p \in Executions \X Formats /\ c \in Contents
  BY <1>0 DEF Files!CommitUpload, FilesInv, FilesTypes, AboutFiles, Files!Idle
<1>2. /\ UNCHANGED <<bucket, workbook, report, execution, torn>>
      /\ request' = [request EXCEPT ![q] = Files!Idle]
      /\ request[q].op = "upload"
  BY DEF Files!CommitUpload
<1>3. /\ DOMAIN request' = Requests /\ request'[q] = Files!Idle
      /\ \A x \in Requests : x # q => request'[x] = request[x]
  BY <1>2 DEF FilesInv, FilesTypes
<1>4. \A x \in Requests : AboutFiles(request[x])'
  BY <1>3 DEF FilesInv, FilesTypes, AboutFiles
<1>5. \A v \in Workbooks : Going(v) => Going(v)'
  BY <1>2, <1>3 DEF Going
<1>6. ReportTypes' /\ Files!ReportsHaveWorkbooks'
  BY <1>2 DEF FilesInv, ReportTypes, Files!ReportsHaveWorkbooks
<1>7. CASE UNCHANGED <<used, blobs, objects, artifact>>
  BY <1>2, <1>3, <1>4, <1>6, <1>7, ReportsFiles DEF FilesInv, Files!Idle
<1>8. CASE Files!Put(c)
  <2>1. PICK ref : ref = Files!NewRef
    OBVIOUS
  <2> DEFINE file == [ref |-> ref, sum |-> c]
  <2>2. /\ used' = used + 1 /\ used' \in 0..MaxRefs /\ ref \in Files!Refs
        /\ ref.id = used + 1 /\ ref.scheme = IF bucket THEN "s3" ELSE "db"
        /\ DOMAIN blobs' \subseteq Files!Refs /\ DOMAIN objects' \subseteq Files!Refs
        /\ Files!Served(file)'
        /\ \A g \in Files!Files : Files!Served(g) /\ g.ref # ref => Files!Served(g)'
    BY <1>1, <1>2, <1>8, <2>1, PutServes DEF FilesInv
  <2>3. file \in Files!Files /\ file.ref = ref
    BY <1>1, <2>2 DEF Files!Files
  <2>4. artifact' = artifact \/ (artifact[p] = Absent /\ artifact' = [artifact EXCEPT ![p] = file])
    BY <1>0, <2>1 DEF Files!CommitUpload
  <2> HIDE DEF file
  <2>5. /\ artifact' \in [Executions \X Formats -> Files!Files \cup {Absent}]
        /\ \A x \in Executions \X Formats :
             artifact'[x] = artifact[x] \/ (artifact[x] = Absent /\ artifact'[x] = file)
    BY <1>1, <2>3, <2>4 DEF FilesInv, FilesTypes
  <2>6. FilesTypes'
    BY <1>2, <1>3, <1>4, <2>2, <2>5 DEF FilesInv, FilesTypes
  <2>7. ASSUME NEW g, Known(g) PROVE Known(g)' /\ g # ref
    <3>1. g.id \in 1..MaxRefs /\ used \in 0..MaxRefs
      BY <2>7 DEF Known, Files!Refs, FilesInv, FilesTypes
    <3>2. g.id <= used + 1 /\ g.id # used + 1
      BY <2>7, <3>1, MaxRefsAssumption DEF Known
    <3> QED BY <1>2, <2>2, <2>7, <3>2 DEF Known
  <2>8. Known(ref)'
    BY <1>2, <2>2, MaxRefsAssumption DEF Known, FilesInv, FilesTypes
  <2>9. RefsInv'
    <3>1. ASSUME NEW x \in Executions \X Formats, artifact'[x] # Absent
          PROVE  Known(artifact[x].ref)' /\ (artifact'[x].ref = ref \/ (artifact[x] # Absent /\ artifact'[x].ref = artifact[x].ref))
      BY <2>3, <2>5, <2>7, <2>8, <3>1 DEF FilesInv, RefsInv
    <3>2. ASSUME NEW w \in Workbooks, workbook'[w] # Absent
          PROVE  /\ Known(workbook[w].ref)'
                 /\ \A x \in Executions \X Formats : artifact'[x] # Absent => artifact'[x].ref # workbook'[w].ref
                 /\ \A v \in Workbooks : v # w /\ workbook'[v] # Absent => workbook'[v].ref # workbook'[w].ref
      BY <1>2, <2>7, <3>1, <3>2 DEF FilesInv, RefsInv
    <3> QED BY <3>1, <3>2 DEF RefsInv
  <2>10. ASSUME NEW g \in Files!Files, Known(g.ref), Files!Served(g) PROVE Files!Served(g)'
    BY <2>2, <2>7, <2>10
  <2>11. BytesInv'
    <3>1. ASSUME NEW x \in Executions \X Formats, artifact'[x] # Absent PROVE Files!Served(artifact[x])'
      <4>1. CASE artifact'[x] = file
        BY <2>2, <4>1 DEF Files!Served, Files!Held
      <4>2. CASE artifact'[x] = artifact[x] /\ artifact[x] # Absent
        <5>1. artifact[x] \in Files!Files /\ Known(artifact[x].ref) /\ Files!Served(artifact[x])
          BY <4>2 DEF FilesInv, FilesTypes, RefsInv, BytesInv
        <5>2. PICK g \in Files!Files : g = artifact[x]
          BY <5>1
        <5>3. Files!Served(g)'
          BY <2>10, <5>1, <5>2
        <5> QED BY <4>2, <5>2, <5>3 DEF Files!Served, Files!Held
      <4> QED BY <2>5, <3>1, <4>1, <4>2
    <3>2. ASSUME NEW w \in Workbooks, workbook'[w] # Absent, bucket' => w \notin torn' /\ ~Going(w)'
          PROVE  Files!Served(workbook[w])'
      <4>1. workbook[w] \in Files!Files /\ Known(workbook[w].ref) /\ Files!Served(workbook[w])
        BY <1>2, <1>5, <3>2 DEF FilesInv, FilesTypes, RefsInv, BytesInv
      <4>2. PICK g \in Files!Files : g = workbook[w]
        BY <4>1
      <4>3. Files!Served(g)'
        BY <2>10, <4>1, <4>2
      <4> QED BY <1>2, <4>2, <4>3 DEF Files!Served, Files!Held
    <3> QED BY <3>1, <3>2 DEF BytesInv
  <2>12. Files!FirstArtifactStays
    BY <2>5 DEF Files!FirstArtifactStays, FilesInv, FilesTypes
  <2> QED BY <1>6, <2>6, <2>9, <2>11, <2>12 DEF FilesStep, FilesInv
<1> QED BY <1>0, <1>7, <1>8 DEF Files!CommitUpload

\* The bytes of a workbook go before its row.
LEMMA DeleteBytesFiles ==
  ASSUME FilesInv, NEW q \in Requests, Files!DeleteBytes(q)
  PROVE  FilesStep
<1>0. PICK w : w = request[q].what
  OBVIOUS
<1>1. /\ w \in Workbooks /\ request[q].op = "delete"
      /\ UNCHANGED <<bucket, used, blobs, workbook, report, execution, artifact, torn>>
      /\ request' = [request EXCEPT ![q].op = "deleted"]
      /\ \/ objects' = objects
         \/ bucket /\ workbook[w] # Absent /\ objects' = Files!Drop(objects, workbook[w].ref)
  BY <1>0 DEF Files!DeleteBytes, FilesInv, FilesTypes, AboutFiles, Files!Idle
<1>2. /\ DOMAIN request' = Requests /\ request'[q].op = "deleted" /\ request'[q].what = w
      /\ \A x \in Requests : x # q => request'[x] = request[x]
  BY <1>0, <1>1 DEF FilesInv, FilesTypes, AboutFiles, Files!Idle
<1>3. \A x \in Requests : AboutFiles(request[x])'
  BY <1>1, <1>2 DEF FilesInv, FilesTypes, AboutFiles
<1>4. Going(w)' /\ \A v \in Workbooks : Going(v) => Going(v)'
  BY <1>1, <1>2 DEF Going
<1>5. DOMAIN objects' \subseteq DOMAIN objects
  BY <1>1 DEF Files!Drop
<1>6. FilesTypes' /\ ReportTypes'
  BY <1>1, <1>2, <1>3, <1>5 DEF FilesInv, FilesTypes, ReportTypes
<1>7. RefsInv'
  BY <1>1 DEF FilesInv, RefsInv, Known
<1>8. ASSUME NEW f, Files!Served(f), workbook[w] # Absent => f.ref # workbook[w].ref \/ ~bucket
      PROVE  Files!Served(f)'
  BY <1>1, <1>8 DEF Files!Served, Files!Held, Files!Drop
<1>9. BytesInv'
  <2>1. ASSUME NEW p \in Executions \X Formats, artifact'[p] # Absent PROVE Files!Served(artifact[p])'
    <3>1. PICK f : f = artifact[p]
      OBVIOUS
    <3>2. Files!Served(f) /\ (workbook[w] # Absent => f.ref # workbook[w].ref)
      BY <1>1, <2>1, <3>1 DEF FilesInv, BytesInv, RefsInv
    <3>3. Files!Served(f)'
      BY <1>8, <3>2
    <3> QED BY <1>1, <3>1, <3>3 DEF Files!Served, Files!Held
  <2>2. ASSUME NEW v \in Workbooks, workbook'[v] # Absent, bucket' => v \notin torn' /\ ~Going(v)'
        PROVE  Files!Served(workbook[v])'
    <3>1. PICK f : f = workbook[v]
      OBVIOUS
    <3>2. Files!Served(f) /\ (bucket => v # w)
      BY <1>1, <1>4, <2>2, <3>1 DEF FilesInv, BytesInv
    <3>3. workbook[w] # Absent => f.ref # workbook[w].ref \/ ~bucket
      BY <1>1, <2>2, <3>1, <3>2 DEF FilesInv, RefsInv
    <3>4. Files!Served(f)'
      BY <1>8, <3>2, <3>3
    <3> QED BY <1>1, <3>1, <3>4 DEF Files!Served, Files!Held
  <2> QED BY <2>1, <2>2 DEF BytesInv
<1>10. Files!ReportsHaveWorkbooks' /\ Files!FirstArtifactStays
  BY <1>1 DEF FilesInv, Files!ReportsHaveWorkbooks, Files!FirstArtifactStays
<1> QED BY <1>6, <1>7, <1>9, <1>10 DEF FilesStep, FilesInv

\* Then its row, unless a report uses it by now.
LEMMA CommitDeleteFiles ==
  ASSUME FilesInv, NEW q \in Requests, Files!CommitDelete(q)
  PROVE  FilesStep
<1>0. PICK w : w = request[q].what
  OBVIOUS
<1>1. /\ w \in Workbooks /\ request[q].op = "deleted"
      /\ UNCHANGED <<bucket, used, objects, report, artifact>>
      /\ request' = [request EXCEPT ![q] = Files!Idle]
      /\ torn' = IF Files!Users(w) # {} /\ bucket THEN torn \cup {w} ELSE torn
  BY <1>0 DEF Files!CommitDelete, FilesInv, FilesTypes, AboutFiles, Files!Idle
<1>2. /\ DOMAIN request' = Requests /\ request'[q] = Files!Idle
      /\ \A x \in Requests : x # q => request'[x] = request[x]
  BY <1>1 DEF FilesInv, FilesTypes
<1>3. \A x \in Requests : AboutFiles(request[x])'
  BY <1>2 DEF FilesInv, FilesTypes, AboutFiles
<1>4. \A v \in Workbooks : v # w /\ Going(v) => Going(v)'
  BY <1>0, <1>2 DEF Going
<1>5. torn' \subseteq Workbooks /\ torn \subseteq torn'
  BY <1>1 DEF FilesInv, FilesTypes
<1>6. CASE (Files!Users(w) # {} \/ workbook[w] = Absent) /\ UNCHANGED <<blobs, workbook, execution>>
  <2>1. FilesTypes' /\ ReportTypes' /\ RefsInv'
    BY <1>1, <1>2, <1>3, <1>5, <1>6 DEF FilesInv, FilesTypes, ReportTypes, RefsInv, Known
  <2>2. \A f : Files!Served(f) <=> Files!Served(f)'
    BY <1>1, <1>6 DEF Files!Served, Files!Held
  <2>3. workbook[w] # Absent /\ bucket => w \in torn'
    BY <1>1, <1>6
  <2>4. BytesInv'
    BY <1>1, <1>4, <1>5, <1>6, <2>2, <2>3 DEF FilesInv, BytesInv
  <2>5. Files!ReportsHaveWorkbooks' /\ Files!FirstArtifactStays
    BY <1>1, <1>6 DEF FilesInv, Files!ReportsHaveWorkbooks, Files!FirstArtifactStays
  <2> QED BY <2>1, <2>4, <2>5 DEF FilesStep, FilesInv
<1>7. CASE /\ Files!Users(w) = {} /\ workbook[w] # Absent
           /\ blobs' = IF bucket THEN blobs ELSE Files!Drop(blobs, workbook[w].ref)
           /\ workbook' = [workbook EXCEPT ![w] = Absent]
           /\ execution' = [e \in Executions |->
                IF execution[e] # Absent /\ execution[e].workbook = w
                THEN [execution[e] EXCEPT !.workbook = Absent] ELSE execution[e]]
  <2>1. /\ workbook'[w] = Absent /\ \A v \in Workbooks : v # w => workbook'[v] = workbook[v]
        /\ workbook' \in [Workbooks -> Files!Files \cup {Absent}]
    BY <1>1, <1>7 DEF FilesInv, FilesTypes
  <2>2. ReportTypes'
    <3>1. ASSUME NEW e \in Executions PROVE execution'[e] \in Files!ExecutionRows \cup {Absent}
      <4>1. CASE execution[e] # Absent /\ execution[e].workbook = w
        <5>1. execution[e] \in Files!ExecutionRows
          BY <4>1 DEF FilesInv, ReportTypes
        <5>2. [execution[e] EXCEPT !.workbook = Absent] \in Files!ExecutionRows
          BY <5>1 DEF Files!ExecutionRows
        <5> QED BY <1>7, <4>1, <5>2
      <4>2. CASE ~(execution[e] # Absent /\ execution[e].workbook = w)
        BY <1>7, <4>2 DEF FilesInv, ReportTypes
      <4> QED BY <4>1, <4>2
    <3> QED BY <1>1, <1>7, <3>1 DEF FilesInv, ReportTypes
  <2>3. DOMAIN blobs' \subseteq DOMAIN blobs
    BY <1>7 DEF Files!Drop
  <2>4. FilesTypes'
    BY <1>1, <1>2, <1>3, <1>5, <2>1, <2>3 DEF FilesInv, FilesTypes
  <2>5. RefsInv'
    BY <1>1, <2>1 DEF FilesInv, RefsInv, Known
  <2>6. ASSUME NEW f, Files!Served(f), f.ref # workbook[w].ref PROVE Files!Served(f)'
    BY <1>1, <1>7, <2>6 DEF Files!Served, Files!Held, Files!Drop
  <2>7. BytesInv'
    <3>1. ASSUME NEW p \in Executions \X Formats, artifact'[p] # Absent PROVE Files!Served(artifact[p])'
      <4>1. PICK f : f = artifact[p]
        OBVIOUS
      <4>2. Files!Served(f) /\ f.ref # workbook[w].ref
        BY <1>1, <1>7, <3>1, <4>1 DEF FilesInv, BytesInv, RefsInv
      <4>3. Files!Served(f)'
        BY <2>6, <4>2
      <4> QED BY <1>1, <4>1, <4>3 DEF Files!Served, Files!Held
    <3>2. ASSUME NEW v \in Workbooks, workbook'[v] # Absent, bucket' => v \notin torn' /\ ~Going(v)'
          PROVE  Files!Served(workbook[v])'
      <4>1. PICK f : f = workbook[v]
        OBVIOUS
      <4>2. v # w /\ workbook'[v] = workbook[v] /\ workbook[v] # Absent
        BY <2>1, <3>2
      <4>3. Files!Served(f) /\ f.ref # workbook[w].ref
        BY <1>1, <1>4, <1>5, <1>7, <3>2, <4>1, <4>2 DEF FilesInv, BytesInv, RefsInv
      <4>4. Files!Served(f)'
        BY <2>6, <4>3
      <4> QED BY <4>1, <4>2, <4>4 DEF Files!Served, Files!Held
    <3> QED BY <3>1, <3>2 DEF BytesInv
  <2>8. Files!ReportsHaveWorkbooks' /\ Files!FirstArtifactStays
    BY <1>1, <1>7, <2>1 DEF FilesInv, ReportTypes, Files!ReportRows, Files!Users, Files!ReportsHaveWorkbooks,
       Files!FirstArtifactStays
  <2> QED BY <2>2, <2>4, <2>5, <2>7, <2>8 DEF FilesStep, FilesInv
<1> QED BY <1>0, <1>6, <1>7 DEF Files!CommitDelete

\* The inductive step of the files.
LEMMA NextFiles == FilesInv /\ [Files!Next]_filesVars => FilesInv' /\ [Files!FirstArtifactStays]_filesVars
<1> SUFFICES ASSUME FilesInv, [Files!Next]_filesVars
             PROVE  FilesInv' /\ [Files!FirstArtifactStays]_filesVars
  OBVIOUS
<1>1. CASE UNCHANGED filesVars
  <2>1. FilesTypes' /\ ReportTypes' /\ Files!ReportsHaveWorkbooks'
    BY <1>1 DEF filesVars, FilesInv, FilesTypes, AboutFiles, ReportTypes, Files!ReportsHaveWorkbooks
  <2>2. FilesStep
    BY <1>1, <2>1, ReportsFiles DEF filesVars, FilesInv, FilesTypes
  <2> QED BY <2>2 DEF FilesStep
<1>2. CASE Files!Next
  <2>1. ASSUME Files!WorkbookRequest PROVE FilesStep
    BY <2>1, UploadWorkbookFiles, BeginFiles, DeleteBytesFiles, CommitDeleteFiles DEF Files!WorkbookRequest
  <2>2. ASSUME NEW q \in Requests, Files!ArtifactRequest(q) PROVE FilesStep
    BY <2>2, BeginFiles, CommitUploadFiles DEF Files!ArtifactRequest
  <2>3. ASSUME (\E r \in Reports : Files!ReportRequest(r)) \/ (\E e \in Executions : Files!Advance(e))
        PROVE  FilesStep
    BY <2>3, ReportRequestFiles, AdvanceFiles
  <2> QED BY <1>2, <2>1, <2>2, <2>3 DEF Files!Next, FilesStep
<1> QED BY <1>1, <1>2

\* The other parts of the composition leave the files alone.
LEMMA FilesCompose == [MCNext]_MCvars => [Files!Next]_filesVars
BY DEF MCNext, MCvars, OnlyGateway, OnlyWorker, OnlyRates, OnlyPeriodic, OnlyDaily, OnlyHousekeeping

\* Every workbook and artifact row has its bytes, unaltered, and a report's workbook
\* exists, whatever S3 refuses and requests overlap (storage, WorkbookService.delete).
THEOREM FilesAreThere == MCSpec => []RowsHaveBytes
<1>1. MCInit => FilesInv
  BY InitFiles DEF MCInit
<1>2. FilesInv /\ [MCNext]_MCvars => FilesInv'
  BY FilesCompose, NextFiles
<1>3. FilesInv => RowsHaveBytes
  <2> SUFFICES ASSUME FilesInv PROVE RowsHaveBytes
    OBVIOUS
  <2>1. Files!TypeOK
    BY DEF FilesInv, FilesTypes, ReportTypes, AboutFiles, Files!Idle, Files!TypeOK
  <2>2. Files!RowsHaveBytes
    BY DEF FilesInv, FilesTypes, BytesInv, Going, Files!RowsHaveBytes
  <2> QED BY <2>1, <2>2 DEF FilesInv, RowsHaveBytes
<1> QED BY <1>1, <1>2, <1>3, PTL DEF MCSpec

\* Overlapping uploads for one execution and format leave the first one's artifact
\* (record_upload), and parts of an answer arrive only while the gateway program holds
\* the current key (authenticate).
THEOREM FirstDeliveryStays ==
  ASSUME RelayProofs!ConstantsAreSound
  PROVE  MCSpec => DeliveredForGood
<1>1. MCInit => FilesInv /\ RelayProofs!RelayInv
  BY InitFiles, SameRelay, RelayProofs!InitRelay DEF MCInit
<1>2. FilesInv /\ RelayProofs!RelayInv /\ [MCNext]_MCvars => FilesInv' /\ RelayProofs!RelayInv'
  BY FilesCompose, NextFiles, ComposedSteps, RelayProofs!NextRelay
<1>3. FilesInv /\ RelayProofs!RelayInv /\ [MCNext]_MCvars =>
        Files!FirstArtifactStays /\ Gateway!OldKeyDeliversNothing
  <2> SUFFICES ASSUME FilesInv, RelayProofs!RelayInv, [MCNext]_MCvars
               PROVE  Files!FirstArtifactStays /\ Gateway!OldKeyDeliversNothing
    OBVIOUS
  <2>1. [Files!FirstArtifactStays]_filesVars
    BY FilesCompose, NextFiles
  <2>2. Files!FirstArtifactStays
    BY <2>1 DEF filesVars, Files!FirstArtifactStays
  <2>3. RelayProofs!OldKeyDeliversNothing
    BY ComposedSteps, RelayProofs!OldKeyStep
  <2> QED BY <2>2, <2>3 DEF Gateway!OldKeyDeliversNothing, RelayProofs!OldKeyDeliversNothing
<1> QED BY <1>1, <1>2, <1>3, PTL DEF MCSpec, DeliveredForGood

-----------------------------------------------------------------------------
(***************************************************************************)
(* Housekeeping: rate limits, the scheduler's lock, the daily passes.      *)
(*                                                                         *)
(* Every request let through is on record in some store, as old as it is,  *)
(* and no store has more on record than the limit; both are kept for the   *)
(* hits younger than any number of ticks, so that time may pass over them. *)
(* Windows and stores are summed as sets of units.                         *)
(***************************************************************************)
\* Induction over the subsets of a finite set.
LEMMA FiniteSetInduction ==
  ASSUME NEW S, IsFiniteSet(S), NEW T \in SUBSET SUBSET S, {} \in T,
         \A U \in T, x \in S : U \cup {x} \in T
  PROVE  S \in T
<1> SUFFICES ASSUME S \notin T PROVE FALSE
  OBVIOUS
<1> DEFINE R == StrictSubsetOrdering(S)  F == FiniteSubsetsOf(S)  B == {U \in F : U \notin T}
<1>1. IsWellFoundedOn(R, F)
  BY FS_StrictSubsetOrderingWellFounded
<1>2. B \subseteq F /\ B # {}
  BY DEF FiniteSubsetsOf
<1>3. \A U \in B : U \in SUBSET S /\ IsFiniteSet(U) /\ U \notin T
  BY DEF FiniteSubsetsOf
<1>4. \A U \in F, V \in F : V \subseteq U /\ V # U => <<V, U>> \in R
  BY DEF FiniteSubsetsOf, StrictSubsetOrdering
<1>7. \A U \in SUBSET S : IsFiniteSet(U) => U \in F
  BY DEF FiniteSubsetsOf
<1> HIDE DEF R, F
<1>5. PICK U \in B : \A V \in B : ~(<<V, U>> \in R)
  <2> HIDE DEF B
  <2> QED BY <1>1, <1>2, WFMin
<1>6. PICK x \in U : TRUE
  BY <1>3, <1>5
<1>8. U \ {x} \in F
  BY <1>3, <1>5, <1>7, FS_RemoveElement
<1>9. U \ {x} \in T
  BY <1>2, <1>4, <1>5, <1>6, <1>8, Zenon
<1>10. U = (U \ {x}) \cup {x}
  BY <1>6
<1> QED
  BY <1>3, <1>5, <1>6, <1>9, <1>10

\* Induction over numbers, as a fact about the set of numbers a claim is true of.
LEMMA NatSetInduction ==
  ASSUME NEW T \in SUBSET Nat, 0 \in T, \A n \in T : n + 1 \in T
  PROVE  Nat \subseteq T
<1> SUFFICES ASSUME NEW n \in Nat PROVE n \in T
  OBVIOUS
<1> DEFINE S == 1 .. n  C == {U \in SUBSET S : Cardinality(U) \in T}
<1>1. IsFiniteSet(S) /\ Cardinality(S) = n
  BY FS_Interval
<1>2. {} \in C
  BY FS_EmptySet
<1>3. ASSUME NEW U \in C, NEW x \in S PROVE U \cup {x} \in C
  <2>1. IsFiniteSet(U)
    BY <1>1, FS_Subset, Zenon
  <2>2. Cardinality(U \cup {x}) \in {Cardinality(U), Cardinality(U) + 1}
    BY <2>1, FS_AddElement
  <2> QED
    BY <2>2, Zenon
<1>4. S \in C
  <2>1. C \in SUBSET SUBSET S
    OBVIOUS
  <2> HIDE DEF S, C
  <2> QED
    BY <1>1, <1>2, <1>3, <2>1, FiniteSetInduction, Zenon
<1> QED
  BY <1>1, <1>4

\* A set of numbers has a least one.
LEMMA MinExists ==
  ASSUME NEW S \in SUBSET Nat, S # {}
  PROVE  \E x \in S : \A y \in S : x <= y
<1> SUFFICES ASSUME \A x \in S : \E y \in S : y < x PROVE FALSE
  OBVIOUS
<1> DEFINE T == {n \in Nat : \A m \in 0 .. n : m \notin S}
<1>1. 0 \in T
  OBVIOUS
<1>2. ASSUME NEW n \in T PROVE n + 1 \in T
  <2>1. n \in Nat /\ \A m \in 0 .. n : m \notin S
    OBVIOUS
  <2>2. n + 1 \notin S
    <3>1. SUFFICES ASSUME n + 1 \in S PROVE FALSE
      OBVIOUS
    <3>2. PICK y \in S : y < n + 1
      BY <3>1
    <3>3. y \in 0 .. n
      BY <2>1, <3>2
    <3> QED BY <2>1, <3>3
  <2> QED BY <2>1, <2>2
<1>3. Nat \subseteq T
  <2> HIDE DEF T
  <2>1. T \in SUBSET Nat
    BY DEF T
  <2> QED BY <1>1, <1>2, <2>1, NatSetInduction
<1>4. PICK x \in S : TRUE
  BY Zenon
<1> QED
  BY <1>3, <1>4

\* A sum over a set, counted out: f[x] units for each x.
Units(f, s) == {p \in s \X Nat : p[2] < f[p[1]]}

\* What the community modules' sums compute, one element after the other.
Adds(g, f, S) ==
  g = [s \in SUBSET S |-> IF s = {} THEN 0 ELSE f[CHOOSE x \in s : TRUE] + g[s \ {CHOOSE x \in s : TRUE}]]

LEMMA UnitsOfOne ==
  ASSUME NEW S, NEW f \in [S -> Nat], NEW x \in S
  PROVE  IsFiniteSet(Units(f, {x})) /\ Cardinality(Units(f, {x})) = f[x]
<1>1. Units(f, {x}) = {x} \X (0 .. f[x] - 1)
  BY DEF Units
<1>2. f[x] \in Nat
  OBVIOUS
<1>3. IsFiniteSet(0 .. f[x] - 1) /\ Cardinality(0 .. f[x] - 1) = f[x]
  <2>1. f[x] - 1 \in Int /\ 0 \in Int
    BY <1>2
  <2> QED
    BY <1>2, <2>1, FS_Interval
<1>4. IsFiniteSet({x}) /\ Cardinality({x}) = 1
  BY FS_Singleton, Zenon
<1>5. /\ IsFiniteSet({x} \X (0 .. f[x] - 1))
      /\ Cardinality({x} \X (0 .. f[x] - 1)) = Cardinality({x}) * Cardinality(0 .. f[x] - 1)
  BY <1>3, <1>4, FS_Product, Zenon
<1>6. \A n \in Nat : 1 * n = n
  OBVIOUS
<1>7. Cardinality({x} \X (0 .. f[x] - 1)) = f[x]
  BY <1>2, <1>3, <1>4, <1>5, <1>6
<1> QED
  BY <1>1, <1>5, <1>7, Zenon

LEMMA UnitsFinite ==
  ASSUME NEW S, IsFiniteSet(S), NEW f \in [S -> Nat]
  PROVE  \A s \in SUBSET S : IsFiniteSet(Units(f, s)) /\ Cardinality(Units(f, s)) \in Nat
<1> DEFINE T == {Units(f, {x}) : x \in S}
           h == [x \in S |-> Units(f, {x})]
<1>1. h \in Surjection(S, T)
  BY Zenon DEF Surjection
<1>2. IsFiniteSet(T)
  BY <1>1, FS_Surjection
<1>3. ASSUME NEW U \in T PROVE IsFiniteSet(U)
  <2>1. PICK x \in S : U = Units(f, {x})
    BY Zenon
  <2> QED
    BY <2>1, UnitsOfOne
<1>4. IsFiniteSet(UNION T)
  BY <1>2, <1>3, FS_UNION, Zenon
<1>5. Units(f, S) = UNION T
  BY DEF Units
<1>6. \A s \in SUBSET S : Units(f, s) \in SUBSET Units(f, S)
  BY DEF Units
<1> QED
  BY <1>4, <1>5, <1>6, FS_Subset, FS_CardinalityType, Zenon

LEMMA UnitsAdd ==
  ASSUME NEW S, IsFiniteSet(S), NEW f \in [S -> Nat], NEW s \in SUBSET S, NEW x \in s
  PROVE  Cardinality(Units(f, s)) = f[x] + Cardinality(Units(f, s \ {x}))
<1>1. IsFiniteSet(Units(f, {x})) /\ Cardinality(Units(f, {x})) = f[x] /\ f[x] \in Nat
  BY UnitsOfOne
<1>2. IsFiniteSet(Units(f, s \ {x})) /\ Cardinality(Units(f, s \ {x})) \in Nat
  BY UnitsFinite
<1>3. Units(f, s) = Units(f, {x}) \cup Units(f, s \ {x}) /\ Units(f, {x}) \cap Units(f, s \ {x}) = {}
  BY DEF Units
<1>4. /\ Cardinality(Units(f, {x}) \cup Units(f, s \ {x}))
           = Cardinality(Units(f, {x})) + Cardinality(Units(f, s \ {x})) - Cardinality(Units(f, {x}) \cap Units(f, s \ {x}))
  BY <1>1, <1>2, FS_Union, Zenon
<1>5. Cardinality(Units(f, {x}) \cap Units(f, s \ {x})) = 0
  BY <1>3, FS_EmptySet, Zenon
<1>6. Cardinality(Units(f, s)) = Cardinality(Units(f, {x}) \cup Units(f, s \ {x}))
  BY <1>3
<1> QED
  BY <1>1, <1>2, <1>4, <1>5, <1>6

\* The sum exists, and it is the number of units.
LEMMA SumExists ==
  ASSUME NEW S, IsFiniteSet(S), NEW f \in [S -> Nat]
  PROVE  \E g : Adds(g, f, S)
<1> DEFINE g == [s \in SUBSET S |-> Cardinality(Units(f, s))]
<1>1. Cardinality(Units(f, {})) = 0
  <2>1. Units(f, {}) = {}
    BY DEF Units
  <2> QED
    BY <2>1, FS_EmptySet
<1>2. ASSUME NEW s \in SUBSET S
      PROVE  g[s] = IF s = {} THEN 0 ELSE f[CHOOSE x \in s : TRUE] + g[s \ {CHOOSE x \in s : TRUE}]
  <2>1. CASE s = {}
    BY <1>1, <2>1
  <2>2. CASE s # {}
    <3>1. PICK x \in s : x = CHOOSE y \in s : TRUE
      BY <2>2
    <3>2. g[s] = f[x] + g[s \ {x}]
      BY UnitsAdd
    <3> QED
      BY <2>2, <3>1, <3>2
  <2> QED
    BY <2>1, <2>2
<1>3. g = [s \in SUBSET S |-> IF s = {} THEN 0 ELSE f[CHOOSE x \in s : TRUE] + g[s \ {CHOOSE x \in s : TRUE}]]
  BY <1>2, Zenon
<1> QED
  BY <1>3, Zenon DEF Adds

LEMMA SumCounts ==
  ASSUME NEW S, IsFiniteSet(S), NEW f \in [S -> Nat], NEW g, Adds(g, f, S)
  PROVE  \A s \in SUBSET S : g[s] = Cardinality(Units(f, s))
<1> DEFINE Bad == {s \in SUBSET S : g[s] # Cardinality(Units(f, s))}
<1>0. ASSUME NEW s \in SUBSET S, NEW x \in s
      PROVE  Cardinality(Units(f, s)) = f[x] + Cardinality(Units(f, s \ {x}))
  <2>1. IsFiniteSet(S) /\ f \in [S -> Nat]
    OBVIOUS
  <2> HIDE DEF Bad
  <2> QED
    BY ONLY <2>1, <1>0, UnitsAdd
<1> SUFFICES ASSUME Bad # {} PROVE FALSE
  OBVIOUS
<1>1. IsWellFoundedOn(StrictSubsetOrdering(S), FiniteSubsetsOf(S))
  BY FS_StrictSubsetOrderingWellFounded
<1>2. FiniteSubsetsOf(S) = SUBSET S
  BY FS_FiniteSubsetsOfFinite
<1>3. Bad \subseteq SUBSET S
  OBVIOUS
<1>4. PICK s \in Bad : \A t \in Bad : ~(<<t, s>> \in StrictSubsetOrdering(S))
  <2> HIDE DEF Bad
  <2> QED
    BY <1>1, <1>2, <1>3, WFMin
<1>5. \A t \in SUBSET S : t \subseteq s /\ t # s => <<t, s>> \in StrictSubsetOrdering(S)
  BY <1>3, <1>4 DEF StrictSubsetOrdering
<1>6. \A t \in SUBSET S : t \subseteq s /\ t # s => g[t] = Cardinality(Units(f, t))
  BY <1>4, <1>5, Zenon
<1>7. g[s] = IF s = {} THEN 0 ELSE f[CHOOSE x \in s : TRUE] + g[s \ {CHOOSE x \in s : TRUE}]
  <2>1. s \in SUBSET S
    BY <1>3, <1>4
  <2> QED
    BY <2>1, Zenon DEF Adds
<1>8. CASE s = {}
  <2>1. Units(f, {}) = {}
    BY DEF Units
  <2> QED
    BY <1>4, <1>7, <1>8, <2>1, FS_EmptySet, Zenon
<1>9. CASE s # {}
  <2>1. PICK x \in s : x = CHOOSE y \in s : TRUE
    BY <1>9
  <2>2. s \ {x} \in SUBSET S /\ s \ {x} \subseteq s /\ s \ {x} # s
    BY <1>3, <2>1
  <2>3. g[s \ {x}] = Cardinality(Units(f, s \ {x}))
    BY <1>6, <2>2
  <2>4. Cardinality(Units(f, s)) = f[x] + Cardinality(Units(f, s \ {x}))
    BY <1>0, <1>3, <1>4, <2>1, Zenon
  <2> QED
    BY <1>4, <1>7, <1>9, <2>1, <2>3, <2>4
<1> QED
  BY <1>8, <1>9

\* More units at one place and no fewer elsewhere are more units.
LEMMA CountGrows ==
  ASSUME NEW S, IsFiniteSet(S), NEW f \in [S -> Nat], NEW g \in [S -> Nat], \A y \in S : f[y] <= g[y],
         NEW x \in S, f[x] + 1 <= g[x]
  PROVE  Cardinality(Units(f, S)) + 1 <= Cardinality(Units(g, S))
<1>1. IsFiniteSet(Units(f, S)) /\ IsFiniteSet(Units(g, S))
  BY UnitsFinite
<1>2. <<x, f[x]>> \notin Units(f, S) /\ <<x, f[x]>> \in Units(g, S)
  BY DEF Units
<1>3. Units(f, S) \subseteq Units(g, S)
  BY DEF Units
<1>4. Units(f, S) \cup {<<x, f[x]>>} \in SUBSET Units(g, S)
  BY <1>2, <1>3
<1>5. Cardinality(Units(f, S) \cup {<<x, f[x]>>}) = Cardinality(Units(f, S)) + 1
  BY <1>1, <1>2, FS_AddElement
<1>6. Cardinality(Units(f, S) \cup {<<x, f[x]>>}) <= Cardinality(Units(g, S))
  BY <1>1, <1>4, FS_Subset
<1> QED
  BY <1>5, <1>6

LEMMA CountKeeps ==
  ASSUME NEW S, IsFiniteSet(S), NEW f \in [S -> Nat], NEW g \in [S -> Nat], \A y \in S : f[y] <= g[y]
  PROVE  Cardinality(Units(f, S)) <= Cardinality(Units(g, S))
<1>1. IsFiniteSet(Units(g, S))
  BY UnitsFinite
<1>2. Units(f, S) \in SUBSET Units(g, S)
  BY DEF Units
<1> QED
  BY <1>1, <1>2, FS_Subset

\* At most most units each, of those that have any.
LEMMA CountIsBounded ==
  ASSUME NEW S, IsFiniteSet(S), NEW f \in [S -> Nat], NEW most \in Nat, \A y \in S : f[y] <= most
  PROVE  Cardinality(Units(f, S)) <= most * Cardinality({y \in S : f[y] > 0})
<1> DEFINE Some == {y \in S : f[y] > 0}
<1>1. IsFiniteSet(Some) /\ Cardinality(Some) \in Nat
  <2>1. Some \in SUBSET S
    OBVIOUS
  <2> HIDE DEF Some
  <2> QED
    BY <2>1, FS_Subset, FS_CardinalityType
<1>2. IsFiniteSet(0 .. most - 1) /\ Cardinality(0 .. most - 1) = most
  <2>1. most - 1 \in Int /\ 0 \in Int
    OBVIOUS
  <2> QED
    BY <2>1, FS_Interval
<1>3. /\ IsFiniteSet(Some \X (0 .. most - 1))
      /\ Cardinality(Some \X (0 .. most - 1)) = Cardinality(Some) * Cardinality(0 .. most - 1)
  BY <1>1, <1>2, FS_Product, Zenon
<1>4. Units(f, S) \in SUBSET (Some \X (0 .. most - 1))
  BY DEF Units
<1>5. Cardinality(Units(f, S)) <= Cardinality(Some \X (0 .. most - 1))
  <2> HIDE DEF Some
  <2> QED
    BY <1>3, <1>4, FS_Subset
<1>6. \A n \in Nat : n * most = most * n
  OBVIOUS
<1>7. Cardinality(Some) * Cardinality(0 .. most - 1) = most * Cardinality(Some)
  BY <1>1, <1>2, <1>6
<1> QED
  BY <1>3, <1>5, <1>7

-----------------------------------------------------------------------------
\* The sum of a window is the number of its hits.
LEMMA TotalIs ==
  ASSUME NEW f \in [Rates!Ages -> Nat]
  PROVE  Rates!Total(f) = Cardinality(Units(f, Rates!Ages))
<1> DEFINE A == Rates!Ages
           P(g) == g = [x \in SUBSET A |-> IF x = {} THEN 0
                          ELSE f[CHOOSE y \in x : TRUE] + g[x \ {CHOOSE y \in x : TRUE}]]
<1>0. IsFiniteSet(A)
  <2>1. AuthWindow - 1 \in Int /\ 0 \in Int
    BY LimitsAssumption
  <2> QED
    BY <2>1, FS_Interval DEF Rates!Ages
<1>1. PICK g : g = CHOOSE h : P(h)
  BY Zenon
<1>2. Rates!Total(f) = g[A]
  <2>1. DOMAIN f = A
    OBVIOUS
  <2> QED
    BY <1>1, <2>1 DEF Rates!Total, Rates!SumFunction, Rates!SumFunctionOnSet, Rates!FoldFunctionOnSet, Rates!MapThenFoldSet
<1>3. ASSUME NEW h PROVE P(h) <=> Adds(h, f, A)
  BY Zenon DEF Adds
<1>4. P(g)
  <2>1. \E h : P(h)
    <3>1. \E h : Adds(h, f, A)
      BY <1>0, SumExists
    <3> HIDE DEF P
    <3> QED
      BY <1>3, <3>1
  <2> HIDE DEF P
  <2> QED
    BY <1>1, <2>1
<1>5. \A x \in SUBSET A : g[x] = Cardinality(Units(f, x))
  <2>1. Adds(g, f, A)
    BY <1>3, <1>4, Zenon
  <2>2. f \in [A -> Nat]
    OBVIOUS
  <2> HIDE DEF A, P
  <2> QED
    BY <1>0, <2>1, <2>2, SumCounts
<1> QED
  BY <1>2, <1>5

\* Hits younger than j ticks.
Young(f, j) == Cardinality(Units(f, 0 .. j - 1))

\* The hits of subject k younger than j ticks, in all stores.
HeldIn(w, k, j) == Cardinality(Units([s \in Rates!Stores |-> Young(w[s][k], j)], Rates!Stores))

\* Requests between their two checks; none of a user or an address.
WaitingIn(requests, k) == IF k = Organization THEN Cardinality({r \in Asking : requests[r] # Rates!Idle}) ELSE 0
Slack(k) == IF k = Organization THEN Cardinality(Asking) ELSE 0

\* A request let through is on record in some store, as old as it is, and no store has
\* more on record than the limit; but for the organization, whose hit comes first.
RatesInv ==
  /\ windows \in [Rates!Stores -> [Rates!Subjects -> [Rates!Ages -> Nat]]]
  /\ passed \in [Rates!Subjects -> [Rates!Ages -> Nat]]
  /\ asking \in [Asking -> {Rates!Idle} \cup Members \X Instances]
  /\ \A s \in Rates!Stores, k \in Rates!Subjects : Young(windows[s][k], AuthWindow) <= Rates!Limit(k)
  /\ \A k \in Rates!Subjects, j \in 0 .. AuthWindow :
       Young(passed[k], j) + WaitingIn(asking, k) <= HeldIn(windows, k, j) + Slack(k)

LEMMA StoresFinite == IsFiniteSet(Rates!Stores)
BY LimitsAssumption, FS_Union, FS_Singleton, FS_AddElement DEF Rates!Stores

LEMMA LimitsAreNumbers == \A k : Rates!Limit(k) \in Nat
BY LimitsAssumption DEF Rates!Limit

LEMMA YoungIsANumber ==
  ASSUME NEW f \in [Rates!Ages -> Nat], NEW j \in 0 .. AuthWindow
  PROVE  Young(f, j) \in Nat /\ 0 .. j - 1 \in SUBSET Rates!Ages /\ IsFiniteSet(Units(f, 0 .. j - 1))
<1>1. 0 .. j - 1 \in SUBSET Rates!Ages
  BY LimitsAssumption DEF Rates!Ages
<1>2. IsFiniteSet(Rates!Ages)
  <2>1. AuthWindow - 1 \in Int /\ 0 \in Int
    BY LimitsAssumption
  <2> QED
    BY <2>1, FS_Interval DEF Rates!Ages
<1> QED
  BY <1>1, <1>2, UnitsFinite DEF Young

LEMMA AllAreYoung ==
  ASSUME NEW f \in [Rates!Ages -> Nat]
  PROVE  Rates!Total(f) = Young(f, AuthWindow)
BY TotalIs DEF Young, Rates!Ages

LEMMA HitIsYoung ==
  ASSUME NEW f \in [Rates!Ages -> Nat], NEW j \in 0 .. AuthWindow
  PROVE  /\ Rates!Hit(f) \in [Rates!Ages -> Nat]
         /\ j = 0 => Young(Rates!Hit(f), j) = Young(f, j)
         /\ j > 0 => Young(Rates!Hit(f), j) = Young(f, j) + 1
<1>0. 0 \in Rates!Ages
  BY LimitsAssumption DEF Rates!Ages
<1>1. Rates!Hit(f) = [f EXCEPT ![0] = f[0] + 1] /\ f[0] \in Nat
  BY <1>0 DEF Rates!Hit
<1>2. Rates!Hit(f) \in [Rates!Ages -> Nat]
  BY <1>0, <1>1
<1>3. ASSUME j = 0 PROVE Young(Rates!Hit(f), j) = Young(f, j)
  <2>1. 0 .. j - 1 = {}
    BY <1>3
  <2>2. Units(f, {}) = {} /\ Units(Rates!Hit(f), {}) = {}
    BY DEF Units
  <2> QED
    BY <2>1, <2>2 DEF Young
<1>4. ASSUME j > 0 PROVE Young(Rates!Hit(f), j) = Young(f, j) + 1
  <2>1. 0 \in 0 .. j - 1
    BY <1>4
  <2>2. 0 .. j - 1 \in SUBSET Rates!Ages
    BY YoungIsANumber
  <2>3. Units(Rates!Hit(f), 0 .. j - 1) = Units(f, 0 .. j - 1) \cup {<<0, f[0]>>}
    <3> DEFINE J == 0 .. j - 1
    <3>1. \A a \in J : Rates!Hit(f)[a] = IF a = 0 THEN f[0] + 1 ELSE f[a]
      BY <1>1, <2>2
    <3>2. 0 \in J /\ \A a \in J : f[a] \in Nat
      BY <2>1, <2>2
    <3> HIDE DEF J
    <3>3. Units(Rates!Hit(f), J) = Units(f, J) \cup {<<0, f[0]>>}
      BY <3>1, <3>2 DEF Units
    <3> QED
      BY <3>3 DEF J
  <2>4. <<0, f[0]>> \notin Units(f, 0 .. j - 1)
    BY <1>1 DEF Units
  <2>5. IsFiniteSet(Units(f, 0 .. j - 1))
    BY YoungIsANumber
  <2> QED
    BY <2>3, <2>4, <2>5, FS_AddElement DEF Young
<1> QED
  BY <1>2, <1>3, <1>4

\* A tick later the hits younger than j are those that were younger than j - 1.
LEMMA OlderIsYoung ==
  ASSUME NEW f \in [Rates!Ages -> Nat], NEW k, NEW j \in 1 .. AuthWindow
  PROVE  /\ Rates!Older(k, f) \in [Rates!Ages -> Nat]
         /\ Young(Rates!Older(k, f), j) = Young(f, IF j <= Rates!Length(k) THEN j - 1 ELSE Rates!Length(k) - 1)
<1> DEFINE g == Rates!Older(k, f)
           i == IF j <= Rates!Length(k) THEN j - 1 ELSE Rates!Length(k) - 1
           U == Units(f, 0 .. i - 1)
           V == Units(g, 0 .. j - 1)
           h == [p \in U |-> <<p[1] + 1, p[2]>>]
<1>0. Rates!Length(k) \in Nat \ {0}
  BY LimitsAssumption DEF Rates!Length
<1>1. i \in 0 .. AuthWindow /\ i < j
  BY <1>0, LimitsAssumption
<1>2. \A a \in Rates!Ages : g[a] = IF a = 0 \/ a >= Rates!Length(k) THEN 0 ELSE f[a - 1]
  BY DEF Rates!Older
<1>3. \A a \in Rates!Ages : a # 0 => a - 1 \in Rates!Ages
  BY LimitsAssumption DEF Rates!Ages
<1>4. g \in [Rates!Ages -> Nat]
  BY <1>2, <1>3 DEF Rates!Older
<1>5. 0 .. i - 1 \in SUBSET Rates!Ages /\ 0 .. j - 1 \in SUBSET Rates!Ages
  BY LimitsAssumption, <1>1 DEF Rates!Ages
<1>6. \A a \in 0 .. i - 1 : a + 1 \in 0 .. j - 1 /\ g[a + 1] = f[a]
  BY <1>0, <1>1, <1>2, <1>5
<1>7. \A a \in 0 .. j - 1 : g[a] # 0 => a - 1 \in 0 .. i - 1 /\ g[a] = f[a - 1]
  BY <1>0, <1>1, <1>2, <1>5
<1>8. \A a \in 0 .. j - 1 : g[a] \in Nat
  BY <1>4, <1>5
<1> HIDE DEF g, i
<1>9. h \in Bijection(U, V)
  <2>1. h \in [U -> V]
    <3> SUFFICES ASSUME NEW p \in U PROVE <<p[1] + 1, p[2]>> \in V
      OBVIOUS
    <3> QED
      BY <1>6 DEF Units
  <2>2. \A p \in U, q \in U : h[p] = h[q] => p = q
    BY DEF Units
  <2>3. ASSUME NEW q \in V PROVE \E p \in U : h[p] = q
    <3>1. PICK a \in 0 .. j - 1, n \in Nat : q = <<a, n>> /\ n < g[a]
      BY DEF Units
    <3>2. g[a] # 0
      BY <1>8, <3>1
    <3>3. a - 1 \in 0 .. i - 1 /\ g[a] = f[a - 1]
      BY <1>7, <3>2
    <3>4. <<a - 1, n>> \in U
      BY <3>1, <3>3 DEF Units
    <3>5. h[<<a - 1, n>>] = <<a, n>>
      BY <3>4
    <3> QED
      BY <3>1, <3>4, <3>5
  <2> HIDE DEF h, U, V
  <2> QED
    BY <2>1, <2>2, <2>3 DEF Bijection, Injection, Surjection, IsInjective
<1>10. IsFiniteSet(U) /\ Young(f, i) = Cardinality(U)
  BY <1>1, YoungIsANumber DEF Young
<1>11. Cardinality(V) = Cardinality(U)
  <2> HIDE DEF h, U, V
  <2> QED
    BY <1>9, <1>10, FS_Bijection DEF ExistsBijection
<1>12. Young(g, j) = Young(f, i)
  BY <1>10, <1>11 DEF Young
<1> QED
  BY <1>4, <1>12 DEF g, i

\* What a check of subject k on record in w leaves on record in v: a hit of k in stores
\* that had room for it, in one at least if it let the request through.
ChecksTo(w, v, k, through) ==
  /\ v \in [Rates!Stores -> [Rates!Subjects -> [Rates!Ages -> Nat]]]
  /\ \A s \in Rates!Stores, x \in Rates!Subjects :
       \/ v[s][x] = w[s][x]
       \/ x = k /\ v[s][x] = Rates!Hit(w[s][x]) /\ Young(w[s][x], AuthWindow) < Rates!Limit(x)
  /\ through => \E s \in Rates!Stores : v[s][k] = Rates!Hit(w[s][k])

LEMMA RecordChecks ==
  ASSUME NEW w \in [Rates!Stores -> [Rates!Subjects -> [Rates!Ages -> Nat]]],
         NEW s \in Rates!Stores, NEW k \in Rates!Subjects
  PROVE  /\ Rates!Record(w, s, k) \in [Rates!Stores -> [Rates!Subjects -> [Rates!Ages -> Nat]]]
         /\ \A t \in Rates!Stores, x \in Rates!Subjects :
              t # s \/ x # k => Rates!Record(w, s, k)[t][x] = w[t][x]
         /\ Rates!Full(w[s], k) => Rates!Record(w, s, k)[s][k] = w[s][k]
         /\ ~Rates!Full(w[s], k) => /\ Rates!Record(w, s, k)[s][k] = Rates!Hit(w[s][k])
                                    /\ Young(w[s][k], AuthWindow) < Rates!Limit(k)
<1>1. w[s] \in [Rates!Subjects -> [Rates!Ages -> Nat]] /\ w[s][k] \in [Rates!Ages -> Nat]
  OBVIOUS
<1>2. AuthWindow \in 0 .. AuthWindow
  BY LimitsAssumption
<1>3. Young(w[s][k], AuthWindow) \in Nat /\ Rates!Hit(w[s][k]) \in [Rates!Ages -> Nat]
  BY <1>1, <1>2, YoungIsANumber, HitIsYoung
<1>4. Rates!Full(w[s], k) <=> ~(Young(w[s][k], AuthWindow) < Rates!Limit(k))
  BY <1>1, <1>3, LimitsAreNumbers, AllAreYoung DEF Rates!Full
<1>5. CASE Rates!Full(w[s], k)
  BY <1>5 DEF Rates!Record
<1>6. CASE ~Rates!Full(w[s], k)
  <2>1. Rates!Record(w, s, k) = [w EXCEPT ![s] = [w[s] EXCEPT ![k] = Rates!Hit(w[s][k])]]
    BY <1>6 DEF Rates!Record
  <2>2. [w[s] EXCEPT ![k] = Rates!Hit(w[s][k])] \in [Rates!Subjects -> [Rates!Ages -> Nat]]
    BY <1>1, <1>3
  <2> QED
    BY <1>1, <1>4, <1>6, <2>1, <2>2
<1> QED
  BY <1>5, <1>6

LEMMA CheckIs ==
  ASSUME NEW w \in [Rates!Stores -> [Rates!Subjects -> [Rates!Ages -> Nat]]],
         NEW i \in Instances, NEW k \in Rates!Subjects, NEW c \in Rates!check(w, i, k)
  PROVE  ChecksTo(w, c[1], k, c[2]) /\ c[2] \in BOOLEAN
<1>1. i \in Rates!Stores /\ Store \in Rates!Stores /\ i # Store
  BY LimitsAssumption DEF Rates!Stores
<1>0. ASSUME NEW s \in Rates!Stores
      PROVE  ChecksTo(w, Rates!Record(w, s, k), k, ~Rates!Full(w[s], k))
  <2> DEFINE v == Rates!Record(w, s, k)
  <2>1. /\ v \in [Rates!Stores -> [Rates!Subjects -> [Rates!Ages -> Nat]]]
        /\ \A t \in Rates!Stores, x \in Rates!Subjects : t # s \/ x # k => v[t][x] = w[t][x]
        /\ Rates!Full(w[s], k) => v[s][k] = w[s][k]
        /\ ~Rates!Full(w[s], k) => v[s][k] = Rates!Hit(w[s][k]) /\ Young(w[s][k], AuthWindow) < Rates!Limit(k)
    BY RecordChecks
  <2> HIDE DEF v
  <2>2. ChecksTo(w, v, k, ~Rates!Full(w[s], k))
    BY <2>1 DEF ChecksTo
  <2> QED
    BY <2>2 DEF v
<1>2. CASE c = <<Rates!Record(w, Store, k), ~Rates!Full(w[Store], k)>>
  BY <1>0, <1>1, <1>2 DEF Rates!Full
<1>3. CASE c = <<Rates!Record(w, i, k), ~Rates!Full(w[i], k)>>
  BY <1>0, <1>1, <1>3 DEF Rates!Full
<1>4. CASE c = <<Rates!Record(Rates!Record(w, Store, k), i, k), ~Rates!Full(w[i], k)>>
  <2> DEFINE v == Rates!Record(w, Store, k)
             u == Rates!Record(v, i, k)
  <2>1. v \in [Rates!Stores -> [Rates!Subjects -> [Rates!Ages -> Nat]]]
    BY <1>1, RecordChecks
  <2>2. \A t \in Rates!Stores, x \in Rates!Subjects : t # Store \/ x # k => v[t][x] = w[t][x]
    BY <1>1, RecordChecks
  <2>3. \/ v[Store][k] = w[Store][k]
        \/ v[Store][k] = Rates!Hit(w[Store][k]) /\ Young(w[Store][k], AuthWindow) < Rates!Limit(k)
    BY <1>1, RecordChecks
  <2>4. v[i] = w[i]
    BY <1>1, <2>1, <2>2
  <2> HIDE DEF v
  <2>5. u \in [Rates!Stores -> [Rates!Subjects -> [Rates!Ages -> Nat]]]
    BY <1>1, <2>1, RecordChecks
  <2>6. \A t \in Rates!Stores, x \in Rates!Subjects : t # i \/ x # k => u[t][x] = v[t][x]
    BY <1>1, <2>1, RecordChecks
  <2>7. /\ Rates!Full(w[i], k) => u[i][k] = w[i][k]
        /\ ~Rates!Full(w[i], k) => u[i][k] = Rates!Hit(w[i][k]) /\ Young(w[i][k], AuthWindow) < Rates!Limit(k)
    <3>1. /\ Rates!Full(v[i], k) => u[i][k] = v[i][k]
          /\ ~Rates!Full(v[i], k) => u[i][k] = Rates!Hit(v[i][k]) /\ Young(v[i][k], AuthWindow) < Rates!Limit(k)
      BY <1>1, <2>1, RecordChecks
    <3> HIDE DEF u
    <3> QED
      BY <2>4, <3>1
  <2> HIDE DEF u
  <2>8. ChecksTo(w, u, k, ~Rates!Full(w[i], k))
    BY <1>1, <2>2, <2>3, <2>5, <2>6, <2>7 DEF ChecksTo
  <2>9. c[1] = u /\ c[2] = ~Rates!Full(w[i], k)
    BY <1>4 DEF u, v
  <2> QED
    BY <2>8, <2>9 DEF Rates!Full
<1> QED
  BY <1>2, <1>3, <1>4 DEF Rates!check

LEMMA HeldIsANumber ==
  ASSUME NEW w \in [Rates!Stores -> [Rates!Subjects -> [Rates!Ages -> Nat]]],
         NEW k \in Rates!Subjects, NEW j \in 0 .. AuthWindow
  PROVE  /\ HeldIn(w, k, j) \in Nat
         /\ [s \in Rates!Stores |-> Young(w[s][k], j)] \in [Rates!Stores -> Nat]
<1>1. [s \in Rates!Stores |-> Young(w[s][k], j)] \in [Rates!Stores -> Nat]
  BY YoungIsANumber
<1> QED
  BY <1>1, StoresFinite, UnitsFinite DEF HeldIn

\* A check takes nothing off the record, and a request it lets through is on it.
LEMMA ChecksAreHeld ==
  ASSUME NEW w \in [Rates!Stores -> [Rates!Subjects -> [Rates!Ages -> Nat]]], NEW v,
         NEW k \in Rates!Subjects, NEW through \in BOOLEAN, ChecksTo(w, v, k, through),
         NEW x \in Rates!Subjects, NEW j \in 0 .. AuthWindow
  PROVE  /\ HeldIn(w, x, j) <= HeldIn(v, x, j)
         /\ through /\ x = k /\ j > 0 => HeldIn(w, x, j) + 1 <= HeldIn(v, x, j)
<1> DEFINE f == [s \in Rates!Stores |-> Young(w[s][x], j)]
           g == [s \in Rates!Stores |-> Young(v[s][x], j)]
<1>0. v \in [Rates!Stores -> [Rates!Subjects -> [Rates!Ages -> Nat]]]
  BY DEF ChecksTo
<1>1. f \in [Rates!Stores -> Nat] /\ g \in [Rates!Stores -> Nat]
  <2>1. f \in [Rates!Stores -> Nat]
    BY HeldIsANumber
  <2>2. g \in [Rates!Stores -> Nat]
    BY <1>0, HeldIsANumber
  <2> QED
    BY <2>1, <2>2
<1>2. ASSUME NEW s \in Rates!Stores
      PROVE  f[s] <= g[s] /\ (j > 0 /\ v[s][x] = Rates!Hit(w[s][x]) => f[s] + 1 <= g[s])
  <2>1. w[s][x] \in [Rates!Ages -> Nat] /\ Young(w[s][x], j) \in Nat
    BY YoungIsANumber
  <2>2. f[s] = Young(w[s][x], j) /\ g[s] = Young(v[s][x], j)
    OBVIOUS
  <2>3. v[s][x] = w[s][x] \/ v[s][x] = Rates!Hit(w[s][x])
    BY DEF ChecksTo
  <2>4. CASE v[s][x] = Rates!Hit(w[s][x])
    <3>1. Young(v[s][x], j) = Young(Rates!Hit(w[s][x]), j)
      BY <2>4
    <3>2. j = 0 \/ j > 0
      OBVIOUS
    <3> HIDE DEF f, g
    <3> QED
      BY <2>1, <2>2, <3>1, <3>2, HitIsYoung
  <2>5. CASE v[s][x] = w[s][x] /\ v[s][x] # Rates!Hit(w[s][x])
    <3>1. f[s] = g[s]
      BY <2>5
    <3> HIDE DEF f, g
    <3> QED
      BY <2>1, <2>2, <2>5, <3>1
  <2> QED
    BY <2>3, <2>4, <2>5
<1>3. HeldIn(w, x, j) = Cardinality(Units(f, Rates!Stores)) /\ HeldIn(v, x, j) = Cardinality(Units(g, Rates!Stores))
  BY DEF HeldIn
<1>4. through /\ x = k => \E s \in Rates!Stores : v[s][x] = Rates!Hit(w[s][x])
  BY DEF ChecksTo
<1> HIDE DEF f, g
<1>5. Cardinality(Units(f, Rates!Stores)) <= Cardinality(Units(g, Rates!Stores))
  BY <1>1, <1>2, StoresFinite, CountKeeps
<1>6. ASSUME through, x = k, j > 0
      PROVE  Cardinality(Units(f, Rates!Stores)) + 1 <= Cardinality(Units(g, Rates!Stores))
  <2>1. PICK s \in Rates!Stores : v[s][x] = Rates!Hit(w[s][x])
    BY <1>4, <1>6
  <2>2. f[s] + 1 <= g[s]
    BY <1>2, <1>6, <2>1
  <2> QED
    BY <1>1, <1>2, <2>2, StoresFinite, CountGrows
<1> QED
  BY <1>3, <1>5, <1>6

\* And no store has more on record than the limit.
LEMMA ChecksAreLimited ==
  ASSUME RatesInv, NEW k \in Rates!Subjects, NEW through \in BOOLEAN, ChecksTo(windows, windows', k, through)
  PROVE  \A s \in Rates!Stores, x \in Rates!Subjects : Young(windows'[s][x], AuthWindow) <= Rates!Limit(x)
<1> SUFFICES ASSUME NEW s \in Rates!Stores, NEW x \in Rates!Subjects
             PROVE  Young(windows'[s][x], AuthWindow) <= Rates!Limit(x)
  OBVIOUS
<1> DEFINE f == windows[s][x]  g == windows'[s][x]
<1>0. f \in [Rates!Ages -> Nat] /\ Young(f, AuthWindow) <= Rates!Limit(x)
  BY DEF RatesInv
<1>3. g = f \/ (g = Rates!Hit(f) /\ Young(f, AuthWindow) < Rates!Limit(x))
  BY DEF ChecksTo
<1> HIDE DEF f, g
<1>1. CASE g = f
  BY <1>0, <1>1 DEF g
<1>2. CASE g = Rates!Hit(f) /\ Young(f, AuthWindow) < Rates!Limit(x)
  <2>1. AuthWindow \in 0 .. AuthWindow /\ AuthWindow > 0
    BY LimitsAssumption
  <2>2. Young(f, AuthWindow) \in Nat
    BY <1>0, <2>1, YoungIsANumber
  <2>3. Young(g, AuthWindow) = Young(f, AuthWindow) + 1
    BY <1>0, <1>2, <2>1, HitIsYoung
  <2> QED
    BY <1>2, <2>2, <2>3, LimitsAreNumbers DEF g
<1> QED
  BY <1>1, <1>2, <1>3 DEF g

Requesting == [Asking -> {Rates!Idle} \cup Members \X Instances]

LEMMA WaitingCounts ==
  ASSUME NEW q \in Requesting, NEW k
  PROVE  /\ WaitingIn(q, k) \in Nat /\ Slack(k) \in Nat /\ WaitingIn(q, k) <= Slack(k)
         /\ \A r \in Asking, x \in Members \X Instances :
              q[r] = Rates!Idle =>
                WaitingIn([q EXCEPT ![r] = x], k) = IF k = Organization THEN WaitingIn(q, k) + 1 ELSE WaitingIn(q, k)
         /\ \A r \in Asking :
              q[r] # Rates!Idle =>
                WaitingIn(q, k) =
                  IF k = Organization THEN WaitingIn([q EXCEPT ![r] = Rates!Idle], k) + 1
                  ELSE WaitingIn([q EXCEPT ![r] = Rates!Idle], k)
<1> DEFINE W(p) == {r \in Asking : p[r] # Rates!Idle}
<1>1. \A p : W(p) \in SUBSET Asking
  OBVIOUS
<1>2. \A p : IsFiniteSet(W(p)) /\ Cardinality(W(p)) \in Nat /\ Cardinality(W(p)) <= Cardinality(Asking)
  <2> HIDE DEF W
  <2> QED
    BY <1>1, LimitsAssumption, FS_Subset, FS_CardinalityType
<1>3. Cardinality(Asking) \in Nat
  BY LimitsAssumption, FS_CardinalityType
<1>4. \A p : WaitingIn(p, k) = IF k = Organization THEN Cardinality(W(p)) ELSE 0
  BY Zenon DEF WaitingIn
<1>5. ASSUME NEW r \in Asking, NEW x \in Members \X Instances, q[r] = Rates!Idle
      PROVE  Cardinality(W([q EXCEPT ![r] = x])) = Cardinality(W(q)) + 1
  <2>1. x # Rates!Idle
    BY DEF Rates!Idle
  <2>2. W([q EXCEPT ![r] = x]) = W(q) \cup {r} /\ r \notin W(q)
    BY <1>5, <2>1 DEF Requesting
  <2> HIDE DEF W
  <2> QED
    BY <1>2, <2>2, FS_AddElement
<1>6. ASSUME NEW r \in Asking, q[r] # Rates!Idle
      PROVE  Cardinality(W(q)) = Cardinality(W([q EXCEPT ![r] = Rates!Idle])) + 1
  <2> DEFINE p == [q EXCEPT ![r] = Rates!Idle]
  <2>1. W(q) = W(p) \cup {r} /\ r \notin W(p)
    BY <1>6 DEF Requesting
  <2> HIDE DEF W, p
  <2>2. Cardinality(W(q)) = Cardinality(W(p)) + 1
    BY <1>2, <2>1, FS_AddElement
  <2> QED
    BY <2>2 DEF p
<1> HIDE DEF W
<1> QED
  BY <1>2, <1>3, <1>4, <1>5, <1>6 DEF Slack

\* What the invariant says in numbers.
LEMMA RatesAre ==
  ASSUME RatesInv, NEW k \in Rates!Subjects, NEW j \in 0 .. AuthWindow
  PROVE  /\ Young(passed[k], j) \in Nat /\ HeldIn(windows, k, j) \in Nat
         /\ WaitingIn(asking, k) \in Nat /\ Slack(k) \in Nat /\ WaitingIn(asking, k) <= Slack(k)
         /\ passed[k] \in [Rates!Ages -> Nat]
         /\ Young(passed[k], j) + WaitingIn(asking, k) <= HeldIn(windows, k, j) + Slack(k)
<1>1. passed[k] \in [Rates!Ages -> Nat] /\ asking \in Requesting
  BY DEF RatesInv, Requesting
<1> QED
  BY <1>1, YoungIsANumber, HeldIsANumber, WaitingCounts DEF RatesInv

LEMMA NoneIsYoung == ASSUME NEW f PROVE Young(f, 0) = 0
<1>1. 0 .. 0 - 1 = {}
  OBVIOUS
<1>2. Units(f, {}) = {}
  BY DEF Units
<1> QED
  BY <1>1, <1>2, FS_EmptySet DEF Young

\* A sweep drops nothing: no hit is older than the longer window.
LEMMA SweptIsSame ==
  ASSUME NEW w \in [Rates!Subjects -> [Rates!Ages -> Nat]]
  PROVE  Rates!Swept(w) = w
<1>1. ASSUME NEW k \in Rates!Subjects, Rates!Total(w[k]) > 0 PROVE ~(Rates!Newest(w[k]) >= Rates!Longest)
  <2> DEFINE A == {a \in Rates!Ages : w[k][a] > 0}
  <2>1. A # {}
    <3> SUFFICES ASSUME A = {} PROVE FALSE
      OBVIOUS
    <3>1. \A a \in Rates!Ages : w[k][a] = 0
      OBVIOUS
    <3>2. Units(w[k], Rates!Ages) = {}
      BY <3>1 DEF Units
    <3>3. Rates!Total(w[k]) = Cardinality(Units(w[k], Rates!Ages))
      BY TotalIs
    <3>4. Rates!Total(w[k]) = 0
      BY <3>2, <3>3, FS_EmptySet
    <3> QED
      BY <1>1, <3>4
  <2>2. A \in SUBSET Nat /\ A \in SUBSET Rates!Ages
    BY DEF Rates!Ages
  <2>3. Rates!Newest(w[k]) \in A
    <3>1. Rates!Newest(w[k]) = Rates!Min(A)
      BY DEF Rates!Newest
    <3> HIDE DEF A
    <3>2. \E a \in A : \A b \in A : a <= b
      BY <2>1, <2>2, MinExists
    <3>3. Rates!Min(A) \in A
      BY <3>2 DEF Rates!Min
    <3> QED
      BY <3>1, <3>3
  <2>4. Rates!Newest(w[k]) \in 0 .. AuthWindow - 1
    BY <2>2, <2>3 DEF Rates!Ages
  <2> QED
    BY <2>4, LimitsAssumption DEF Rates!Longest
<1>2. \A k \in Rates!Subjects :
        (IF Rates!Total(w[k]) > 0 /\ Rates!Newest(w[k]) >= Rates!Longest THEN Rates!NoHits ELSE w[k]) = w[k]
  BY <1>1
<1>3. Rates!Swept(w) = [k \in Rates!Subjects |-> w[k]]
  BY <1>2, Zenon DEF Rates!Swept
<1> QED
  BY <1>3

LEMMA SweepsKeep ==
  ASSUME RatesInv, NEW i \in Instances, NEW w \in {windows, [windows EXCEPT ![i] = Rates!Swept(@)]}
  PROVE  w = windows
<1>1. windows[i] \in [Rates!Subjects -> [Rates!Ages -> Nat]]
  BY DEF RatesInv, Rates!Stores
<1>2. Rates!Swept(windows[i]) = windows[i]
  BY <1>1, SweptIsSame
<1>3. [windows EXCEPT ![i] = Rates!Swept(@)] = [windows EXCEPT ![i] = windows[i]]
  BY <1>2
<1>4. [windows EXCEPT ![i] = windows[i]] = windows
  BY DEF RatesInv
<1> QED
  BY <1>3, <1>4

LEMMA InitRates == Rates!Init => RatesInv
<1> SUFFICES ASSUME Rates!Init PROVE RatesInv
  OBVIOUS
<1>1. Rates!NoHits \in [Rates!Ages -> Nat]
  BY DEF Rates!NoHits
<1>2. /\ windows \in [Rates!Stores -> [Rates!Subjects -> [Rates!Ages -> Nat]]]
      /\ passed \in [Rates!Subjects -> [Rates!Ages -> Nat]] /\ asking \in Requesting
      /\ \A s \in Rates!Stores, k \in Rates!Subjects : windows[s][k] = Rates!NoHits /\ passed[k] = Rates!NoHits
  BY <1>1 DEF Rates!Init, Requesting
<1>4. \A a \in Rates!Ages : Rates!NoHits[a] = 0
  BY DEF Rates!NoHits
<1>3. ASSUME NEW j \in 0 .. AuthWindow PROVE Young(Rates!NoHits, j) = 0
  <2>1. Units(Rates!NoHits, 0 .. j - 1) = {}
    <3>1. ASSUME NEW x \in Units(Rates!NoHits, 0 .. j - 1) PROVE FALSE
      <4>0. x[1] \in Rates!Ages
        BY LimitsAssumption DEF Units, Rates!Ages
      <4>1. x[1] \in 0 .. j - 1 /\ x[2] \in Nat /\ x[2] < Rates!NoHits[x[1]]
        BY DEF Units
      <4> QED
        BY <1>4, <4>0, <4>1
    <3> QED
      BY <3>1
  <2> QED
    BY <2>1, FS_EmptySet DEF Young
<1>5. AuthWindow \in 0 .. AuthWindow
  BY LimitsAssumption
<1>6. \A k : WaitingIn(asking, k) = 0 /\ Slack(k) \in Nat
  <2>1. {r \in Asking : asking[r] # Rates!Idle} = {}
    BY DEF Rates!Init
  <2> QED
    BY <1>2, <2>1, WaitingCounts, FS_EmptySet DEF WaitingIn
<1>7. \A k \in Rates!Subjects, j \in 0 .. AuthWindow : HeldIn(windows, k, j) \in Nat
  BY <1>2, HeldIsANumber
<1>8. \A s \in Rates!Stores, k \in Rates!Subjects : Young(windows[s][k], AuthWindow) <= Rates!Limit(k)
  BY <1>2, <1>3, <1>5, LimitsAreNumbers
<1>9. ASSUME NEW k \in Rates!Subjects, NEW j \in 0 .. AuthWindow
      PROVE  Young(passed[k], j) + WaitingIn(asking, k) <= HeldIn(windows, k, j) + Slack(k)
  <2>1. Young(passed[k], j) = 0
    <3>1. passed[k] = Rates!NoHits
      BY DEF Rates!Init
    <3> QED
      BY <1>3, <3>1
  <2> QED
    BY <1>6, <1>7, <2>1
<1> QED
  BY <1>2, <1>8, <1>9 DEF RatesInv, Requesting

LEMMA FirstCheckStep ==
  ASSUME RatesInv, NEW r \in Asking, NEW u \in Members, NEW i \in Instances, Rates!enforce(r, u, i)
  PROVE  RatesInv'
<1>1. PICK c \in Rates!check(windows, i, Organization) :
        /\ windows' = c[1] /\ passed' = passed /\ asking[r] = Rates!Idle
        /\ asking' = IF c[2] THEN [asking EXCEPT ![r] = <<u, i>>] ELSE asking
  BY SweepsKeep DEF Rates!enforce
<1>3. Organization \in Rates!Subjects /\ <<u, i>> \in Members \X Instances
  BY DEF Rates!Subjects
<1>4. ChecksTo(windows, windows', Organization, c[2]) /\ c[2] \in BOOLEAN
  BY <1>1, <1>3, CheckIs DEF RatesInv
<1>5. asking \in Requesting /\ asking' \in Requesting
  BY <1>1, <1>3 DEF RatesInv, Requesting
<1>6. \A s \in Rates!Stores, k \in Rates!Subjects : Young(windows'[s][k], AuthWindow) <= Rates!Limit(k)
  BY <1>3, <1>4, ChecksAreLimited
<1>7. ASSUME NEW k \in Rates!Subjects, NEW j \in 0 .. AuthWindow
      PROVE  Young(passed'[k], j) + WaitingIn(asking', k) <= HeldIn(windows', k, j) + Slack(k)
  <2> DEFINE y == Young(passed[k], j)  n == WaitingIn(asking, k)  m == WaitingIn(asking', k)
             h == HeldIn(windows, k, j)  g == HeldIn(windows', k, j)  z == Slack(k)
  <2>1. y \in Nat /\ h \in Nat /\ n \in Nat /\ z \in Nat /\ y + n <= h + z
    BY RatesAre
  <2>2. m \in Nat /\ m <= z
    BY <1>5, WaitingCounts
  <2>3. h <= g /\ (c[2] /\ k = Organization /\ j > 0 => h + 1 <= g)
    BY <1>3, <1>4, ChecksAreHeld DEF RatesInv
  <2>4. g \in Nat
    BY <1>4, HeldIsANumber DEF ChecksTo
  <2>5. m = IF c[2] /\ k = Organization THEN n + 1 ELSE n
    BY <1>1, <1>3, <1>5, WaitingCounts
  <2>6. j = 0 => y = 0
    BY NoneIsYoung
  <2>7. j = 0 \/ j > 0
    OBVIOUS
  <2>8. passed' = passed
    BY <1>1
  <2> HIDE DEF y, n, m, h, g, z
  <2>9. y + m <= g + z
    BY <2>1, <2>2, <2>3, <2>4, <2>5, <2>6, <2>7
  <2> QED
    BY <2>8, <2>9 DEF y, m, g, z
<1> QED
  BY <1>1, <1>4, <1>5, <1>6, <1>7 DEF RatesInv, ChecksTo, Requesting

LEMMA SecondCheckStep ==
  ASSUME RatesInv, NEW r \in Asking, Rates!EnforceUser(r)
  PROVE  RatesInv'
<1> DEFINE u == asking[r][1]  i == asking[r][2]
<1>1. PICK c \in Rates!check(windows, i, u) :
        /\ windows' = c[1] /\ asking[r] # Rates!Idle
        /\ passed' = IF c[2] THEN [passed EXCEPT ![u] = Rates!Hit(@), ![Organization] = Rates!Hit(@)] ELSE passed
        /\ asking' = [asking EXCEPT ![r] = Rates!Idle]
  BY DEF Rates!EnforceUser
<1>2. u \in Members /\ i \in Instances /\ u \in Rates!Subjects /\ u # Organization /\ Organization \in Rates!Subjects
  BY <1>1, LimitsAssumption DEF RatesInv, Rates!Subjects
<1> HIDE DEF u, i
<1>3. ChecksTo(windows, windows', u, c[2]) /\ c[2] \in BOOLEAN
  BY <1>1, <1>2, CheckIs DEF RatesInv
<1>4. asking \in Requesting /\ asking' \in Requesting
  BY <1>1 DEF RatesInv, Requesting
<1>5. \A s \in Rates!Stores, k \in Rates!Subjects : Young(windows'[s][k], AuthWindow) <= Rates!Limit(k)
  BY <1>2, <1>3, ChecksAreLimited
<1>6. /\ passed' \in [Rates!Subjects -> [Rates!Ages -> Nat]]
      /\ \A k \in Rates!Subjects :
           passed'[k] = IF c[2] /\ (k = u \/ k = Organization) THEN Rates!Hit(passed[k]) ELSE passed[k]
  <2>1. /\ passed \in [Rates!Subjects -> [Rates!Ages -> Nat]]
        /\ Rates!Hit(passed[u]) \in [Rates!Ages -> Nat] /\ Rates!Hit(passed[Organization]) \in [Rates!Ages -> Nat]
    <3>1. 0 \in 0 .. AuthWindow
      BY LimitsAssumption
    <3>2. passed[u] \in [Rates!Ages -> Nat] /\ passed[Organization] \in [Rates!Ages -> Nat]
      BY <1>2 DEF RatesInv
    <3> QED
      BY <3>1, <3>2, HitIsYoung DEF RatesInv
  <2>2. CASE c[2]
    <3>1. passed' = [passed EXCEPT ![u] = Rates!Hit(passed[u]), ![Organization] = Rates!Hit(passed[Organization])]
      BY <1>1, <1>2, <2>1, <2>2
    <3> QED
      BY <1>2, <2>1, <2>2, <3>1
  <2>3. CASE ~c[2]
    BY <1>1, <2>1, <2>3
  <2> QED
    BY <2>2, <2>3
<1>7. ASSUME NEW k \in Rates!Subjects, NEW j \in 0 .. AuthWindow
      PROVE  Young(passed'[k], j) + WaitingIn(asking', k) <= HeldIn(windows', k, j) + Slack(k)
  <2> DEFINE y == Young(passed[k], j)  x == Young(passed'[k], j)
             n == WaitingIn(asking, k)  m == WaitingIn(asking', k)
             h == HeldIn(windows, k, j)  g == HeldIn(windows', k, j)  z == Slack(k)
  <2>1. y \in Nat /\ h \in Nat /\ n \in Nat /\ z \in Nat /\ y + n <= h + z
    BY RatesAre
  <2>2. m \in Nat /\ m <= z
    BY <1>4, WaitingCounts
  <2>3. h <= g /\ (c[2] /\ k = u /\ j > 0 => h + 1 <= g)
    BY <1>2, <1>3, ChecksAreHeld DEF RatesInv
  <2>4. g \in Nat
    BY <1>3, HeldIsANumber DEF ChecksTo
  <2>5. n = IF k = Organization THEN m + 1 ELSE m
    BY <1>1, <1>4, WaitingCounts
  <2>6. j = 0 => x = 0
    BY NoneIsYoung
  <2>7. j = 0 \/ j > 0
    OBVIOUS
  <2>8. passed[k] \in [Rates!Ages -> Nat]
    BY DEF RatesInv
  <2>9. j > 0 => x = IF c[2] /\ (k = u \/ k = Organization) THEN y + 1 ELSE y
    <3>1. j > 0 => Young(Rates!Hit(passed[k]), j) = y + 1
      BY <2>8, HitIsYoung
    <3>2. passed'[k] = IF c[2] /\ (k = u \/ k = Organization) THEN Rates!Hit(passed[k]) ELSE passed[k]
      BY <1>6
    <3> QED
      BY <3>1, <3>2
  <2> HIDE DEF y, x, n, m, h, g, z
  <2>10. x + m <= g + z
    BY <1>2, <2>1, <2>2, <2>3, <2>4, <2>5, <2>6, <2>7, <2>9
  <2> QED
    BY <2>10 DEF x, m, g, z
<1> QED
  BY <1>3, <1>4, <1>5, <1>6, <1>7 DEF RatesInv, ChecksTo, Requesting

LEMMA AttemptStep ==
  ASSUME RatesInv, NEW i \in Instances, Rates!enforce_ip(i)
  PROVE  RatesInv'
<1>1. PICK c \in Rates!check(windows, i, Address) :
        /\ windows' = c[1] /\ asking' = asking
        /\ passed' = IF c[2] THEN [passed EXCEPT ![Address] = Rates!Hit(@)] ELSE passed
  BY DEF Rates!enforce_ip
<1>2. Address \in Rates!Subjects /\ Address # Organization
  BY LimitsAssumption DEF Rates!Subjects
<1>3. ChecksTo(windows, windows', Address, c[2]) /\ c[2] \in BOOLEAN
  BY <1>1, <1>2, CheckIs DEF RatesInv
<1>5. \A s \in Rates!Stores, k \in Rates!Subjects : Young(windows'[s][k], AuthWindow) <= Rates!Limit(k)
  BY <1>2, <1>3, ChecksAreLimited
<1>6. /\ passed' \in [Rates!Subjects -> [Rates!Ages -> Nat]]
      /\ \A k \in Rates!Subjects : passed'[k] = IF c[2] /\ k = Address THEN Rates!Hit(passed[k]) ELSE passed[k]
  <2>1. passed \in [Rates!Subjects -> [Rates!Ages -> Nat]] /\ Rates!Hit(passed[Address]) \in [Rates!Ages -> Nat]
    <3>1. 0 \in 0 .. AuthWindow
      BY LimitsAssumption
    <3>2. passed[Address] \in [Rates!Ages -> Nat]
      BY <1>2 DEF RatesInv
    <3> QED
      BY <3>1, <3>2, HitIsYoung DEF RatesInv
  <2> QED
    BY <1>1, <1>2, <2>1
<1>7. ASSUME NEW k \in Rates!Subjects, NEW j \in 0 .. AuthWindow
      PROVE  Young(passed'[k], j) + WaitingIn(asking', k) <= HeldIn(windows', k, j) + Slack(k)
  <2> DEFINE y == Young(passed[k], j)  x == Young(passed'[k], j)  n == WaitingIn(asking, k)
             h == HeldIn(windows, k, j)  g == HeldIn(windows', k, j)  z == Slack(k)
  <2>1. y \in Nat /\ h \in Nat /\ n \in Nat /\ z \in Nat /\ n <= z /\ y + n <= h + z
    BY RatesAre
  <2>3. h <= g /\ (c[2] /\ k = Address /\ j > 0 => h + 1 <= g)
    BY <1>2, <1>3, ChecksAreHeld DEF RatesInv
  <2>4. g \in Nat
    BY <1>3, HeldIsANumber DEF ChecksTo
  <2>5. asking' = asking
    BY <1>1
  <2>6. j = 0 => x = 0
    BY NoneIsYoung
  <2>7. j = 0 \/ j > 0
    OBVIOUS
  <2>8. passed[k] \in [Rates!Ages -> Nat]
    BY DEF RatesInv
  <2>9. j > 0 => x = IF c[2] /\ k = Address THEN y + 1 ELSE y
    <3>1. j > 0 => Young(Rates!Hit(passed[k]), j) = y + 1
      BY <2>8, HitIsYoung
    <3>2. passed'[k] = IF c[2] /\ k = Address THEN Rates!Hit(passed[k]) ELSE passed[k]
      BY <1>6
    <3> QED
      BY <3>1, <3>2
  <2> HIDE DEF y, x, n, h, g, z
  <2>10. x + n <= g + z
    BY <2>1, <2>3, <2>4, <2>6, <2>7, <2>9
  <2> QED
    BY <2>5, <2>10 DEF x, n, g, z
<1> QED
  BY <1>1, <1>3, <1>5, <1>6, <1>7 DEF RatesInv, ChecksTo

LEMMA TickStep ==
  ASSUME RatesInv, Rates!Tick
  PROVE  RatesInv'
<1>1. /\ windows \in [Rates!Stores -> [Rates!Subjects -> [Rates!Ages -> Nat]]]
      /\ passed \in [Rates!Subjects -> [Rates!Ages -> Nat]] /\ asking' = asking
      /\ windows' = [s \in Rates!Stores |-> [k \in Rates!Subjects |-> Rates!Older(k, windows[s][k])]]
      /\ passed' = [k \in Rates!Subjects |-> Rates!Older(k, passed[k])]
  BY DEF RatesInv, Rates!Tick
<1> DEFINE before(k, j) == IF j <= Rates!Length(k) THEN j - 1 ELSE Rates!Length(k) - 1
<1>0. AuthWindow \in 1 .. AuthWindow
  BY LimitsAssumption
<1>2. ASSUME NEW k \in Rates!Subjects, NEW f \in [Rates!Ages -> Nat]
      PROVE  /\ Rates!Older(k, f) \in [Rates!Ages -> Nat]
             /\ \A j \in 1 .. AuthWindow : Young(Rates!Older(k, f), j) = Young(f, before(k, j))
  BY <1>0, OlderIsYoung
<1>3. \A k : \A j \in 1 .. AuthWindow : before(k, j) \in 0 .. AuthWindow /\ before(k, j) <= AuthWindow
  <2>1. \A k : Rates!Length(k) \in Nat \ {0}
    BY LimitsAssumption DEF Rates!Length
  <2> QED
    BY <2>1, LimitsAssumption
<1> HIDE DEF before
<1>4. /\ windows' \in [Rates!Stores -> [Rates!Subjects -> [Rates!Ages -> Nat]]]
      /\ \A s \in Rates!Stores, k \in Rates!Subjects : windows'[s][k] = Rates!Older(k, windows[s][k])
  BY <1>1, <1>2
<1>5. /\ passed' \in [Rates!Subjects -> [Rates!Ages -> Nat]]
      /\ \A k \in Rates!Subjects : passed'[k] = Rates!Older(k, passed[k])
  BY <1>1, <1>2
<1>6. ASSUME NEW s \in Rates!Stores, NEW k \in Rates!Subjects
      PROVE  Young(windows'[s][k], AuthWindow) <= Rates!Limit(k)
  <2> DEFINE f == windows[s][k]  j == before(k, AuthWindow)
  <2>1. f \in [Rates!Ages -> Nat] /\ Young(f, AuthWindow) <= Rates!Limit(k)
    BY <1>1 DEF RatesInv
  <2>2. j \in 0 .. AuthWindow /\ AuthWindow \in 0 .. AuthWindow
    BY <1>0, <1>3
  <2>3. Young(windows'[s][k], AuthWindow) = Young(f, j)
    BY <1>0, <1>1, <1>2, <1>4
  <2> HIDE DEF f, j
  <2>4. Young(f, j) \in Nat /\ Young(f, AuthWindow) \in Nat /\ IsFiniteSet(Units(f, 0 .. AuthWindow - 1))
    BY <2>1, <2>2, YoungIsANumber
  <2>5. Units(f, 0 .. j - 1) \in SUBSET Units(f, 0 .. AuthWindow - 1)
    BY <2>2 DEF Units
  <2>6. Young(f, j) <= Young(f, AuthWindow)
    BY <2>4, <2>5, FS_Subset DEF Young
  <2> QED
    BY <2>1, <2>3, <2>4, <2>6, LimitsAreNumbers
<1>7. ASSUME NEW k \in Rates!Subjects, NEW j \in 0 .. AuthWindow
      PROVE  Young(passed'[k], j) + WaitingIn(asking', k) <= HeldIn(windows', k, j) + Slack(k)
  <2>1. HeldIn(windows', k, j) \in Nat
    BY <1>4, HeldIsANumber
  <2>2. WaitingIn(asking, k) \in Nat /\ Slack(k) \in Nat /\ WaitingIn(asking, k) <= Slack(k)
    BY RatesAre
  <2>3. CASE j = 0
    <3>1. Young(passed'[k], j) = 0
      BY <2>3, NoneIsYoung
    <3> QED
      BY <1>1, <2>1, <2>2, <3>1
  <2>4. CASE j # 0
    <3>1. j \in 1 .. AuthWindow
      BY <2>4
    <3>2. Young(passed'[k], j) = Young(passed[k], before(k, j))
      BY <1>1, <1>2, <1>5, <3>1
    <3>3. \A s \in Rates!Stores : Young(windows'[s][k], j) = Young(windows[s][k], before(k, j))
      BY <1>1, <1>2, <1>4, <3>1
    <3>4. [s \in Rates!Stores |-> Young(windows'[s][k], j)] = [s \in Rates!Stores |-> Young(windows[s][k], before(k, j))]
      BY <3>3
    <3>5. HeldIn(windows', k, j) = HeldIn(windows, k, before(k, j))
      BY <3>4 DEF HeldIn
    <3>6. before(k, j) \in 0 .. AuthWindow
      BY <1>3, <3>1
    <3>7. Young(passed[k], before(k, j)) + WaitingIn(asking, k) <= HeldIn(windows, k, before(k, j)) + Slack(k)
      BY <3>6, RatesAre
    <3> QED
      BY <1>1, <3>2, <3>5, <3>7
  <2> QED
    BY <2>3, <2>4
<1> QED
  BY <1>1, <1>4, <1>5, <1>6, <1>7 DEF RatesInv

LEMMA NextRates == RatesInv /\ [Rates!Next]_limitVars => RatesInv'
<1> SUFFICES ASSUME RatesInv, [Rates!Next]_limitVars PROVE RatesInv'
  OBVIOUS
<1>1. CASE UNCHANGED limitVars
  <2>1. windows' = windows /\ passed' = passed /\ asking' = asking
    BY <1>1 DEF limitVars
  <2> QED
    BY <2>1 DEF RatesInv
<1>2. CASE Rates!Next
  BY <1>2, TickStep, FirstCheckStep, SecondCheckStep, AttemptStep DEF Rates!Next
<1> QED
  BY <1>1, <1>2

\* What the invariant bounds: a store that has nothing on record lets nothing count.
LEMMA RatesSay ==
  ASSUME RatesInv
  PROVE  Rates!TypeOK /\ Rates!UsersAreLimited /\ Rates!OrganizationIsLimited /\ Rates!AttemptsAreLimited
<1>0. AuthWindow \in 0 .. AuthWindow
  BY LimitsAssumption
<1>7. \A k : \A n \in Nat : n * Cardinality(Rates!Counting(k)) \in Nat
  <2> SUFFICES ASSUME NEW k, NEW n \in Nat PROVE n * Cardinality(Rates!Counting(k)) \in Nat
    OBVIOUS
  <2>1. Rates!Counting(k) \in SUBSET Rates!Stores
    BY DEF Rates!Counting
  <2>2. Cardinality(Rates!Counting(k)) \in Nat
    BY <2>1, StoresFinite, FS_Subset, FS_CardinalityType
  <2>3. \A m \in Nat : n * m \in Nat
    OBVIOUS
  <2> QED
    BY <2>2, <2>3
<1>8. \A n \in Nat : n + 0 = n
  OBVIOUS
<1>1. ASSUME NEW k \in Rates!Subjects
      PROVE  Rates!Total(passed[k]) <= Rates!Limit(k) * Cardinality(Rates!Counting(k)) + Slack(k)
  <2> DEFINE f == [s \in Rates!Stores |-> Young(windows[s][k], AuthWindow)]
  <2>1. f \in [Rates!Stores -> Nat] /\ \A s \in Rates!Stores : f[s] <= Rates!Limit(k)
    BY <1>0, YoungIsANumber DEF RatesInv
  <2>2. HeldIn(windows, k, AuthWindow) = Cardinality(Units(f, Rates!Stores))
    BY DEF HeldIn
  <2>3. {s \in Rates!Stores : f[s] > 0} = Rates!Counting(k)
    <3>1. \A s \in Rates!Stores : f[s] = Rates!Total(windows[s][k])
      <4>1. \A s \in Rates!Stores : windows[s][k] \in [Rates!Ages -> Nat]
        BY DEF RatesInv
      <4>2. \A s \in Rates!Stores : Rates!Total(windows[s][k]) = Young(windows[s][k], AuthWindow)
        BY <4>1, AllAreYoung
      <4> QED
        BY <4>2
    <3> HIDE DEF f
    <3> QED
      BY <3>1 DEF Rates!Counting
  <2> HIDE DEF f
  <2>4. Cardinality(Units(f, Rates!Stores)) <= Rates!Limit(k) * Cardinality(Rates!Counting(k))
    BY <2>1, <2>3, StoresFinite, LimitsAreNumbers, CountIsBounded
  <2>5. /\ Rates!Total(passed[k]) = Young(passed[k], AuthWindow) /\ Young(passed[k], AuthWindow) \in Nat
        /\ HeldIn(windows, k, AuthWindow) \in Nat /\ WaitingIn(asking, k) \in Nat /\ Slack(k) \in Nat
        /\ Young(passed[k], AuthWindow) + WaitingIn(asking, k) <= HeldIn(windows, k, AuthWindow) + Slack(k)
    BY <1>0, RatesAre, AllAreYoung
  <2>6. Rates!Limit(k) * Cardinality(Rates!Counting(k)) \in Nat
    BY <1>7, LimitsAreNumbers
  <2>7. \A a, b, c, d, m \in Nat : a + b <= c + d /\ c <= m => a <= m + d
    OBVIOUS
  <2> QED
    BY <2>2, <2>4, <2>5, <2>6, <2>7
<1>2. \A S : Rates!Cardinality(S) = Cardinality(S)
  BY DEF Rates!Cardinality, Cardinality
<1>3. Rates!UsersAreLimited
  <2> SUFFICES ASSUME NEW u \in Members
               PROVE  Rates!Total(passed[u]) <= UserLimit * Cardinality(Rates!Counting(u))
    BY <1>2 DEF Rates!UsersAreLimited
  <2>1. u \in Rates!Subjects /\ Rates!Limit(u) = UserLimit /\ Slack(u) = 0
    BY LimitsAssumption DEF Rates!Subjects, Rates!Limit, Slack
  <2>2. UserLimit * Cardinality(Rates!Counting(u)) \in Nat
    BY <1>7, LimitsAssumption
  <2>3. Rates!Total(passed[u]) <= UserLimit * Cardinality(Rates!Counting(u)) + 0
    BY <1>1, <2>1
  <2> QED
    BY <1>8, <2>2, <2>3
<1>4. Rates!OrganizationIsLimited
  <2>1. Organization \in Rates!Subjects /\ Rates!Limit(Organization) = OrganizationLimit
          /\ Slack(Organization) = Cardinality(Asking)
    BY LimitsAssumption DEF Rates!Subjects, Rates!Limit, Slack
  <2> QED
    BY <1>1, <1>2, <2>1 DEF Rates!OrganizationIsLimited
<1>5. Rates!AttemptsAreLimited
  <2>1. Address \in Rates!Subjects /\ Rates!Limit(Address) = AddressLimit /\ Slack(Address) = 0
    BY LimitsAssumption DEF Rates!Subjects, Rates!Limit, Slack
  <2>2. AddressLimit * Cardinality(Rates!Counting(Address)) \in Nat
    BY <1>7, LimitsAssumption
  <2>3. Rates!Total(passed[Address]) <= AddressLimit * Cardinality(Rates!Counting(Address)) + 0
    BY <1>1, <2>1
  <2>4. Rates!Total(passed[Address]) <= AddressLimit * Cardinality(Rates!Counting(Address))
    BY <1>8, <2>2, <2>3
  <2> QED
    BY <1>2, <2>4 DEF Rates!AttemptsAreLimited
<1>6. Rates!TypeOK
  BY DEF RatesInv, Rates!TypeOK
<1> QED
  BY <1>3, <1>4, <1>5, <1>6

LEMMA HeaderIsIgnored == Rates!ClientCannotChoose
<1> SUFFICES ASSUME NEW n \in 0 .. 2, NEW forged \in [1 .. n -> {"a", "b"}], NEW trusted \in 1 .. 2
             PROVE  Rates!client_ip_of(forged \o [i \in 1 .. trusted |-> IF i = 1 THEN "client" ELSE "proxy"], trusted)
                      = "client"
  BY DEF Rates!ClientCannotChoose
<1> DEFINE seen == [i \in 1 .. trusted |-> IF i = 1 THEN "client" ELSE "proxy"]
           hops == forged \o seen
<1>1. forged \in Seq({"a", "b"}) /\ Len(forged) = n
  OBVIOUS
<1>2. seen \in Seq({"client", "proxy"}) /\ Len(seen) = trusted /\ seen[1] = "client"
  OBVIOUS
<1> HIDE DEF seen
<1>3. Len(hops) = n + trusted /\ hops[n + 1] = seen[1]
  BY <1>1, <1>2
<1> HIDE DEF hops
<1>4. Len(hops) + 1 - (IF trusted < Len(hops) THEN trusted ELSE Len(hops)) = n + 1
  BY <1>3
<1>5. Rates!client_ip_of(hops, trusted) = "client"
  BY <1>2, <1>3, <1>4 DEF Rates!client_ip_of
<1> QED
  BY <1>5 DEF hops, seen

-----------------------------------------------------------------------------
\* A handler at work has the lock, unless the lock's session was lost under it, and at
\* most one session has the lock.
LockInv ==
  /\ loop \in [Processes -> {"down", "asleep", "running", "returning"}]
  /\ holder \in SUBSET Processes /\ severed \in SUBSET Processes
  /\ \A p, q \in holder : p = q
  /\ \A p \in Processes : loop[p] \in {"running", "returning"} => p \in holder \/ p \in severed

LEMMA InitLock == Periodic!Init => LockInv
BY DEF Periodic!Init, LockInv

LEMMA NextLock == LockInv /\ [Periodic!Next]_schedulerVars => LockInv'
<1> SUFFICES ASSUME LockInv, [Periodic!Next]_schedulerVars PROVE LockInv'
  OBVIOUS
<1>1. CASE UNCHANGED schedulerVars
  BY <1>1 DEF schedulerVars, LockInv
<1>2. ASSUME NEW p \in Processes, Periodic!start(p) PROVE LockInv'
  BY <1>2 DEF Periodic!start, Periodic!To, LockInv
<1>3. ASSUME NEW p \in Processes, Periodic!run_once(p) PROVE LockInv'
  BY <1>3 DEF Periodic!run_once, Periodic!To, LockInv
<1>4. ASSUME NEW p \in Processes, Periodic!HandlerEnds(p) PROVE LockInv'
  BY <1>4 DEF Periodic!HandlerEnds, Periodic!To, LockInv
<1>5. ASSUME NEW p \in Processes, Periodic!Unlock(p) PROVE LockInv'
  BY <1>5 DEF Periodic!Unlock, Periodic!To, LockInv
<1>6. ASSUME NEW p \in Processes, Periodic!stop(p) PROVE LockInv'
  BY <1>6 DEF Periodic!stop, Periodic!To, LockInv
<1>7. ASSUME NEW p \in Processes, Periodic!SessionLost(p) PROVE LockInv'
  BY <1>7 DEF Periodic!SessionLost, LockInv
<1> QED
  BY <1>1, <1>2, <1>3, <1>4, <1>5, <1>6, <1>7 DEF Periodic!Next

LEMMA LockSays == LockInv => Periodic!TypeOK /\ Periodic!OneHandlerAtWork
<1> SUFFICES ASSUME LockInv PROVE Periodic!TypeOK /\ Periodic!OneHandlerAtWork
  OBVIOUS
<1>1. ASSUME NEW S, \A p, q \in S : p = q PROVE IsFiniteSet(S) /\ Cardinality(S) <= 1
  <2>1. CASE S = {}
    BY <2>1, FS_EmptySet
  <2>2. CASE S # {}
    <3>1. PICK p \in S : TRUE
      BY <2>2
    <3>2. S = {p}
      BY <1>1, <3>1
    <3>3. IsFiniteSet({p}) /\ Cardinality({p}) = 1
      BY FS_Singleton, Zenon
    <3> QED
      BY <3>2, <3>3
  <2> QED
    BY <2>1, <2>2
<1>2. \A S : Periodic!Cardinality(S) = Cardinality(S)
  BY DEF Periodic!Cardinality, Cardinality
<1>3. \A p, q \in Periodic!Running \ severed : p = q
  BY DEF LockInv, Periodic!Running
<1>4. Cardinality(holder) <= 1 /\ Cardinality(Periodic!Running \ severed) <= 1
  BY <1>1, <1>3 DEF LockInv
<1> QED
  BY <1>2, <1>4 DEF LockInv, Periodic!TypeOK, Periodic!OneHandlerAtWork

-----------------------------------------------------------------------------
\* The line of connections names none twice.
LineInv ==
  /\ line \in Seq(Connections) /\ \A i, j \in 1 .. Len(line) : line[i] = line[j] => i = j
  /\ recent \subseteq Daily!ToSet(line)
  /\ active \in SUBSET Connections /\ answering \in SUBSET Connections
  /\ due \in Seq(Connections)
  /\ started \in 0 .. Budget

LEMMA LineSays == LineInv => Daily!TypeOK
<1> SUFFICES ASSUME LineInv PROVE Daily!TypeOK
  OBVIOUS
<1> DEFINE n == Len(line)  mapped == Daily!ToSet(line)
<1>1. n \in Nat /\ line \in [1 .. n -> Connections] /\ DOMAIN line = 1 .. n
  BY DEF LineInv
<1>2. mapped \in SUBSET Connections /\ \A c : c \in mapped <=> \E i \in 1 .. n : line[i] = c
  BY <1>1 DEF Daily!ToSet
<1>3. Cardinality(mapped) = n
  <2>1. line \in Bijection(1 .. n, mapped)
    BY <1>1, <1>2 DEF LineInv, Bijection, Injection, Surjection, IsInjective
  <2>2. IsFiniteSet(1 .. n) /\ Cardinality(1 .. n) = n
    BY <1>1, FS_Interval
  <2> HIDE DEF n, mapped
  <2> QED
    BY <2>1, <2>2, FS_Bijection DEF ExistsBijection
<1>4. \A S : Daily!Cardinality(S) = Cardinality(S)
  BY DEF Daily!Cardinality, Cardinality
<1>5. line \in Daily!SetToSeqs(mapped)
  BY <1>1, <1>2, <1>3, <1>4 DEF LineInv, Daily!SetToSeqs
<1>6. Daily!ToSet(due) \subseteq Connections
  BY DEF LineInv, Daily!ToSet
<1> QED
  BY <1>2, <1>5, <1>6 DEF LineInv, Daily!TypeOK

LEMMA RefreshedLine ==
  ASSUME LineInv, NEW c \in Connections, Daily!Refreshed(c)
  PROVE  /\ line' \in Seq(Connections) /\ \A i, j \in 1 .. Len(line') : line'[i] = line'[j] => i = j
         /\ recent' \subseteq Daily!ToSet(line')
<1>1. line \in Seq(Connections) /\ Len(line) \in Nat /\ \A i, j \in 1 .. Len(line) : line[i] = line[j] => i = j
  BY DEF LineInv
<1>2. PICK rest \in Seq(Connections) :
        /\ line' = Append(rest, c) /\ c \notin {rest[i] : i \in 1 .. Len(rest)}
        /\ \A i, j \in 1 .. Len(rest) : rest[i] = rest[j] => i = j
        /\ {line[i] : i \in 1 .. Len(line)} \subseteq {rest[i] : i \in 1 .. Len(rest)} \cup {c}
  <2>1. CASE ~\E i \in 1 .. Len(line) : line[i] = c
    <3>1. line' = Append(line, c)
      BY <2>1 DEF Daily!Refreshed, Daily!RemoveFirst
    <3> QED
      BY <1>1, <2>1, <3>1
  <2>2. CASE \E i \in 1 .. Len(line) : line[i] = c
    <3>1. PICK n \in 1 .. Len(line) : line[n] = c
      BY <2>2
    <3> DEFINE I == {i \in 1 .. Len(line) : line[i] = c}
    <3>2. I = {n}
      BY <1>1, <3>1
    <3>3. Daily!Min(I) = n
      <4>1. \A m \in I : \A k \in I : m <= k
        BY <3>2
      <4> HIDE DEF I
      <4>2. (CHOOSE m \in I : \A k \in I : m <= k) \in I
        BY <3>2, <4>1
      <4> QED
        BY <3>2, <4>2 DEF Daily!Min
    <3>4. line' = Append(SubSeq(line, 1, n - 1) \o SubSeq(line, n + 1, Len(line)), c)
      BY <2>2, <3>2, <3>3 DEF Daily!Refreshed, Daily!RemoveFirst, Daily!SelectInSeq, Daily!RemoveAt
    <3> DEFINE a == SubSeq(line, 1, n - 1)  b == SubSeq(line, n + 1, Len(line))  rest == a \o b
    <3>5. a \in Seq(Connections) /\ Len(a) = n - 1 /\ \A i \in 1 .. n - 1 : a[i] = line[i]
      BY <1>1, <3>1
    <3>6. b \in Seq(Connections) /\ Len(b) = Len(line) - n /\ \A i \in 1 .. Len(line) - n : b[i] = line[i + n]
      BY <1>1, <3>1
    <3> HIDE DEF a, b
    <3>7. /\ rest \in Seq(Connections) /\ Len(rest) = Len(line) - 1
          /\ \A i \in 1 .. Len(rest) : rest[i] = IF i < n THEN line[i] ELSE line[i + 1]
      <4>1. rest \in Seq(Connections) /\ Len(rest) = Len(a) + Len(b)
        BY <3>5, <3>6, ConcatProperties
      <4>2. \A i \in 1 .. Len(a) + Len(b) : rest[i] = IF i <= Len(a) THEN a[i] ELSE b[i - Len(a)]
        BY <3>5, <3>6
      <4> HIDE DEF rest
      <4>3. ASSUME NEW i \in 1 .. Len(rest) PROVE rest[i] = IF i < n THEN line[i] ELSE line[i + 1]
        <5>1. CASE i < n
          BY <1>1, <3>1, <3>5, <3>6, <4>1, <4>2, <5>1
        <5>2. CASE ~(i < n)
          <6>1. i - (n - 1) \in 1 .. Len(line) - n /\ i - (n - 1) + n = i + 1
            BY <1>1, <3>1, <3>5, <3>6, <4>1, <5>2
          <6>2. rest[i] = b[i - (n - 1)]
            BY <1>1, <3>1, <3>5, <3>6, <4>1, <4>2, <5>2
          <6> QED
            BY <3>6, <5>2, <6>1, <6>2
        <5> QED
          BY <5>1, <5>2
      <4> QED
        BY <1>1, <3>1, <3>5, <3>6, <4>1, <4>3
    <3> HIDE DEF rest
    <3>8. c \notin {rest[i] : i \in 1 .. Len(rest)} /\ \A i, j \in 1 .. Len(rest) : rest[i] = rest[j] => i = j
      <4>1. Len(rest) + 1 = Len(line) /\ Len(rest) \in Nat /\ n \in Nat
        BY <1>1, <3>1, <3>7
      <4>2. ASSUME NEW i \in 1 .. Len(rest)
            PROVE  \E m \in 1 .. Len(line) : rest[i] = line[m] /\ m # n /\ m = (IF i < n THEN i ELSE i + 1)
        <5>1. CASE i < n
          BY <3>7, <4>1, <5>1
        <5>2. CASE ~(i < n)
          BY <3>7, <4>1, <5>2
        <5> QED BY <5>1, <5>2
      <4>3. ASSUME NEW i \in 1 .. Len(rest) PROVE rest[i] # c
        BY <1>1, <3>1, <4>2
      <4>4. ASSUME NEW i \in 1 .. Len(rest), NEW j \in 1 .. Len(rest), rest[i] = rest[j] PROVE i = j
        <5>1. PICK m \in 1 .. Len(line) : rest[i] = line[m] /\ m = (IF i < n THEN i ELSE i + 1)
          BY <4>2
        <5>2. PICK k \in 1 .. Len(line) : rest[j] = line[k] /\ k = (IF j < n THEN j ELSE j + 1)
          BY <4>2
        <5>3. m = k
          BY <1>1, <4>4, <5>1, <5>2
        <5> QED
          BY <4>1, <5>1, <5>2, <5>3
      <4> QED
        BY <4>3, <4>4
    <3>9. ASSUME NEW i \in 1 .. Len(line), line[i] # c PROVE line[i] \in {rest[j] : j \in 1 .. Len(rest)}
      <4>1. CASE i < n
        BY <3>1, <3>7, <4>1
      <4>2. CASE i > n
        <5>1. i - 1 \in 1 .. Len(rest) /\ rest[i - 1] = line[i]
          BY <3>1, <3>7, <4>2
        <5> QED
          BY <5>1
      <4> QED
        BY <3>1, <3>9, <4>1, <4>2
    <3>10. line' = Append(rest, c)
      BY <3>4 DEF rest, a, b
    <3>11. {line[i] : i \in 1 .. Len(line)} \subseteq {rest[i] : i \in 1 .. Len(rest)} \cup {c}
      BY <3>9
    <3>12. rest \in Seq(Connections)
      BY <3>7
    <3> QED
      BY <3>8, <3>10, <3>11, <3>12, Zenon
  <2> QED
    BY <2>1, <2>2
<1>3. Len(line') = Len(rest) + 1 /\ line' \in Seq(Connections) /\ DOMAIN line' = 1 .. Len(rest) + 1
        /\ line'[Len(rest) + 1] = c /\ \A i \in 1 .. Len(rest) : line'[i] = rest[i]
  BY <1>2
<1>4. \A i, j \in 1 .. Len(line') : line'[i] = line'[j] => i = j
  BY <1>2, <1>3
<1>5. recent' \subseteq Daily!ToSet(line) \cup {c}
  BY DEF LineInv, Daily!Refreshed
<1>6. Daily!ToSet(line) \subseteq {rest[i] : i \in 1 .. Len(rest)} \cup {c}
  <2>1. DOMAIN line = 1 .. Len(line)
    BY <1>1
  <2> QED
    BY <1>2, <2>1, Zenon DEF Daily!ToSet
<1>7. {rest[i] : i \in 1 .. Len(rest)} \cup {c} \subseteq Daily!ToSet(line')
  BY <1>2, <1>3 DEF Daily!ToSet
<1> QED
  BY <1>3, <1>4, <1>5, <1>6, <1>7

LEMMA InitLine == Daily!Init => LineInv
BY PassesAssumption DEF Daily!Init, LineInv, Daily!ToSet

LEMMA NextLine == LineInv /\ [Daily!Next]_passVars => LineInv'
<1> SUFFICES ASSUME LineInv, [Daily!Next]_passVars PROVE LineInv'
  OBVIOUS
<1>1. CASE UNCHANGED passVars
  BY <1>1 DEF passVars, LineInv, Daily!ToSet
<1>2. ASSUME NEW c \in Connections, Daily!Extract(c) PROVE LineInv'
  BY <1>2, RefreshedLine DEF Daily!Extract, LineInv
<1>3. ASSUME NEW c \in Connections, Daily!Toggle(c) \/ Daily!Server(c) PROVE LineInv'
  BY <1>3 DEF Daily!Toggle, Daily!Server, Daily!Toggled, LineInv, Daily!ToSet
<1>4. ASSUME Daily!AgePasses PROVE LineInv'
  BY <1>4 DEF Daily!AgePasses, LineInv, Daily!ToSet
<1>5. ASSUME Daily!refresh_due_connections PROVE LineInv'
  <2>1. PICK s : /\ due' = s /\ s \in Daily!SetToSeqs((Daily!ToSet(line) \cap active) \ recent)
                 /\ started' = 0 /\ UNCHANGED <<line, recent, active, answering>>
    BY <1>5 DEF Daily!refresh_due_connections
  <2>2. s \in Seq(Connections)
    <3> DEFINE S == (Daily!ToSet(line) \cap active) \ recent
    <3>1. S \in SUBSET Connections
      BY DEF LineInv
    <3>2. IsFiniteSet(S) /\ Cardinality(S) \in Nat
      BY <3>1, PassesAssumption, FS_Subset, FS_CardinalityType
    <3>3. Daily!Cardinality(S) = Cardinality(S)
      BY DEF Daily!Cardinality, Cardinality
    <3>4. s \in [1 .. Cardinality(S) -> S]
      BY <2>1, <3>3 DEF Daily!SetToSeqs
    <3> HIDE DEF S
    <3> DEFINE n == Cardinality(S)
    <3>5. n \in Nat /\ s \in [1 .. n -> Connections]
      BY <3>1, <3>2, <3>4
    <3> HIDE DEF n
    <3> QED
      BY <3>5
  <2> QED
    BY <2>1, <2>2, PassesAssumption DEF LineInv, Daily!ToSet
<1>6. ASSUME Daily!Attempt PROVE LineInv'
  <2>1. CASE started = Budget /\ due' = <<>> /\ UNCHANGED <<line, recent, started, active, answering>>
    BY <2>1 DEF LineInv, Daily!ToSet
  <2>2. CASE /\ started < Budget /\ started' = started + 1 /\ due' = Tail(due)
             /\ IF Daily!Reachable(Head(due)) THEN Daily!Refreshed(Head(due)) ELSE UNCHANGED <<line, recent>>
             /\ UNCHANGED <<active, answering>>
    <3>1. due \in Seq(Connections) /\ due # <<>>
      BY <1>6 DEF LineInv, Daily!Attempt
    <3>2. Head(due) \in Connections /\ Tail(due) \in Seq(Connections)
      BY <3>1
    <3>3. started' \in 0 .. Budget
      BY <2>2, PassesAssumption DEF LineInv
    <3>4. CASE Daily!Reachable(Head(due))
      <4>1. Daily!Refreshed(Head(due))
        BY <2>2, <3>4
      <4> QED
        BY <2>2, <3>2, <3>3, <4>1, RefreshedLine DEF LineInv
    <3>5. CASE ~Daily!Reachable(Head(due))
      BY <2>2, <3>2, <3>3, <3>5 DEF LineInv, Daily!ToSet
    <3> QED
      BY <3>4, <3>5
  <2> QED
    BY <1>6, <2>1, <2>2 DEF Daily!Attempt
<1> QED
  BY <1>1, <1>2, <1>3, <1>4, <1>5, <1>6 DEF Daily!Next

-----------------------------------------------------------------------------
\* The other parts of the composition leave these three alone.
LEMMA HousekeepingComposes ==
  [MCNext]_MCvars => [Rates!Next]_limitVars /\ [Periodic!Next]_schedulerVars /\ [Daily!Next]_passVars
BY DEF MCNext, MCvars, OnlyGateway, OnlyWorker, OnlyFiles, OnlyRates, OnlyPeriodic, OnlyDaily, OnlyHousekeeping,
   housekeepingVars, limitVars, schedulerVars, passVars

\* Users and organizations get no more requests through than their limits in any
\* window, once per store that had to count them and but for requests between their
\* two checks, an address no more attempts (enforce, enforce_ip, _sweep); of a task's
\* handlers at work at most one did not lose its lock's session (_run_once).
THEOREM LimitsStayKept == MCSpec => []LimitsHold
<1> DEFINE Inv == RatesInv /\ LockInv /\ LineInv
<1>1. MCInit => Inv
  BY InitRates, InitLock, InitLine DEF MCInit
<1>2. Inv /\ [MCNext]_MCvars => Inv'
  BY HousekeepingComposes, NextRates, NextLock, NextLine
<1>3. Inv => LimitsHold
  BY RatesSay, HeaderIsIgnored, LockSays, LineSays DEF LimitsHold
<1> QED
  BY <1>1, <1>2, <1>3, PTL DEF MCSpec
=============================================================================

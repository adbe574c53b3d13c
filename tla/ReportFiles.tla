---------------------------- MODULE ReportFiles ----------------------------
(***************************************************************************)
(* The files of report automation: workbooks people upload, the reports    *)
(* that use them, and the artifacts executions leave behind.  Rows live in *)
(* Postgres; bytes live in Postgres too, or in S3 when a bucket is         *)
(* configured.  What is put in or deleted from S3 stays so whatever        *)
(* becomes of the transaction around it.                                   *)
(***************************************************************************)
EXTENDS Naturals

CONSTANTS Workbooks, Reports, Executions, Formats,
          Contents,  \* what a file may hold
          Requests,  \* API requests in progress
          Absent,    \* no row, no workbook
          MaxRefs    \* bound: references ever handed out

VARIABLES
  bucket,    \* S3_BUCKET is set
  used,      \* references handed out
  blobs,     \* the bytes in Postgres, by reference
  objects,   \* the bytes in S3, by reference
  workbook,  \* per workbook: its row
  report,    \* per report: its definition
  execution, \* per execution: its status and workbook
  artifact,  \* per execution and format: its row
  request,   \* what each open request is about to do
  torn       \* workbooks whose deletion the foreign key refused too late

vars == <<bucket, used, blobs, objects, workbook, report, execution, artifact, request, torn>>
storage == <<used, blobs, objects, torn>>

Refs == [scheme : {"db", "s3"}, id : 1..MaxRefs]
Files == [ref : Refs, sum : Contents]
ReportRows == [workbook : Workbooks, status : {"active", "paused", "archived"}]
ExecutionRows == [workbook : Workbooks \cup {Absent}, status : {"queued", "leased", "over"}]
Idle == [op |-> "idle"]

TypeOK ==
  /\ bucket \in BOOLEAN /\ used \in 0..MaxRefs
  /\ DOMAIN blobs \subseteq Refs /\ DOMAIN objects \subseteq Refs
  /\ workbook \in [Workbooks -> Files \cup {Absent}]
  /\ report \in [Reports -> ReportRows \cup {Absent}]
  /\ execution \in [Executions -> ExecutionRows \cup {Absent}]
  /\ artifact \in [Executions \X Formats -> Files \cup {Absent}]
  /\ \A q \in Requests : request[q].op \in {"idle", "delete", "deleted", "upload"}
  /\ torn \subseteq Workbooks

Init ==
  /\ bucket \in BOOLEAN
  /\ used = 0 /\ blobs = << >> /\ objects = << >>
  /\ workbook = [w \in Workbooks |-> Absent]
  /\ report = [r \in Reports |-> Absent]
  /\ execution = [e \in Executions |-> Absent]
  /\ artifact = [p \in Executions \X Formats |-> Absent]
  /\ request = [q \in Requests |-> Idle]
  /\ torn = {}

-----------------------------------------------------------------------------
(* StorageBackend: the one configured now, whatever a reference says.      *)

NewRef == [scheme |-> IF bucket THEN "s3" ELSE "db", id |-> used + 1]

Added(f, ref, c) == [r \in DOMAIN f \cup {ref} |-> IF r = ref THEN c ELSE f[r]]

\* S3StorageBackend.put: the object is there at once, whatever the transaction does.
PutObject(c) == objects' = Added(objects, NewRef, c) /\ UNCHANGED blobs

\* DatabaseStorageBackend.put.
PutBlob(c) == blobs' = Added(blobs, NewRef, c) /\ UNCHANGED objects

Put(c) ==
  /\ used < MaxRefs /\ used' = used + 1
  /\ IF bucket THEN PutObject(c) ELSE PutBlob(c)

\* get: S3StorageBackend finds no db:// reference, DatabaseStorageBackend no
\* s3:// one.
Held(ref) == ref \in DOMAIN (IF bucket THEN objects ELSE blobs)

\* get_content: the checksum is compared on the way out.
Served(file) == Held(file.ref) /\ (IF bucket THEN objects ELSE blobs)[file.ref] = file.sum

Drop(f, ref) == [r \in DOMAIN f \ {ref} |-> f[r]]

-----------------------------------------------------------------------------
(* Workbooks and reports.                                                  *)

\* WorkbookService.upload, of a file or of one put in S3 first; every upload is
\* a row of its own.
UploadWorkbook(w, c) ==
  /\ workbook[w] = Absent /\ Put(c)
  /\ workbook' = [workbook EXCEPT ![w] = [ref |-> NewRef, sum |-> c]]
  /\ UNCHANGED <<bucket, report, execution, artifact, request, torn>>

Users(w) == {r \in Reports : report[r] # Absent /\ report[r].workbook = w}

\* delete, up to its check that no report uses the workbook.
BeginDelete(q, w) ==
  /\ request[q] = Idle /\ workbook[w] # Absent /\ Users(w) = {}
  /\ request' = [request EXCEPT ![q] = [op |-> "delete", what |-> w]]
  /\ UNCHANGED <<bucket, storage, workbook, report, execution, artifact>>

\* The bytes go first.  An S3 object is gone at once (or stays, if S3 fails); a
\* blob goes with the transaction, and neither backend deletes the other's.
DeleteBytes_RowStays(q) ==
  /\ request[q].op = "delete" /\ workbook[request[q].what] # Absent
  /\ request' = [request EXCEPT ![q] = Idle]
  /\ objects' = Drop(objects, workbook[request[q].what].ref)
  /\ UNCHANGED <<bucket, used, blobs, workbook, report, execution, artifact, torn>>

DeleteBytes(q) ==
  /\ request[q].op = "delete"
  /\ request' = [request EXCEPT ![q].op = "deleted"]
  /\ LET w == request[q].what IN
       objects' \in IF bucket /\ workbook[w] # Absent
                    THEN {objects, Drop(objects, workbook[w].ref)} ELSE {objects}
  /\ UNCHANGED <<bucket, used, blobs, workbook, report, execution, artifact, torn>>

\* Then the row: a report created meanwhile makes the foreign key refuse it, an
\* execution's reference is set to null.
CommitDelete(q) ==
  LET w == request[q].what IN
  /\ request[q].op = "deleted"
  /\ IF Users(w) # {} \/ workbook[w] = Absent
     THEN UNCHANGED <<blobs, workbook, execution>>
     ELSE /\ blobs' = IF bucket THEN blobs ELSE Drop(blobs, workbook[w].ref)
          /\ workbook' = [workbook EXCEPT ![w] = Absent]
          /\ execution' = [e \in Executions |->
               IF execution[e] # Absent /\ execution[e].workbook = w
               THEN [execution[e] EXCEPT !.workbook = Absent] ELSE execution[e]]
  /\ torn' = IF Users(w) # {} /\ bucket THEN torn \cup {w} ELSE torn
  /\ request' = [request EXCEPT ![q] = Idle]
  /\ UNCHANGED <<bucket, used, objects, report, artifact>>

\* ReportService.create and update: the workbook is looked up in the
\* organization, an archived report can still be changed.
SaveReport(r, w) ==
  /\ workbook[w] # Absent
  /\ report' = [report EXCEPT ![r] =
       [workbook |-> w, status |-> IF report[r] = Absent THEN "active" ELSE report[r].status]]
  /\ UNCHANGED <<bucket, storage, workbook, execution, artifact, request>>

\* set_status and archive: any status follows any other.
SetStatus(r, s) ==
  /\ report[r] # Absent /\ report[r].status # s
  /\ report' = [report EXCEPT ![r].status = s]
  /\ UNCHANGED <<bucket, storage, workbook, execution, artifact, request>>

\* run_now: the execution takes the workbook of the moment.
RunNow(e, r) ==
  /\ execution[e] = Absent /\ report[r] # Absent /\ report[r].status = "active"
  /\ execution' = [execution EXCEPT ![e] = [workbook |-> report[r].workbook, status |-> "queued"]]
  /\ UNCHANGED <<bucket, storage, workbook, report, artifact, request>>

\* A worker takes the execution, which needs its workbook (claim_job), and some
\* time later it is over.
Advance(e) ==
  /\ execution[e] # Absent
  /\ \/ /\ execution[e].status = "queued" /\ execution[e].workbook # Absent
        /\ execution' = [execution EXCEPT ![e].status = "leased"]
     \/ /\ execution[e].status = "leased"
        /\ execution' = [execution EXCEPT ![e].status = "over"]
  /\ UNCHANGED <<bucket, storage, workbook, report, artifact, request>>

-----------------------------------------------------------------------------
(* Artifacts.                                                              *)

\* upload_artifact and record_upload, up to its look for an artifact already
\* there: the same bytes again are a retry, others a conflict, and nothing is
\* stored for either.
BeginUpload(q, e, f, c) ==
  /\ request[q] = Idle
  /\ execution[e] # Absent /\ execution[e].status = "leased"
  /\ artifact[<<e, f>>] = Absent
  /\ request' = [request EXCEPT ![q] = [op |-> "upload", what |-> <<e, f>>, sum |-> c]]
  /\ UNCHANGED <<bucket, storage, workbook, report, execution, artifact>>

\* The bytes are stored and the row inserted; if another upload was faster the
\* unique key refuses the row, and an S3 object is left that no row names.
CommitUpload_LastWins(q) ==
  LET p == request[q].what IN
  /\ request[q].op = "upload" /\ Put(request[q].sum)
  /\ artifact' = [artifact EXCEPT ![p] = [ref |-> NewRef, sum |-> request[q].sum]]
  /\ request' = [request EXCEPT ![q] = Idle]
  /\ UNCHANGED <<bucket, workbook, report, execution, torn>>

CommitUpload(q) ==
  LET p == request[q].what IN
  /\ request[q].op = "upload"
  /\ IF artifact[p] = Absent
     THEN /\ Put(request[q].sum)
          /\ artifact' = [artifact EXCEPT ![p] = [ref |-> NewRef, sum |-> request[q].sum]]
     ELSE IF bucket THEN Put(request[q].sum) /\ UNCHANGED artifact
          ELSE UNCHANGED <<used, blobs, objects, artifact>>
  /\ request' = [request EXCEPT ![q] = Idle]
  /\ UNCHANGED <<bucket, workbook, report, execution, torn>>

\* The deployment is given a bucket, or loses it; nothing else is in progress.
Configure ==
  /\ \A q \in Requests : request[q] = Idle
  /\ bucket' = ~bucket
  /\ UNCHANGED <<storage, workbook, report, execution, artifact, request>>

\* The endpoints under /reports/workbooks, /worker/jobs/{id}/artifacts and /reports.
WorkbookRequest ==
  \/ \E q \in Requests : DeleteBytes(q) \/ CommitDelete(q) \/ \E w \in Workbooks : BeginDelete(q, w)
  \/ \E w \in Workbooks, c \in Contents : UploadWorkbook(w, c)

ArtifactRequest(q) ==
  CommitUpload(q) \/ \E e \in Executions, f \in Formats, c \in Contents : BeginUpload(q, e, f, c)

ReportRequest(r) ==
  \/ \E w \in Workbooks : SaveReport(r, w)
  \/ \E s \in {"active", "paused", "archived"} : SetStatus(r, s)
  \/ \E e \in Executions : RunNow(e, r)

Next ==
  \/ WorkbookRequest
  \/ \E q \in Requests : ArtifactRequest(q)
  \/ \E r \in Reports : ReportRequest(r)
  \/ \E e \in Executions : Advance(e)

Spec == Init /\ [][Next]_vars

-----------------------------------------------------------------------------
\* However deletions and edits overlap, a report's workbook exists: what the
\* console shows can be run (the check of delete, and ON DELETE RESTRICT).
ReportsHaveWorkbooks == \A r \in Reports : report[r] # Absent => workbook[report[r].workbook] # Absent

\* Two uploads for one execution and format, whatever their bytes and however
\* they overlap, leave what the first one recorded (record_upload: "different
\* content under the same slot is a conflict, not a retry").
FirstArtifactStays ==
  \A p \in DOMAIN artifact : artifact[p] # Absent => artifact'[p] = artifact[p]

\* Every row has its bytes: no download of a listed workbook or artifact fails
\* and none is served altered, whichever store is used and whatever S3 refuses.
\* The exceptions are a workbook whose deletion is between its two halves, and
\* one a report was pointed at in that moment.
RowsHaveBytes ==
  LET Going(w) == \E q \in Requests : request[q].op = "deleted" /\ request[q].what = w IN
  /\ \A p \in DOMAIN artifact : artifact[p] # Absent => Served(artifact[p])
  /\ \A w \in Workbooks \ torn : workbook[w] # Absent /\ ~Going(w) => Served(workbook[w])

\* A file that is served today is served after the next deployment ("switching
\* backends does not orphan existing rows").
SwitchKeepsFiles ==
  \A p \in DOMAIN artifact : artifact[p] # Absent /\ Served(artifact[p]) => Served(artifact[p])'
=============================================================================

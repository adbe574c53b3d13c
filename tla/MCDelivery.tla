----------------------------- MODULE MCDelivery -----------------------------
(***************************************************************************)
(* The parts of the system outside the backend's processes, the files they *)
(* leave behind, and what keeps the backend's processes going: the gateway *)
(* relay, the report worker, the storage of reports, the rate limits, the  *)
(* scheduler and the daily passes over the connections.  They do not       *)
(* depend on one another: `part` is the one that moves in a behaviour.     *)
(* The worker's own names are those of WorkerProcess.                      *)
(***************************************************************************)
EXTENDS WorkerProcess, TLC

CONSTANTS Requests, Listed, Threads, None, MaxParts, MaxVersion,     \* GatewayRelay
          Workbooks, Reports, Executions, Contents, Absent, MaxRefs, \* ReportFiles
          Members, Organization, Address, Instances, Store, UserLimit,
          OrganizationLimit, AddressLimit, Window, AuthWindow, Asking, \* RateLimits
          Processes,                                                 \* Scheduler
          Connections, Budget                                        \* DailyPass

ASSUME MaxRefsAssumption == MaxRefs \in Nat

\* Limits and windows are settings, numbers of requests and of seconds; a subject is a
\* user, the organization or an address, a store an instance's memory or the shared one.
ASSUME LimitsAssumption ==
  /\ UserLimit \in Nat /\ OrganizationLimit \in Nat /\ AddressLimit \in Nat
  /\ Window \in Nat \ {0} /\ AuthWindow \in Nat \ {0}
  /\ Organization # Address /\ {Organization, Address} \cap Members = {}
  /\ IsFiniteSet(Instances) /\ Store \notin Instances
  /\ IsFiniteSet(Asking)

\* The connections of a pass are rows of a table, its budget a number of them.
ASSUME PassesAssumption == IsFiniteSet(Connections) /\ Budget \in Nat

VARIABLES part,
          shared, queue, answers, caller, received, carried, thread, version, key, linked,
          bucket, used, blobs, objects, workbook, report, execution, artifact, request, torn,
          windows, passed, asking,
          loop, holder, severed,
          line, recent, active, answering, due, started

Gateway == INSTANCE GatewayRelay
Files == INSTANCE ReportFiles
Rates == INSTANCE RateLimits
Periodic == INSTANCE Scheduler
Daily == INSTANCE DailyPass

gatewayVars == <<shared, queue, answers, caller, received, carried, thread, version, key, linked>>
filesVars == <<bucket, used, blobs, objects, workbook, report, execution, artifact, request, torn>>
limitVars == <<windows, passed, asking>>
schedulerVars == <<loop, holder, severed>>
passVars == <<line, recent, active, answering, due, started>>
MCvars == <<part, gatewayVars, vars, filesVars, limitVars, schedulerVars, passVars>>

\* A component that does not move has one initial state.
MCInit ==
  /\ part \in {"gateway", "worker", "files", "rates", "periodic", "daily"}
  /\ Gateway!Init /\ Init /\ Files!Init
  /\ Rates!Init /\ Periodic!Init /\ Daily!Init
  /\ part # "gateway" => shared
  /\ part # "files" => bucket

housekeepingVars == <<limitVars, schedulerVars, passVars>>
OnlyGateway == part = "gateway" /\ UNCHANGED <<part, vars, filesVars, housekeepingVars>>
OnlyWorker == part = "worker" /\ UNCHANGED <<part, gatewayVars, filesVars, housekeepingVars>>
OnlyFiles == part = "files" /\ UNCHANGED <<part, gatewayVars, vars, housekeepingVars>>
OnlyHousekeeping == UNCHANGED <<part, gatewayVars, vars, filesVars>>
OnlyRates == part = "rates" /\ OnlyHousekeeping /\ UNCHANGED <<schedulerVars, passVars>>
OnlyPeriodic == part = "periodic" /\ OnlyHousekeeping /\ UNCHANGED <<limitVars, passVars>>
OnlyDaily == part = "daily" /\ OnlyHousekeeping /\ UNCHANGED <<limitVars, schedulerVars>>

MCNext ==
  \/ OnlyGateway /\ Gateway!Next
  \/ OnlyWorker /\ Next
  \/ OnlyFiles /\ Files!Next
  \/ OnlyRates /\ Rates!Next
  \/ OnlyPeriodic /\ Periodic!Next
  \/ OnlyDaily /\ Daily!Next

\* The fairness of each component, of the one that moves.
MCFairness ==
  /\ \A t \in Threads : /\ WF_gatewayVars(OnlyGateway /\ Gateway!Poll(t))
                        /\ SF_gatewayVars(OnlyGateway /\ Gateway!Take(t))
                        /\ WF_gatewayVars(OnlyGateway /\ Gateway!Forward(t))
                        /\ WF_gatewayVars(OnlyGateway /\ (Gateway!Post(t) \/ Gateway!PostFails(t)))
  /\ WF_vars(OnlyWorker /\ LoopStep)
  /\ WF_vars(OnlyWorker /\ Deadline)
  /\ \A p \in Processes : /\ WF_schedulerVars(OnlyPeriodic /\ Periodic!start(p))
                          /\ WF_schedulerVars(OnlyPeriodic /\ Periodic!run_once(p))
                          /\ WF_schedulerVars(OnlyPeriodic /\ Periodic!HandlerEnds(p))
                          /\ WF_schedulerVars(OnlyPeriodic /\ Periodic!Unlock(p))
  /\ WF_passVars(OnlyDaily /\ Daily!AgePasses)
  /\ WF_passVars(OnlyDaily /\ Daily!refresh_due_connections)
  /\ WF_passVars(OnlyDaily /\ Daily!Attempt)

MCSpec == MCInit /\ [][MCNext]_MCvars /\ MCFairness

-----------------------------------------------------------------------------
\* TM1 is asked to do a relayed request at most once and never one off the allow-list,
\* and a caller told that TM1 answered has the whole answer of a request TM1 carried
\* out, every part once and in order (pop_request, Gateway.forward, pop_answer, relay);
\* a connection always names a gateway that exists (TM1GatewayService.delete).
RelayedOnceAndWhole == Gateway!RelayedOnceAndWhole

\* Every workbook and artifact row has its bytes, unaltered, and a report's workbook
\* exists, whatever S3 refuses and requests overlap (storage, WorkbookService.delete).
RowsHaveBytes == Files!TypeOK /\ Files!RowsHaveBytes /\ Files!ReportsHaveWorkbooks

\* Overlapping uploads for one execution and format leave the first one's artifact
\* (record_upload), and parts of an answer arrive only while the gateway program holds
\* the current key (authenticate).
DeliveredForGood ==
  [][/\ part = "files" => Files!FirstArtifactStays
     /\ part = "gateway" => Gateway!OldKeyDeliversNothing]_MCvars

\* Users and organizations get no more requests through than their limits in any
\* window, once per store that had to count them and but for requests between their
\* two checks; an address gets no more attempts, although memory is swept by requests
\* with a shorter window, and what a client writes into the header never decides the
\* address it is limited by (enforce, enforce_ip, _sweep, client_ip_of).  Of a task's
\* handlers at work at most one did not lose its lock's session (_run_once).
LimitsHold ==
  /\ part = "rates" => /\ Rates!TypeOK /\ Rates!UsersAreLimited /\ Rates!OrganizationIsLimited
                       /\ Rates!AttemptsAreLimited /\ Rates!ClientCannotChoose
  /\ part = "periodic" => Periodic!TypeOK /\ Periodic!OneHandlerAtWork
  /\ part = "daily" => Daily!TypeOK

\* Work goes on.  A gateway whose key is good from some moment on hands out every queued
\* request; the worker comes back to polling or stops, also when Excel never returns;
\* while some process stays up a task is run again and again (_loop); every healthy
\* connection is refreshed again and again, as long as the servers that do not answer
\* leave room in the budget (refresh_due_connections).
WorkGoesOn ==
  /\ Gateway!QueueDrains
  /\ BackToPolling
  /\ part = "periodic" => Periodic!TaskRunsAgain
  /\ part = "daily" => Daily!HealthyIsRefreshed

\* With the storage configuration changing between deployments.
SwitchSpec == MCInit /\ [][MCNext \/ (OnlyFiles /\ Files!Configure)]_MCvars

\* A file that is served today is served after the next deployment ("switching
\* backends does not orphan existing rows").
SwitchKeepsFiles == [][Files!SwitchKeepsFiles]_filesVars
=============================================================================

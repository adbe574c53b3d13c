--------------------------- MODULE TM1Connections ---------------------------
(***************************************************************************)
(* The use of one TM1 connection by many requests of one API process: the  *)
(* row of tm1_connections, the client TM1ConnectionManager caches for it,  *)
(* and the circuit breaker call_with_resilience keeps for it.              *)
(*                                                                         *)
(* Requests are coroutines of one event loop: what one does between two    *)
(* awaits is one step.  A request works on the row it read, which others   *)
(* may have changed since, and holds on to the client and the breaker it   *)
(* was given although invalidate may have dropped both.                    *)
(***************************************************************************)
EXTENDS Integers

CONSTANTS Callers,     \* requests that use the connection
          Sessions,    \* the sessions the TM1 server has room for
          None,
          MaxConfigs,  \* bound: configurations the connection ever has
          MaxRetries,  \* TM1_MAX_RETRIES
          Threshold    \* TM1_CIRCUIT_BREAKER_THRESHOLD

ASSUME ConnectionsAssumption ==
  MaxConfigs \in Nat \ {0} /\ MaxRetries \in Nat /\ Threshold \in Nat \ {0}

VARIABLES row,       \* the committed row
          edit,      \* the row an administrator's open transaction will commit
          client,    \* _clients[id]: a session, or None
          opened,    \* the configuration each session was opened with, 0 when there is none
          ending,    \* sessions whose logout is still to run
          breaker,   \* _breakers[id]: a CircuitBreaker, or None
          reports,   \* the requests whose call in progress was let through by it
          call,      \* each request
          up         \* whether TM1 answers

vars == <<row, edit, client, opened, ending, breaker, reports, call, up>>

Present == [config : 1 .. MaxConfigs, suspended : BOOLEAN]
Deleted == [config |-> 0, suspended |-> FALSE]
Rows    == Present \cup {Deleted}

\* "cooled": OPEN, and cooldown_seconds have passed since opened_at.
States   == {"closed", "open", "cooled", "half_open"}
Breakers == [state : States, failures : 0 .. Threshold]
Fresh    == [state |-> "closed", failures |-> 0]

ASSUME NoneAssumption == None \notin Sessions /\ None \notin Breakers

Idle  == [at |-> "idle"]
Steps == {"loaded", "resolving", "ready", "connecting", "calling"}
Busy  == [at : Steps, test : BOOLEAN, view : Present, holds : Sessions \cup {None},
          tries : 0 .. MaxRetries]

TypeOK ==
  /\ row \in Rows
  /\ edit \in Rows \cup {None}
  /\ client \in Sessions \cup {None}
  /\ opened \in [Sessions -> 0 .. MaxConfigs]
  /\ ending \subseteq Sessions
  /\ breaker \in Breakers \cup {None}
  /\ reports \subseteq Callers
  /\ call \in [Callers -> Busy \cup {Idle}]
  /\ up \in BOOLEAN

Init ==
  /\ row = [config |-> 1, suspended |-> FALSE]
  /\ edit = None
  /\ client = None
  /\ opened = [s \in Sessions |-> 0]
  /\ ending = {}
  /\ breaker = None
  /\ reports = {}
  /\ call = [c \in Callers |-> Idle]
  /\ up = TRUE

-----------------------------------------------------------------------------
\* Sessions nothing refers to; a new one is one of these.
FreeSessions ==
  {s \in Sessions : opened[s] = 0 /\ s # client /\ \A c \in Callers : call[c] # Idle => call[c].holds # s}

At(c, step) == call[c] # Idle /\ call[c].at = step

\* Mutant: the client stays cached after its logout was scheduled.
Invalidate_KeepsClient ==
  /\ client' = client
  /\ ending' = IF client = None THEN ending ELSE ending \cup {client}
  /\ breaker' = None /\ reports' = {}

\* TM1ConnectionManager.invalidate.  Calls in progress go on reporting to the
\* removed breaker, which nothing consults any more.
Invalidate ==
  /\ client' = None
  /\ ending' = IF client = None THEN ending ELSE ending \cup {client}
  /\ breaker' = None /\ reports' = {}

(***************************************************************************)
(* CircuitBreaker.  The failure count is kept up to the threshold, which   *)
(* is all it is compared with.                                             *)
(***************************************************************************)
record_success(b) == Fresh

record_failure(b) ==
  LET n == IF b.failures < Threshold THEN b.failures + 1 ELSE Threshold
  IN  [state |-> IF b.state = "half_open" \/ n >= Threshold THEN "open" ELSE b.state, failures |-> n]

\* Mutant: an open breaker never lets a call through again.
Refuses_ForGood(b) == b # None /\ b.state \in {"open", "cooled"}

Refuses(b) == b # None /\ b.state = "open"

\* get_circuit_breaker and before_call, when the call is let through.
Admitting(b) ==
  IF b = None THEN Fresh
  ELSE IF b.state = "cooled" THEN [b EXCEPT !.state = "half_open"]
  ELSE b

\* The call of a request ends and is recorded in the breaker it began with.
Record(c, recorded) ==
  /\ breaker' = IF c \in reports THEN recorded ELSE breaker
  /\ reports' = reports \ {c}

\* A request ends with an error and leaves the breaker as "recorded";
\* diagnose_connection then drops all that is cached.
Raise(c, recorded) ==
  /\ call' = [call EXCEPT ![c] = Idle]
  /\ IF call[c].test THEN Invalidate
     ELSE Record(c, recorded) /\ UNCHANGED <<client, ending>>

-----------------------------------------------------------------------------
(***************************************************************************)
(* A request: read the row, get a client, make calls with it.              *)
(***************************************************************************)
\* get_connection; "test" is diagnose_connection.
Load(c, test) ==
  /\ call[c] = Idle
  /\ row # Deleted
  /\ call' = [call EXCEPT ![c] = [at |-> "loaded", test |-> test, view |-> row,
                                  holds |-> None, tries |-> 0]]
  /\ UNCHANGED <<row, edit, client, opened, ending, breaker, reports, up>>

\* get_client on a suspended row, as it was read.
RefuseSuspended(c) ==
  /\ At(c, "loaded") /\ call[c].view.suspended
  /\ Invalidate
  /\ call' = [call EXCEPT ![c] = Idle]
  /\ UNCHANGED <<row, edit, opened, up>>

MayUse(view) == ~view.suspended

\* get_client: the cached client, or a login that resolves the host first.
GetClient(c) ==
  /\ At(c, "loaded") /\ MayUse(call[c].view)
  /\ call' = [call EXCEPT ![c].at = IF client = None THEN "resolving" ELSE "ready", ![c].holds = client]
  /\ UNCHANGED <<row, edit, client, opened, ending, breaker, reports, up>>

\* _refuse_private_destination raises.
RefusePrivate(c) ==
  /\ At(c, "resolving")
  /\ Raise(c, breaker)
  /\ UNCHANGED <<row, edit, opened, up>>

\* call_with_resilience begins, for the login or for a call on the client;
\* writes are not retried.
StartCall(c, tries) ==
  /\ At(c, "resolving") \/ At(c, "ready")
  /\ At(c, "resolving") => tries = MaxRetries
  /\ ~Refuses(breaker)
  /\ breaker' = Admitting(breaker)
  /\ reports' = reports \cup {c}
  /\ call' = [call EXCEPT ![c].at = IF At(c, "resolving") THEN "connecting" ELSE "calling",
                          ![c].tries = tries]
  /\ UNCHANGED <<row, edit, client, opened, ending, up>>

\* before_call raises.
RefuseOpen(c) ==
  /\ At(c, "resolving") \/ At(c, "ready")
  /\ Refuses(breaker)
  /\ Raise(c, breaker)
  /\ UNCHANGED <<row, edit, opened, up>>

\* The login succeeds and its client is cached over whatever is there.
Connected(c, s) ==
  /\ At(c, "connecting") /\ up
  /\ s \in FreeSessions
  /\ opened' = [opened EXCEPT ![s] = call[c].view.config]
  /\ client' = s
  /\ Record(c, record_success(breaker))
  /\ call' = [call EXCEPT ![c].at = "ready", ![c].holds = s, ![c].tries = 0]
  /\ UNCHANGED <<row, edit, ending, up>>

Answered(c) ==
  /\ At(c, "calling") /\ up
  /\ Record(c, record_success(breaker))
  /\ call' = [call EXCEPT ![c].at = "ready", ![c].tries = 0]
  /\ UNCHANGED <<row, edit, client, opened, ending, up>>

\* TM1 answers with a status below 500: raised at once, nothing recorded.
Rejected(c) ==
  /\ At(c, "connecting") \/ At(c, "calling")
  /\ up
  /\ Raise(c, breaker)
  /\ UNCHANGED <<row, edit, opened, up>>

\* No answer, or a 5xx, with attempts left: sleep and try again.
Retry(c) ==
  /\ At(c, "connecting") \/ At(c, "calling")
  /\ ~up /\ call[c].tries > 0
  /\ call' = [call EXCEPT ![c].tries = @ - 1]
  /\ UNCHANGED <<row, edit, client, opened, ending, breaker, reports, up>>

\* The last attempt fails, or the gateway reports a failure on any attempt.
GiveUp(c) ==
  /\ At(c, "connecting") \/ At(c, "calling")
  /\ ~up
  /\ Raise(c, record_failure(breaker))
  /\ UNCHANGED <<row, edit, opened, up>>

Finish(c) ==
  /\ At(c, "ready")
  /\ call' = [call EXCEPT ![c] = Idle]
  /\ UNCHANGED <<row, edit, client, opened, ending, breaker, reports, up>>

-----------------------------------------------------------------------------
(***************************************************************************)
(* Administrators.  Their transactions on one row exclude each other by    *)
(* its lock; the cache is invalidated before the transaction commits.      *)
(***************************************************************************)
\* Mutant: the cached client is left in place.
BeginEdit_KeepsClient(new) ==
  /\ edit = None /\ row # Deleted
  /\ new = [row EXCEPT !.config = @ + 1] /\ row.config < MaxConfigs
  /\ edit' = new
  /\ UNCHANGED <<row, client, opened, ending, breaker, reports, call, up>>

\* update_connection, suspend_connection, delete_connection.
BeginEdit(new) ==
  /\ edit = None /\ row # Deleted
  /\ \/ new = [row EXCEPT !.config = @ + 1] /\ row.config < MaxConfigs
     \/ new = [row EXCEPT !.suspended = TRUE]
     \/ new = Deleted
  /\ edit' = new
  /\ Invalidate
  /\ UNCHANGED <<row, opened, call, up>>

\* resume_connection leaves the cache alone.
BeginResume ==
  /\ edit = None /\ row.suspended
  /\ edit' = [row EXCEPT !.suspended = FALSE]
  /\ UNCHANGED <<row, client, opened, ending, breaker, reports, call, up>>

CommitEdit ==
  /\ edit # None
  /\ row' = edit /\ edit' = None
  /\ UNCHANGED <<client, opened, ending, breaker, reports, call, up>>

RollbackEdit ==
  /\ edit # None
  /\ edit' = None
  /\ UNCHANGED <<row, client, opened, ending, breaker, reports, call, up>>

-----------------------------------------------------------------------------
\* The background thread of _logout_in_background; the server may also have
\* ended the session by itself.
Logout(s) ==
  /\ s \in ending
  /\ ending' = ending \ {s}
  /\ opened' = [opened EXCEPT ![s] = 0]
  /\ UNCHANGED <<row, edit, client, breaker, reports, call, up>>

\* TM1 expires a session nobody can use any more.
Expire(s) ==
  /\ s # client /\ s \notin ending /\ opened[s] # 0
  /\ \A c \in Callers : call[c] # Idle => call[c].holds # s
  /\ opened' = [opened EXCEPT ![s] = 0]
  /\ UNCHANGED <<row, edit, client, ending, breaker, reports, call, up>>

CoolDown ==
  /\ breaker # None /\ breaker.state = "open"
  /\ breaker' = [breaker EXCEPT !.state = "cooled"]
  /\ UNCHANGED <<row, edit, client, opened, ending, reports, call, up>>

\* TM1 stops answering, or answers again.
Outage ==
  /\ up' = ~up
  /\ UNCHANGED <<row, edit, client, opened, ending, breaker, reports, call>>

\* The API process stops, after its requests, logs its clients out, and starts
\* again.
Shutdown ==
  /\ \A c \in Callers : call[c] = Idle
  /\ edit = None
  /\ client' = None /\ breaker' = None /\ reports' = {}
  /\ opened' = [s \in Sessions |-> IF s = client \/ s \in ending THEN 0 ELSE opened[s]]
  /\ ending' = {}
  /\ UNCHANGED <<row, edit, call, up>>

\* One request, such as list_cubes, get_dimension or get_process: each reads the
\* row, takes the client and makes its calls.
Request(c) ==
  \/ RefuseSuspended(c) \/ GetClient(c) \/ RefusePrivate(c) \/ RefuseOpen(c)
  \/ \E tries \in {0, MaxRetries} : StartCall(c, tries)
  \/ \E s \in Sessions : Connected(c, s)
  \/ Answered(c) \/ Rejected(c) \/ Retry(c) \/ GiveUp(c) \/ Finish(c)

Admin ==
  \/ \E new \in Rows : BeginEdit(new)
  \/ BeginResume \/ CommitEdit \/ RollbackEdit

Next ==
  \/ \E c \in Callers : Request(c) \/ \E test \in BOOLEAN : Load(c, test)
  \/ Admin
  \/ \E s \in Sessions : Logout(s) \/ Expire(s)
  \/ CoolDown \/ Outage \/ Shutdown

Spec == Init /\ [][Next]_vars

(***************************************************************************)
(* Fairness: time passes, the event loop runs every request, and a request *)
(* makes a bounded number of calls.                                        *)
(***************************************************************************)
Fairness ==
  /\ WF_vars(CoolDown)
  /\ \A c \in Callers : WF_vars(Request(c)) /\ SF_vars(Finish(c))

\* Requests and administrators' transactions one at a time.
Serialised ==
  /\ \A c, d \in Callers : call[c] # Idle /\ call[d] # Idle => c = d
  /\ edit # None => \A c \in Callers : call[c] = Idle

SerialNext == Next /\ Serialised'
SerialSpec == Init /\ [][SerialNext]_vars

-----------------------------------------------------------------------------
\* A breaker is closed exactly while fewer calls than the threshold have failed
\* since the last success, whatever calls that began before it opened report.
BreakerInv ==
  breaker # None => (breaker.state = "closed" <=> breaker.failures < Threshold)

\* The cached client is never one whose logout has run or is scheduled.
CachedIsLoggedIn == client # None => opened[client] # 0 /\ client \notin ending

EndingInv == \A s \in ending : opened[s] # 0

ReportsInv ==
  /\ reports # {} => breaker # None
  /\ \A c \in reports : At(c, "connecting") \/ At(c, "calling")

\* The inductive invariant of requests that overlap freely.
ConnectionsInv == TypeOK /\ ReportsInv /\ BreakerInv /\ CachedIsLoggedIn /\ EndingInv

Uses(c) == At(c, "ready") \/ At(c, "connecting") \/ At(c, "calling")

\* A request never works with a client of an older configuration than the one it
\* read (update_connection: "never reuse a stale cached TM1py client against the
\* new configuration"), and every session TM1 holds for us is cached or on its way
\* out (_logout_in_background: "a seat held by nobody").
ServedAfresh ==
  /\ \A c \in Callers :
       Uses(c) /\ call[c].holds # None /\ opened[call[c].holds] # 0 =>
         opened[call[c].holds] >= call[c].view.config
  /\ \A s \in Sessions : opened[s] # 0 => s = client \/ s \in ending

\* Once TM1 answers for good, the breaker stops refusing calls for good.
Recovers == <>[]up => <>[][\A c \in Callers : ~RefuseOpen(c)]_vars

\* A suspension for good ends every use of the connection (suspend_connection:
\* "Stop every use of this connection's credentials until resumed").
SuspensionDrains == <>[](row.suspended) => <>[](\A c \in Callers : ~Uses(c))
=============================================================================

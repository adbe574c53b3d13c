------------------------ MODULE TM1ConnectionsProofs ------------------------
(***************************************************************************)
(* For any number of overlapping requests, retries and sessions, and any   *)
(* threshold: the circuit breaker is closed exactly below its threshold,   *)
(* and the cached client is never one that is logged out.  For requests    *)
(* and edits one at a time: no request is served by a client of an older   *)
(* configuration, and no session is held by nobody.  For edits of a saved  *)
(* connection, by any users with any rights: nobody but its owner shares   *)
(* it, and its password stays where it was typed for.                      *)
(***************************************************************************)
EXTENDS MCTM1Connections, TLAPS

USE ConnectionsAssumption, NoneAssumption

\* A breaker that is well formed and closed exactly below the threshold.
Sound(b) == b \in Breakers /\ (b.state = "closed" <=> b.failures < Threshold)

\* The part of the invariant that is about what the process caches.
CacheInv ==
  /\ client \in Sessions \cup {None}
  /\ ending \subseteq Sessions
  /\ breaker \in Breakers \cup {None}
  /\ reports \subseteq Callers
  /\ BreakerInv /\ CachedIsLoggedIn /\ EndingInv
  /\ reports # {} => breaker # None

\* The part that is about the requests.
RequestsInv ==
  /\ call \in [Callers -> Busy \cup {Idle}]
  /\ \A c \in reports : At(c, "connecting") \/ At(c, "calling")

\* The part that is about the database and the server.
WorldInv ==
  /\ row \in Rows /\ edit \in Rows \cup {None}
  /\ opened \in [Sessions -> 0 .. MaxConfigs]
  /\ up \in BOOLEAN

\* The three parts are the invariant.
LEMMA Parts == ConnectionsInv <=> CacheInv /\ RequestsInv /\ WorldInv
  BY DEF ConnectionsInv, TypeOK, ReportsInv, CacheInv, RequestsInv, WorldInv

\* The same after a step.
LEMMA PartsNext == CacheInv' /\ RequestsInv' /\ WorldInv' => ConnectionsInv'
  BY DEF ConnectionsInv, TypeOK, ReportsInv, CacheInv, RequestsInv, WorldInv

-----------------------------------------------------------------------------
\* A fresh breaker is sound, and success makes a breaker fresh.
LEMMA FreshIsSound == Sound(Fresh)
  BY DEF Sound, Fresh, Breakers, States

\* Counting a failure keeps a breaker sound: only a failure that reaches the
\* threshold opens a closed breaker, and one already there stays open.
LEMMA FailureKeepsSound ==
  ASSUME NEW b, Sound(b)
  PROVE  Sound(record_failure(b))
<1> DEFINE n == IF b.failures < Threshold THEN b.failures + 1 ELSE Threshold
<1>1. b.failures \in 0 .. Threshold /\ b.state \in States
  BY DEF Sound, Breakers
<1>2. n \in 0 .. Threshold
  BY <1>1
<1>3. CASE b.state = "half_open" \/ n >= Threshold
  <2>1. record_failure(b) = [state |-> "open", failures |-> n]
    BY <1>3 DEF record_failure
  <2>2. n = Threshold
    BY <1>1, <1>3 DEF Sound
  <2> QED
    BY <1>2, <2>1, <2>2 DEF Sound, Breakers, States
<1>4. CASE ~(b.state = "half_open" \/ n >= Threshold)
  <2>1. record_failure(b) = [state |-> b.state, failures |-> n]
    BY <1>4 DEF record_failure
  <2>2. n < Threshold /\ b.state = "closed"
    BY <1>1, <1>2, <1>4 DEF Sound
  <2> QED
    BY <1>2, <2>1, <2>2 DEF Sound, Breakers, States
<1> QED
  BY <1>3, <1>4

\* Letting a call through keeps the breaker sound.
LEMMA AdmittingKeepsSound ==
  ASSUME NEW b, b = None \/ Sound(b)
  PROVE  Sound(Admitting(b))
<1>1. CASE b = None
  BY <1>1, FreshIsSound DEF Admitting
<1>2. CASE b # None /\ b.state = "cooled"
  <2>1. Admitting(b) = [b EXCEPT !.state = "half_open"]
    BY <1>2 DEF Admitting
  <2> QED
    BY <1>2, <2>1 DEF Sound, Breakers, States
<1>3. CASE b # None /\ b.state # "cooled"
  BY <1>3 DEF Admitting
<1> QED
  BY <1>1, <1>2, <1>3

\* What the invariant says of a breaker that exists.
LEMMA BreakerIsSound ==
  ASSUME CacheInv, breaker # None
  PROVE  Sound(breaker)
  BY DEF CacheInv, BreakerInv, Sound

-----------------------------------------------------------------------------
\* Dropping the cached client and the breaker keeps the cache sound.
LEMMA InvalidateKeeps ==
  ASSUME CacheInv, Invalidate, UNCHANGED opened
  PROVE  CacheInv' /\ reports' = {}
<1>1. \A s \in ending' : opened[s] # 0 /\ s \in Sessions
  BY DEF CacheInv, Invalidate, CachedIsLoggedIn, EndingInv
<1> QED
  BY <1>1 DEF CacheInv, Invalidate, BreakerInv, CachedIsLoggedIn, EndingInv

\* So does recording the end of a call in a sound breaker.
LEMMA RecordKeeps ==
  ASSUME CacheInv, NEW c \in Callers, NEW recorded, Record(c, recorded),
         c \in reports => Sound(recorded) /\ recorded # None,
         UNCHANGED <<client, opened, ending>>
  PROVE  CacheInv' /\ reports' = reports \ {c}
<1>1. CASE c \in reports
  BY <1>1 DEF CacheInv, Record, BreakerInv, CachedIsLoggedIn, EndingInv, Sound
<1>2. CASE c \notin reports
  BY <1>2 DEF CacheInv, Record, BreakerInv, CachedIsLoggedIn, EndingInv
<1> QED
  BY <1>1, <1>2

\* A request that moves on keeps the requests sound when it stops reporting, or
\* is in a call.
LEMMA RequestStep ==
  ASSUME RequestsInv, NEW c \in Callers, NEW r \in Busy \cup {Idle},
         call' = [call EXCEPT ![c] = r],
         reports' \subseteq reports \cup {c},
         c \in reports' => r # Idle /\ r.at \in {"connecting", "calling"}
  PROVE  RequestsInv'
<1>1. call' \in [Callers -> Busy \cup {Idle}]
  BY DEF RequestsInv
<1>2. ASSUME NEW d \in reports'
      PROVE  At(d, "connecting")' \/ At(d, "calling")'
  <2>1. CASE d = c
    BY <1>2, <2>1 DEF RequestsInv, At
  <2>2. CASE d # c
    <3>1. d \in reports
      BY <1>2, <2>2
    <3> QED
      BY <2>2, <3>1 DEF RequestsInv, At
  <2> QED
    BY <2>1, <2>2
<1> QED
  BY <1>1, <1>2 DEF RequestsInv

\* When the requests stay and none begins to report, they stay sound.
LEMMA RequestsKept ==
  ASSUME RequestsInv, call' = call, reports' \subseteq reports
  PROVE  RequestsInv'
  BY DEF RequestsInv, At

\* A request at a step is a busy one.
LEMMA BusyAt ==
  ASSUME RequestsInv, NEW c \in Callers, call[c] # Idle
  PROVE  call[c] \in Busy
  BY DEF RequestsInv

\* An error ends its request and keeps everything sound.
LEMMA RaiseKeeps ==
  ASSUME CacheInv, RequestsInv, NEW c \in Callers, call[c] # Idle, NEW recorded,
         Raise(c, recorded), UNCHANGED opened,
         c \in reports => Sound(recorded) /\ recorded # None
  PROVE  CacheInv' /\ RequestsInv'
<1>1. CASE call[c].test
  <2>1. CacheInv' /\ reports' = {}
    BY <1>1, InvalidateKeeps DEF Raise
  <2> QED
    BY <2>1, RequestStep DEF Raise
<1>2. CASE ~call[c].test
  <2>1. CacheInv' /\ reports' = reports \ {c}
    BY <1>2, RecordKeeps DEF Raise
  <2> QED
    BY <2>1, RequestStep DEF Raise
<1> QED
  BY <1>1, <1>2

-----------------------------------------------------------------------------
(***************************************************************************)
(* One lemma per kind of step.  "Parts" splits the invariant; what is left *)
(* of each step is what it writes.                                         *)
(***************************************************************************)
\* A request begins, gets its client, retries or ends: the cache is not written.
LEMMA QuietStepKeeps ==
  ASSUME CacheInv, RequestsInv, NEW c \in Callers, NEW r \in Busy \cup {Idle},
         call' = [call EXCEPT ![c] = r],
         UNCHANGED <<client, opened, ending, breaker, reports>>,
         c \in reports => r # Idle /\ r.at \in {"connecting", "calling"}
  PROVE  CacheInv' /\ RequestsInv'
<1>1. CacheInv'
  BY DEF CacheInv, BreakerInv, CachedIsLoggedIn, EndingInv
<1>2. RequestsInv'
  BY RequestStep
<1> QED
  BY <1>1, <1>2

\* A request that is not in a call does not report.
LEMMA ReportsOnlyInACall ==
  ASSUME RequestsInv, NEW c \in Callers, ~At(c, "connecting"), ~At(c, "calling")
  PROVE  c \notin reports
  BY DEF RequestsInv

\* A request reads a row that is there.
LEMMA LoadKeeps ==
  ASSUME CacheInv, RequestsInv, WorldInv, NEW c \in Callers, NEW test \in BOOLEAN, Load(c, test)
  PROVE  CacheInv' /\ RequestsInv' /\ WorldInv'
<1> DEFINE r == [at |-> "loaded", test |-> test, view |-> row, holds |-> None, tries |-> 0]
<1>1. row \in Present
  BY DEF Load, WorldInv, Rows
<1>2. r \in Busy
  BY <1>1 DEF Busy, Steps
<1>3. c \notin reports
  BY ReportsOnlyInACall DEF Load, At
<1>4. WorldInv'
  BY DEF Load, WorldInv
<1>5. call' = [call EXCEPT ![c] = r] /\ UNCHANGED <<client, opened, ending, breaker, reports>>
  BY DEF Load
<1> HIDE DEF r
<1> QED
  BY <1>2, <1>3, <1>4, <1>5, QuietStepKeeps

\* get_client on a suspended row drops what is cached.
LEMMA RefuseSuspendedKeeps ==
  ASSUME CacheInv, RequestsInv, WorldInv, NEW c \in Callers, RefuseSuspended(c)
  PROVE  CacheInv' /\ RequestsInv' /\ WorldInv'
<1>1. CacheInv' /\ reports' = {}
  BY InvalidateKeeps DEF RefuseSuspended
<1>2. RequestsInv'
  BY <1>1, RequestStep DEF RefuseSuspended
<1> QED
  BY <1>1, <1>2 DEF RefuseSuspended, WorldInv

\* get_client takes the cached client or goes on to log in.
LEMMA GetClientKeeps ==
  ASSUME CacheInv, RequestsInv, WorldInv, NEW c \in Callers, GetClient(c)
  PROVE  CacheInv' /\ RequestsInv' /\ WorldInv'
<1> DEFINE step == IF client = None THEN "resolving" ELSE "ready"
           r    == [call[c] EXCEPT !.at = step, !.holds = client]
<1>1. call[c] \in Busy
  BY BusyAt DEF GetClient, At
<1>2. step \in Steps
  BY DEF Steps
<1>3. r \in Busy
  <2> HIDE DEF step
  <2> QED
    BY <1>1, <1>2 DEF Busy, CacheInv
<1>4. c \notin reports
  BY ReportsOnlyInACall DEF GetClient, At
<1>5. WorldInv'
  BY DEF GetClient, WorldInv
<1>6. call' = [call EXCEPT ![c] = r] /\ UNCHANGED <<client, opened, ending, breaker, reports>>
  BY <1>1 DEF GetClient, RequestsInv
<1> HIDE DEF r
<1> QED
  BY <1>3, <1>4, <1>5, <1>6, QuietStepKeeps

\* The three ways to end with an error that leave the breaker as it is.
LEMMA ErrorKeeps ==
  ASSUME CacheInv, RequestsInv, WorldInv, NEW c \in Callers,
         RefusePrivate(c) \/ RefuseOpen(c) \/ Rejected(c)
  PROVE  CacheInv' /\ RequestsInv' /\ WorldInv'
<1>1. call[c] # Idle /\ Raise(c, breaker) /\ UNCHANGED <<row, edit, opened, up>>
  BY DEF RefusePrivate, RefuseOpen, Rejected, At
<1>2. c \in reports => Sound(breaker) /\ breaker # None
  BY BreakerIsSound DEF CacheInv
<1>3. CacheInv' /\ RequestsInv'
  BY <1>1, <1>2, RaiseKeeps
<1> QED
  BY <1>1, <1>3 DEF WorldInv

\* A call that is let through reports to the breaker that let it through.
LEMMA StartCallKeeps ==
  ASSUME CacheInv, RequestsInv, WorldInv, NEW c \in Callers,
         NEW tries \in {0, MaxRetries}, StartCall(c, tries)
  PROVE  CacheInv' /\ RequestsInv' /\ WorldInv'
<1> DEFINE step == IF At(c, "resolving") THEN "connecting" ELSE "calling"
           r    == [call[c] EXCEPT !.at = step, !.tries = tries]
<1>1. call[c] \in Busy
  BY BusyAt DEF StartCall, At
<1>2. step \in {"connecting", "calling"}
  OBVIOUS
<1>3. r \in Busy /\ r.at = step /\ r # Idle
  <2>1. tries \in 0 .. MaxRetries /\ step \in Steps
    BY <1>2 DEF Steps
  <2> HIDE DEF step
  <2>2. r \in Busy /\ r.at = step
    BY <1>1, <2>1 DEF Busy
  <2> QED
    BY <1>2, <2>2 DEF Idle
<1>4. call' = [call EXCEPT ![c] = r]
  BY <1>1 DEF StartCall, RequestsInv
<1>5. Sound(breaker')
  BY AdmittingKeepsSound, BreakerIsSound DEF StartCall
<1>6. CacheInv'
  BY <1>5 DEF StartCall, CacheInv, BreakerInv, CachedIsLoggedIn, EndingInv, Sound
<1>7. RequestsInv'
  <2> HIDE DEF r
  <2> QED
    BY <1>2, <1>3, <1>4, RequestStep DEF StartCall
<1> QED
  BY <1>6, <1>7 DEF StartCall, WorldInv

\* A login caches a session that is open and not on its way out.
LEMMA ConnectedKeeps ==
  ASSUME CacheInv, RequestsInv, WorldInv, NEW c \in Callers, NEW s \in Sessions, Connected(c, s)
  PROVE  CacheInv' /\ RequestsInv' /\ WorldInv'
<1> DEFINE r == [call[c] EXCEPT !.at = "ready", !.holds = s, !.tries = 0]
<1>1. call[c] \in Busy
  BY BusyAt DEF Connected, At
<1>2. r \in Busy
  <2>1. "ready" \in Steps /\ 0 \in 0 .. MaxRetries
    BY DEF Steps
  <2> QED
    BY <1>1, <2>1 DEF Busy
<1>3. call' = [call EXCEPT ![c] = r]
  BY <1>1 DEF Connected, RequestsInv
<1>4. call[c].view.config \in 1 .. MaxConfigs
  BY <1>1 DEF Busy, Present
<1>5. /\ opened' \in [Sessions -> 0 .. MaxConfigs]
      /\ opened'[s] # 0
      /\ \A t \in Sessions : opened[t] # 0 => opened'[t] # 0
  BY <1>4 DEF Connected, WorldInv
<1>6. s \notin ending
  BY DEF Connected, FreeSessions, CacheInv, EndingInv
<1>7. Sound(record_success(breaker)) /\ record_success(breaker) # None
  BY FreshIsSound DEF record_success, Sound
<1>8. /\ breaker' \in Breakers \cup {None} /\ BreakerInv'
      /\ reports' = reports \ {c} /\ (reports' # {} => breaker' # None)
  <2>1. CASE c \in reports
    BY <1>7, <2>1 DEF Connected, Record, CacheInv, BreakerInv, Sound
  <2>2. CASE c \notin reports
    BY <2>2 DEF Connected, Record, CacheInv, BreakerInv
  <2> QED
    BY <2>1, <2>2
<1>9. CacheInv'
  BY <1>5, <1>6, <1>8 DEF Connected, CacheInv, CachedIsLoggedIn, EndingInv
<1>10. RequestsInv'
  <2> HIDE DEF r
  <2> QED
    BY <1>2, <1>3, <1>8, RequestStep
<1> QED
  BY <1>5, <1>9, <1>10 DEF Connected, WorldInv

\* An answer closes the breaker its call reports to.
LEMMA AnsweredKeeps ==
  ASSUME CacheInv, RequestsInv, WorldInv, NEW c \in Callers, Answered(c)
  PROVE  CacheInv' /\ RequestsInv' /\ WorldInv'
<1> DEFINE r == [call[c] EXCEPT !.at = "ready", !.tries = 0]
<1>1. call[c] \in Busy
  BY BusyAt DEF Answered, At
<1>2. r \in Busy
  <2>1. "ready" \in Steps /\ 0 \in 0 .. MaxRetries
    BY DEF Steps
  <2> QED
    BY <1>1, <2>1 DEF Busy
<1>3. call' = [call EXCEPT ![c] = r]
  BY <1>1 DEF Answered, RequestsInv
<1>4. Sound(record_success(breaker)) /\ record_success(breaker) # None
  BY FreshIsSound DEF record_success, Sound
<1>5. CacheInv' /\ reports' = reports \ {c}
  BY <1>4, RecordKeeps DEF Answered
<1>6. RequestsInv'
  <2> HIDE DEF r
  <2> QED
    BY <1>2, <1>3, <1>5, RequestStep
<1> QED
  BY <1>5, <1>6 DEF Answered, WorldInv

\* A retry touches only its own request.
LEMMA RetryKeeps ==
  ASSUME CacheInv, RequestsInv, WorldInv, NEW c \in Callers, Retry(c)
  PROVE  CacheInv' /\ RequestsInv' /\ WorldInv'
<1> DEFINE r == [call[c] EXCEPT !.tries = @ - 1]
<1>1. call[c] \in Busy /\ call[c].at \in {"connecting", "calling"} /\ call[c].tries > 0
  BY BusyAt DEF Retry, At
<1>2. r \in Busy /\ r.at = call[c].at
  BY <1>1 DEF Busy
<1>3. r # Idle
  BY <1>1, <1>2 DEF Idle
<1>4. call' = [call EXCEPT ![c] = r] /\ UNCHANGED <<client, opened, ending, breaker, reports>>
  BY <1>1 DEF Retry, RequestsInv
<1>5. WorldInv'
  BY DEF Retry, WorldInv
<1> HIDE DEF r
<1> QED
  BY <1>1, <1>2, <1>3, <1>4, <1>5, QuietStepKeeps

\* The last failed attempt counts as one failure.
LEMMA GiveUpKeeps ==
  ASSUME CacheInv, RequestsInv, WorldInv, NEW c \in Callers, GiveUp(c)
  PROVE  CacheInv' /\ RequestsInv' /\ WorldInv'
<1>1. call[c] # Idle /\ Raise(c, record_failure(breaker)) /\ UNCHANGED <<row, edit, opened, up>>
  BY DEF GiveUp, At
<1>2. ASSUME c \in reports
      PROVE  Sound(record_failure(breaker)) /\ record_failure(breaker) # None
  <2>1. Sound(record_failure(breaker))
    BY <1>2, BreakerIsSound, FailureKeepsSound DEF CacheInv
  <2> QED
    BY <2>1 DEF Sound
<1>3. CacheInv' /\ RequestsInv'
  BY <1>1, <1>2, RaiseKeeps
<1> QED
  BY <1>1, <1>3 DEF WorldInv

\* A request that ends was in no call.
LEMMA FinishKeeps ==
  ASSUME CacheInv, RequestsInv, WorldInv, NEW c \in Callers, Finish(c)
  PROVE  CacheInv' /\ RequestsInv' /\ WorldInv'
<1>1. c \notin reports
  BY ReportsOnlyInACall DEF Finish, At
<1>2. CacheInv' /\ RequestsInv'
  BY <1>1, QuietStepKeeps DEF Finish
<1> QED
  BY <1>2 DEF Finish, WorldInv

-----------------------------------------------------------------------------
\* Administrators' transactions drop what is cached or leave it alone.
LEMMA AdminKeeps ==
  ASSUME CacheInv, RequestsInv, WorldInv, Admin
  PROVE  CacheInv' /\ RequestsInv' /\ WorldInv'
<1>1. ASSUME NEW new \in Rows, BeginEdit(new)
      PROVE  CacheInv' /\ RequestsInv' /\ WorldInv'
  <2>1. CacheInv' /\ reports' = {}
    BY <1>1, InvalidateKeeps DEF BeginEdit
  <2>2. RequestsInv'
    BY <1>1, <2>1, RequestsKept DEF BeginEdit
  <2> QED
    BY <1>1, <2>1, <2>2 DEF BeginEdit, WorldInv
<1>2. ASSUME BeginResume \/ CommitEdit \/ RollbackEdit
      PROVE  CacheInv' /\ RequestsInv'
  <2>1. UNCHANGED <<client, opened, ending, breaker, reports, call>>
    BY <1>2 DEF BeginResume, CommitEdit, RollbackEdit
  <2> QED
    BY <2>1, RequestsKept DEF CacheInv, BreakerInv, CachedIsLoggedIn, EndingInv
<1>3. CASE BeginResume
  <2>1. row \in Present
    BY <1>3 DEF BeginResume, WorldInv, Rows, Deleted
  <2>2. [row EXCEPT !.suspended = FALSE] \in Present
    BY <2>1 DEF Present
  <2> QED
    BY <1>2, <1>3, <2>2 DEF BeginResume, WorldInv, Rows
<1>4. CASE CommitEdit
  BY <1>2, <1>4 DEF CommitEdit, WorldInv
<1>5. CASE RollbackEdit
  BY <1>2, <1>5 DEF RollbackEdit, WorldInv
<1> QED
  BY <1>1, <1>3, <1>4, <1>5 DEF Admin

\* The session that ends is not the cached one.
LEMMA SessionEndsKeeps ==
  ASSUME CacheInv, RequestsInv, WorldInv, NEW s \in Sessions, Logout(s) \/ Expire(s)
  PROVE  CacheInv' /\ RequestsInv' /\ WorldInv'
<1>1. /\ opened' = [opened EXCEPT ![s] = 0]
      /\ UNCHANGED <<row, edit, client, breaker, reports, call, up>>
      /\ s # client /\ s \notin ending' /\ ending' \subseteq ending
  BY DEF Logout, Expire, CacheInv, CachedIsLoggedIn
<1>2. WorldInv' /\ \A t \in Sessions : t # s => opened'[t] = opened[t]
  BY <1>1 DEF WorldInv
<1>3. CacheInv'
  BY <1>1, <1>2 DEF CacheInv, BreakerInv, CachedIsLoggedIn, EndingInv
<1> QED
  BY <1>1, <1>2, <1>3, RequestsKept

\* Time passing leaves the count at the threshold.
LEMMA CoolDownKeeps ==
  ASSUME CacheInv, RequestsInv, WorldInv, CoolDown
  PROVE  CacheInv' /\ RequestsInv' /\ WorldInv'
<1>1. Sound(breaker)
  BY BreakerIsSound DEF CoolDown
<1>2. Sound([breaker EXCEPT !.state = "cooled"])
  BY <1>1 DEF CoolDown, Sound, Breakers, States
<1>3. CacheInv'
  BY <1>2 DEF CoolDown, CacheInv, BreakerInv, CachedIsLoggedIn, EndingInv, Sound
<1>4. RequestsInv' /\ WorldInv'
  BY RequestsKept DEF CoolDown, WorldInv
<1> QED
  BY <1>3, <1>4

\* After a restart nothing is cached.
LEMMA ShutdownKeeps ==
  ASSUME CacheInv, RequestsInv, WorldInv, Shutdown
  PROVE  CacheInv' /\ RequestsInv' /\ WorldInv'
<1>1. CacheInv'
  BY DEF Shutdown, CacheInv, BreakerInv, CachedIsLoggedIn, EndingInv
<1>2. RequestsInv'
  BY RequestsKept DEF Shutdown
<1>3. WorldInv'
  BY DEF Shutdown, WorldInv
<1> QED
  BY <1>1, <1>2, <1>3

\* Outages touch nothing of the process.
LEMMA OutageKeeps ==
  ASSUME CacheInv, RequestsInv, WorldInv, Outage
  PROVE  CacheInv' /\ RequestsInv' /\ WorldInv'
<1>1. CacheInv' /\ RequestsInv'
  BY RequestsKept DEF Outage, CacheInv, BreakerInv, CachedIsLoggedIn, EndingInv
<1> QED
  BY <1>1 DEF Outage, WorldInv

-----------------------------------------------------------------------------
\* Every step keeps the invariant.
LEMMA StepKeeps ==
  ASSUME ConnectionsInv, [Next]_vars
  PROVE  ConnectionsInv'
<1> USE Parts
<1>1. CASE \E c \in Callers : Request(c)
  <2> PICK c \in Callers : Request(c)
    BY <1>1
  <2>1. CASE RefuseSuspended(c)
    BY <2>1, RefuseSuspendedKeeps, PartsNext
  <2>2. CASE GetClient(c)
    BY <2>2, GetClientKeeps, PartsNext
  <2>3. CASE RefusePrivate(c) \/ RefuseOpen(c) \/ Rejected(c)
    BY <2>3, ErrorKeeps, PartsNext
  <2>4. CASE \E tries \in {0, MaxRetries} : StartCall(c, tries)
    BY <2>4, StartCallKeeps, PartsNext
  <2>5. CASE \E s \in Sessions : Connected(c, s)
    BY <2>5, ConnectedKeeps, PartsNext
  <2>6. CASE Answered(c)
    BY <2>6, AnsweredKeeps, PartsNext
  <2>7. CASE Retry(c)
    BY <2>7, RetryKeeps, PartsNext
  <2>8. CASE GiveUp(c)
    BY <2>8, GiveUpKeeps, PartsNext
  <2>9. CASE Finish(c)
    BY <2>9, FinishKeeps, PartsNext
  <2> QED
    BY <2>1, <2>2, <2>3, <2>4, <2>5, <2>6, <2>7, <2>8, <2>9 DEF Request
<1>2. CASE \E c \in Callers, test \in BOOLEAN : Load(c, test)
  BY <1>2, LoadKeeps, PartsNext
<1>3. CASE Admin
  BY <1>3, AdminKeeps, PartsNext
<1>4. CASE \E s \in Sessions : Logout(s) \/ Expire(s)
  BY <1>4, SessionEndsKeeps, PartsNext
<1>5. CASE CoolDown
  BY <1>5, CoolDownKeeps, PartsNext
<1>6. CASE Outage
  BY <1>6, OutageKeeps, PartsNext
<1>7. CASE Shutdown
  BY <1>7, ShutdownKeeps, PartsNext
<1>8. CASE UNCHANGED vars
  BY <1>8 DEF vars, ConnectionsInv, TypeOK, ReportsInv, BreakerInv, CachedIsLoggedIn, EndingInv, At
<1> QED
  BY <1>1, <1>2, <1>3, <1>4, <1>5, <1>6, <1>7, <1>8 DEF Next

\* The inductive invariant: however requests, administrators and outages
\* overlap, calls in progress report to a breaker that exists and is sound, and
\* sessions on their way out are not in the cache.
THEOREM ConnectionsInvariant == Spec => []ConnectionsInv
<1>1. Init => ConnectionsInv
  BY DEF Init, ConnectionsInv, TypeOK, Rows, Present, Deleted, ReportsInv, BreakerInv,
         CachedIsLoggedIn, EndingInv
<1>2. ConnectionsInv /\ [Next]_vars => ConnectionsInv'
  BY StepKeeps
<1> QED
  BY <1>1, <1>2, PTL DEF Spec

\* However late the calls that began before it opened report, the circuit
\* breaker is closed exactly below its threshold.
THEOREM BreakerStaysSound == Spec => []BreakerInv
<1>1. ConnectionsInv => BreakerInv
  BY DEF ConnectionsInv
<1> QED
  BY <1>1, ConnectionsInvariant, PTL

\* However logins, invalidations and logouts overlap, get_client never hands
\* out a client that has been logged out by invalidate.
THEOREM CachedClientsAreLoggedIn == Spec => []CachedIsLoggedIn
<1>1. ConnectionsInv => CachedIsLoggedIn
  BY DEF ConnectionsInv
<1> QED
  BY <1>1, ConnectionsInvariant, PTL

-----------------------------------------------------------------------------
(***************************************************************************)
(* Requests and edits one at a time.  The argument: the cached client is   *)
(* always of the committed configuration, a request that logs in meets an  *)
(* empty cache, and the row it read is the row there is.                   *)
(***************************************************************************)

\* The cached client is of the configuration there is and will be, and no other
\* session is held but those on their way out.
FreshCache ==
  /\ client # None => opened[client] = row.config /\ (edit # None => edit.config = row.config)
  /\ \A s \in Sessions : opened[s] # 0 => s = client \/ s \in ending

\* A request works on the row there is.
WorksAfresh(c) ==
  call[c] # Idle =>
    /\ call[c].view.config = row.config
    /\ call[c].at \in {"resolving", "connecting"} => client = None
    /\ call[c].holds # None => opened[call[c].holds] \in {0, row.config}

AloneInv ==
  /\ ConnectionsInv
  /\ Serialised
  /\ FreshCache
  /\ \A c \in Callers : WorksAfresh(c)

\* What a serial step starts from and what is known of its end already.
Moving == AloneInv /\ ConnectionsInv' /\ Serialised'

\* A request that is open is the only one, and no edit is open.
LEMMA OnlyOne ==
  ASSUME Moving, NEW c \in Callers, call[c] # Idle
  PROVE  edit = None /\ \A d \in Callers : d # c => call[d] = Idle
  BY DEF Moving, AloneInv, Serialised

\* A step of the one open request leaves only that one open.
LEMMA WorkStep ==
  ASSUME Moving, NEW c \in Callers, call[c] # Idle, NEW r, call' = [call EXCEPT ![c] = r],
         \/ r = Idle
         \/ /\ r.view.config = row'.config
            /\ r.at \in {"resolving", "connecting"} => client' = None
            /\ r.holds # None => opened'[r.holds] \in {0, row'.config}
  PROVE  \A d \in Callers : WorksAfresh(d)'
<1>1. \A d \in Callers : d # c => call'[d] = Idle
  BY OnlyOne
<1>2. call'[c] = r
  BY DEF Moving, AloneInv, ConnectionsInv, TypeOK
<1> QED
  BY <1>1, <1>2 DEF WorksAfresh

\* A step that touches neither the cache nor the row.
LEMMA CacheKept ==
  ASSUME Moving, UNCHANGED <<row, edit, client, opened, ending>>
  PROVE  FreshCache'
  BY DEF Moving, AloneInv, FreshCache

\* invalidate empties the cache and sends its session on its way out.
LEMMA InvalidateFresh ==
  ASSUME Moving, Invalidate, opened' = opened
  PROVE  FreshCache'
  BY DEF Moving, AloneInv, FreshCache, Invalidate

\* A request reads the row, with no other request open.
LEMMA LoadAlone ==
  ASSUME Moving, NEW c \in Callers, NEW test \in BOOLEAN, Load(c, test)
  PROVE  AloneInv'
<1> DEFINE r == [at |-> "loaded", test |-> test, view |-> row, holds |-> None, tries |-> 0]
<1>1. /\ call' = [call EXCEPT ![c] = r]
      /\ UNCHANGED <<row, edit, client, opened, ending>>
  BY DEF Load
<1>2. r # Idle /\ r.view = row /\ r.at = "loaded" /\ r.holds = None
  BY DEF Idle
<1> HIDE DEF r
<1>3. call'[c] = r /\ \A d \in Callers : d # c => call'[d] = Idle
  BY <1>1, <1>2 DEF Moving, AloneInv, ConnectionsInv, TypeOK, Serialised
<1>4. \A d \in Callers : WorksAfresh(d)'
  BY <1>1, <1>2, <1>3 DEF WorksAfresh
<1> QED
  BY <1>1, <1>4, CacheKept DEF Moving, AloneInv

\* A request ends with an error, or on a suspended row.
LEMMA ErrorAlone ==
  ASSUME Moving, NEW c \in Callers, call[c] # Idle, call' = [call EXCEPT ![c] = Idle],
         Invalidate \/ UNCHANGED <<client, ending>>, UNCHANGED <<row, edit, opened>>
  PROVE  AloneInv'
<1>1. \A d \in Callers : WorksAfresh(d)'
  BY WorkStep
<1>2. FreshCache'
  BY InvalidateFresh, CacheKept
<1> QED
  BY <1>1, <1>2 DEF Moving, AloneInv

\* A request takes the cached client, or finds none.
LEMMA GetClientAlone ==
  ASSUME Moving, NEW c \in Callers, GetClient(c)
  PROVE  AloneInv'
<1> DEFINE step == IF client = None THEN "resolving" ELSE "ready"
           r    == [call[c] EXCEPT !.at = step, !.holds = client]
<1>1. /\ call[c] # Idle /\ call' = [call EXCEPT ![c] = r]
      /\ UNCHANGED <<row, edit, client, opened, ending>>
  BY DEF GetClient, At
<1>2. call[c] \in Busy
  BY <1>1 DEF Moving, AloneInv, ConnectionsInv, TypeOK
<1>3. r.view = call[c].view /\ r.at = step /\ r.holds = client
  BY <1>2 DEF Busy
<1> HIDE DEF r
<1>4. /\ r.view.config = row'.config
      /\ r.at \in {"resolving", "connecting"} => client' = None
      /\ r.holds # None => opened'[r.holds] \in {0, row'.config}
  BY <1>1, <1>3 DEF Moving, AloneInv, WorksAfresh, FreshCache
<1>5. \A d \in Callers : WorksAfresh(d)'
  BY <1>1, <1>4, WorkStep
<1> QED
  BY <1>1, <1>5, CacheKept DEF Moving, AloneInv

\* A call begins, is answered or tried again, or the request is done.
LEMMA CallAlone ==
  ASSUME Moving, NEW c \in Callers, call[c] # Idle, NEW step \in Steps, NEW tries,
         step \in {"resolving", "connecting"} => call[c].at \in {"resolving", "connecting"},
         call' = [call EXCEPT ![c].at = step, ![c].tries = tries],
         UNCHANGED <<row, edit, client, opened, ending>>
  PROVE  AloneInv'
<1> DEFINE r == [call[c] EXCEPT !.at = step, !.tries = tries]
<1>1. call' = [call EXCEPT ![c] = r]
  OBVIOUS
<1>2. call[c] \in Busy
  BY DEF Moving, AloneInv, ConnectionsInv, TypeOK
<1>3. r.view = call[c].view /\ r.at = step /\ r.holds = call[c].holds
  BY <1>2 DEF Busy
<1> HIDE DEF r
<1>4. /\ r.view.config = row'.config
      /\ r.at \in {"resolving", "connecting"} => client' = None
      /\ r.holds # None => opened'[r.holds] \in {0, row'.config}
  BY <1>3 DEF Moving, AloneInv, WorksAfresh
<1>5. \A d \in Callers : WorksAfresh(d)'
  BY <1>1, <1>4, WorkStep
<1> QED
  BY <1>5, CacheKept DEF Moving, AloneInv

\* A login fills the empty cache with a session of the row there is.
LEMMA ConnectedAlone ==
  ASSUME Moving, NEW c \in Callers, NEW s \in Sessions, Connected(c, s)
  PROVE  AloneInv'
<1> DEFINE r == [call[c] EXCEPT !.at = "ready", !.holds = s, !.tries = 0]
<1>1. /\ call[c] # Idle /\ call[c].at = "connecting" /\ call' = [call EXCEPT ![c] = r]
      /\ client' = s /\ opened' = [opened EXCEPT ![s] = call[c].view.config]
      /\ UNCHANGED <<row, edit, ending>>
  BY DEF Connected, At
<1>2. call[c] \in Busy /\ opened \in [Sessions -> 0 .. MaxConfigs]
  BY <1>1 DEF Moving, AloneInv, ConnectionsInv, TypeOK
<1>3. r.view = call[c].view /\ r.at = "ready" /\ r.holds = s
  BY <1>2 DEF Busy
<1> HIDE DEF r
<1>4. call[c].view.config = row.config /\ client = None /\ edit = None
  BY <1>1, OnlyOne DEF Moving, AloneInv, WorksAfresh
<1>5. opened'[s] = row.config /\ \A t \in Sessions : t # s => opened'[t] = opened[t]
  BY <1>1, <1>2, <1>4
<1>6. FreshCache'
  BY <1>1, <1>4, <1>5 DEF Moving, AloneInv, FreshCache
<1>7. \A d \in Callers : WorksAfresh(d)'
  BY <1>1, <1>3, <1>4, <1>5, WorkStep
<1> QED
  BY <1>6, <1>7 DEF Moving, AloneInv

\* Every step of a request.
LEMMA RequestAlone ==
  ASSUME Moving, NEW c \in Callers, Request(c)
  PROVE  AloneInv'
<1>1. CASE RefuseSuspended(c) \/ RefusePrivate(c) \/ RefuseOpen(c) \/ Rejected(c) \/ GiveUp(c)
  <2>1. /\ call[c] # Idle /\ call' = [call EXCEPT ![c] = Idle]
        /\ Invalidate \/ UNCHANGED <<client, ending>>
        /\ UNCHANGED <<row, edit, opened>>
    BY <1>1 DEF RefuseSuspended, RefusePrivate, RefuseOpen, Rejected, GiveUp, Raise, At
  <2> QED
    BY <2>1, ErrorAlone
<1>2. CASE GetClient(c)
  BY <1>2, GetClientAlone
<1>3. CASE \E s \in Sessions : Connected(c, s)
  BY <1>3, ConnectedAlone
<1>4. ASSUME NEW tries \in {0, MaxRetries}, StartCall(c, tries) PROVE AloneInv'
  <2> DEFINE step == IF At(c, "resolving") THEN "connecting" ELSE "calling"
  <2>1. /\ call[c] # Idle /\ call' = [call EXCEPT ![c].at = step, ![c].tries = tries]
        /\ UNCHANGED <<row, edit, client, opened, ending>>
    BY <1>4 DEF StartCall, At
  <2>2. step \in Steps /\ (step = "connecting" => call[c].at = "resolving") /\ step # "resolving"
    BY DEF Steps, At
  <2> HIDE DEF step
  <2> QED
    BY <2>1, <2>2, CallAlone
<1>5. CASE Answered(c)
  <2>1. /\ call[c] # Idle /\ call' = [call EXCEPT ![c].at = "ready", ![c].tries = 0]
        /\ UNCHANGED <<row, edit, client, opened, ending>>
    BY <1>5 DEF Answered, At
  <2> QED
    BY <2>1, CallAlone DEF Steps
<1>6. CASE Retry(c)
  <2>1. /\ call[c] # Idle /\ call' = [call EXCEPT ![c].tries = call[c].tries - 1]
        /\ UNCHANGED <<row, edit, client, opened, ending>>
    BY <1>6 DEF Retry, At
  <2>2. call[c] \in Busy
    BY <2>1 DEF Moving, AloneInv, ConnectionsInv, TypeOK
  <2> DEFINE r == [call[c] EXCEPT !.tries = call[c].tries - 1]
  <2>3. r.view = call[c].view /\ r.at = call[c].at /\ r.holds = call[c].holds
    BY <2>2 DEF Busy
  <2>4. call' = [call EXCEPT ![c] = r]
    BY <2>1
  <2> HIDE DEF r
  <2>5. \A d \in Callers : WorksAfresh(d)'
    BY <2>1, <2>3, <2>4, WorkStep DEF Moving, AloneInv, WorksAfresh
  <2> QED
    BY <2>1, <2>5, CacheKept DEF Moving, AloneInv
<1>7. CASE Finish(c)
  <2>1. /\ call[c] # Idle /\ call' = [call EXCEPT ![c] = Idle]
        /\ UNCHANGED <<row, edit, client, opened, ending>>
    BY <1>7 DEF Finish, At
  <2> QED
    BY <2>1, ErrorAlone
<1> QED
  BY <1>1, <1>2, <1>3, <1>4, <1>5, <1>6, <1>7 DEF Request

\* Edits: the cache is empty before a new configuration is committed.
LEMMA AdminAlone ==
  ASSUME Moving, Admin
  PROVE  AloneInv'
<1>1. ASSUME NEW new \in Rows, BeginEdit(new) PROVE AloneInv'
  <2>1. Invalidate /\ UNCHANGED <<row, opened, call>>
    BY <1>1 DEF BeginEdit
  <2>2. \A c \in Callers : WorksAfresh(c)'
    BY <2>1 DEF Moving, AloneInv, WorksAfresh, Invalidate
  <2> QED
    BY <2>1, <2>2, InvalidateFresh DEF Moving, AloneInv
<1>2. ASSUME BeginResume \/ RollbackEdit PROVE AloneInv'
  <2>1. UNCHANGED <<row, client, opened, ending, call>>
    BY <1>2 DEF BeginResume, RollbackEdit
  <2>2. edit' # None => edit'.config = row.config
    <3>1. CASE RollbackEdit
      BY <3>1 DEF RollbackEdit
    <3>2. CASE BeginResume
      <4>1. row \in Present
        BY <3>2 DEF BeginResume, Moving, AloneInv, ConnectionsInv, TypeOK, Rows, Deleted
      <4>2. edit' = [row EXCEPT !.suspended = FALSE]
        BY <3>2 DEF BeginResume
      <4> QED
        BY <4>1, <4>2 DEF Present
    <3> QED
      BY <1>2, <3>1, <3>2
  <2>3. FreshCache'
    BY <2>1, <2>2 DEF Moving, AloneInv, FreshCache
  <2>4. \A c \in Callers : WorksAfresh(c)'
    BY <2>1 DEF Moving, AloneInv, WorksAfresh
  <2> QED
    BY <2>3, <2>4 DEF Moving, AloneInv
<1>3. CASE CommitEdit
  <2>1. /\ edit # None /\ row' = edit /\ edit' = None
        /\ UNCHANGED <<client, opened, ending, call>>
    BY <1>3 DEF CommitEdit
  <2>2. FreshCache'
    BY <2>1 DEF Moving, AloneInv, FreshCache
  <2>3. \A c \in Callers : call'[c] = Idle
    BY <2>1 DEF Moving, AloneInv, Serialised
  <2>4. \A c \in Callers : WorksAfresh(c)'
    BY <2>3 DEF WorksAfresh
  <2> QED
    BY <2>2, <2>4 DEF Moving, AloneInv
<1> QED
  BY <1>1, <1>2, <1>3 DEF Admin

\* TM1 or the logout thread ends a session that is not cached.
LEMMA SessionEndsAlone ==
  ASSUME Moving, NEW s \in Sessions, Logout(s) \/ Expire(s)
  PROVE  AloneInv'
<1>1. /\ opened' = [opened EXCEPT ![s] = 0] /\ UNCHANGED <<row, edit, client, call>>
      /\ ending' = ending \ {s} \/ ending' = ending
  BY DEF Logout, Expire
<1>2. client # s
  BY DEF Logout, Expire, Moving, AloneInv, ConnectionsInv, CachedIsLoggedIn
<1>3. /\ opened'[s] = 0
      /\ \A t \in Sessions : t # s => opened'[t] = opened[t]
  BY <1>1 DEF Moving, AloneInv, ConnectionsInv, TypeOK
<1>4. client # None => client \in Sessions
  BY DEF Moving, AloneInv, ConnectionsInv, TypeOK
<1>5. FreshCache'
  BY <1>1, <1>2, <1>3, <1>4 DEF Moving, AloneInv, FreshCache
<1>6. ASSUME NEW c \in Callers PROVE WorksAfresh(c)'
  <2>1. call[c] # Idle => call[c].holds \in Sessions \cup {None}
    BY DEF Moving, AloneInv, ConnectionsInv, TypeOK, Busy
  <2> QED
    BY <1>1, <1>3, <2>1 DEF Moving, AloneInv, WorksAfresh
<1> QED
  BY <1>5, <1>6 DEF Moving, AloneInv

\* Shutting down logs out what is cached and what was on its way out: all there is.
LEMMA ShutdownAlone ==
  ASSUME Moving, Shutdown
  PROVE  AloneInv'
<1>1. FreshCache'
  BY DEF Moving, AloneInv, FreshCache, Shutdown
<1>2. \A c \in Callers : WorksAfresh(c)'
  BY DEF Shutdown, WorksAfresh
<1> QED
  BY <1>1, <1>2 DEF Moving, AloneInv

\* AloneInv is inductive.
LEMMA AloneStep == AloneInv /\ [SerialNext]_vars => AloneInv'
<1> SUFFICES ASSUME AloneInv, [SerialNext]_vars PROVE AloneInv'
  OBVIOUS
<1>1. CASE SerialNext
  <2>1. Next /\ Moving
    BY <1>1, StepKeeps DEF SerialNext, Moving, AloneInv
  <2>2. CASE \E c \in Callers : Request(c) \/ \E test \in BOOLEAN : Load(c, test)
    BY <2>1, <2>2, RequestAlone, LoadAlone
  <2>3. CASE Admin
    BY <2>1, <2>3, AdminAlone
  <2>4. CASE \E s \in Sessions : Logout(s) \/ Expire(s)
    BY <2>1, <2>4, SessionEndsAlone
  <2>5. CASE CoolDown \/ Outage
    <3>1. UNCHANGED <<row, edit, client, opened, ending, call>>
      BY <2>5 DEF CoolDown, Outage
    <3>2. \A c \in Callers : WorksAfresh(c)'
      BY <3>1 DEF AloneInv, WorksAfresh
    <3> QED
      BY <2>1, <3>1, <3>2, CacheKept DEF Moving, AloneInv
  <2>6. CASE Shutdown
    BY <2>1, <2>6, ShutdownAlone
  <2> QED
    BY <2>1, <2>2, <2>3, <2>4, <2>5, <2>6 DEF Next
<1>2. CASE UNCHANGED vars
  <2>1. ConnectionsInv'
    BY <1>2, StepKeeps DEF AloneInv
  <2>2. UNCHANGED <<row, edit, client, opened, ending, call>>
    BY <1>2 DEF vars
  <2>3. Serialised' /\ FreshCache'
    BY <2>2 DEF AloneInv, Serialised, FreshCache
  <2>4. \A c \in Callers : WorksAfresh(c)'
    BY <2>2 DEF AloneInv, WorksAfresh
  <2> QED
    BY <2>1, <2>3, <2>4 DEF AloneInv
<1> QED
  BY <1>1, <1>2

LEMMA InitAlone == Init => AloneInv
<1> SUFFICES ASSUME Init PROVE AloneInv
  OBVIOUS
<1>1. ConnectionsInv
  BY DEF Init, ConnectionsInv, TypeOK, Rows, Present, Deleted, ReportsInv, BreakerInv,
         CachedIsLoggedIn, EndingInv
<1> QED
  BY <1>1 DEF Init, AloneInv, Serialised, FreshCache, WorksAfresh

\* One at a time, the cache, the row and the one open request agree.
THEOREM AloneInvariant == SerialSpec => []AloneInv
  BY InitAlone, AloneStep, PTL DEF SerialSpec

LEMMA AloneIsFresh == AloneInv => ServedAfresh
<1> SUFFICES ASSUME AloneInv PROVE ServedAfresh
  OBVIOUS
<1>1. ASSUME NEW c \in Callers, Uses(c), call[c].holds # None, opened[call[c].holds] # 0
      PROVE  opened[call[c].holds] >= call[c].view.config
  <2>1. call[c] # Idle
    BY <1>1 DEF Uses, At
  <2>2. call[c].view.config = row.config /\ opened[call[c].holds] = row.config
    BY <1>1, <2>1 DEF AloneInv, WorksAfresh
  <2>3. row.config \in Int
    BY DEF AloneInv, ConnectionsInv, TypeOK, Rows, Present, Deleted
  <2> QED
    BY <2>2, <2>3
<1>2. \A s \in Sessions : opened[s] # 0 => s = client \/ s \in ending
  BY DEF AloneInv, FreshCache
<1> QED
  BY <1>1, <1>2 DEF ServedAfresh

\* In the composition with the edits of saved connections, a connection whose requests
\* and edits are one at a time keeps the invariant.
ServedAlone == part = "alone" => AloneInv

\* One at a time, no request is served by a client of an older configuration than the
\* one it read, and no session is held by nobody (update_connection,
\* _logout_in_background).
THEOREM ClientsAreFresh == MCSpec => []ServedAfreshAlone
<1>1. MCInit => ServedAlone
  BY InitAlone DEF MCInit, ServedAlone
<1>2. ServedAlone /\ [MCNext]_MCvars => ServedAlone'
  <2> SUFFICES ASSUME ServedAlone, [MCNext]_MCvars, part' = "alone" PROVE AloneInv'
    BY DEF ServedAlone
  <2>1. part = "alone" /\ [SerialNext]_vars
    BY DEF MCNext, MCvars, vars
  <2> QED
    BY <2>1, AloneStep DEF ServedAlone
<1>3. ServedAlone => ServedAfreshAlone
  BY AloneIsFresh DEF ServedAlone, ServedAfreshAlone
<1> QED
  BY <1>1, <1>2, <1>3, PTL DEF MCSpec

-----------------------------------------------------------------------------
(***************************************************************************)
(* Edits of a saved connection (ConnectionRights), beside those.  What an  *)
(* open edit will write has been allowed of the row it read: by its user's *)
(* rights where it is the owner who shares, whatever else commits; by      *)
(* everything else where no other edit is open, for then the row is still  *)
(* the one that was read.                                                  *)
(***************************************************************************)

\* What a field of the row may hold.
FieldValues(f) ==
  CASE f = "visibility" -> Access!Visibilities
    [] f = "environment" -> Access!Environments
    [] f = "gateway" -> BOOLEAN
    [] f = "host" -> Sessions
    [] f = "database" -> Callers

\* What an open edit would leave in a field of the row.
After(e, f) == IF f \in DOMAIN e.set THEN e.set[f] ELSE saved[f]

\* An edit in progress, well typed.
OpenEdits(e) ==
  /\ e.open = TRUE /\ e.user \in Users /\ e.pasted \in BOOLEAN /\ e.typed \in Access!Targets
  /\ DOMAIN e.set \subseteq Access!Fields
  /\ \A f \in DOMAIN e.set : e.set[f] \in FieldValues(f)

\* The row, where its password is meant for, and the edits are well typed.
RightsTypes ==
  /\ saved \in Access!Rows /\ typed \in Access!Targets
  /\ DOMAIN editing = Callers
  /\ \A r \in Callers : editing[r] = Access!Idle \/ OpenEdits(editing[r])
  /\ raced \in BOOLEAN /\ pasted \in BOOLEAN

\* What tm1.connections.own reaches.
Private(c) == c.visibility = "private" /\ c.environment = "dev" /\ ~c.gateway

\* What an edit that runs alone has been allowed.
Fits(e) ==
  /\ e.typed # None => e.typed = <<After(e, "host"), After(e, "database")>>
  /\ e.typed = None /\ ~e.pasted =>
       After(e, "host") = saved.host /\ After(e, "database") = saved.database
  /\ "write" \notin Rights[e.user] =>
       /\ Private(saved)
       /\ After(e, "visibility") = "private" /\ After(e, "environment") = "dev"
       /\ ~After(e, "gateway")

\* Alone, an open edit fits the row; overlapping or not, only the owner shares it.
EditsInv ==
  /\ ~saved.there => \A r \in Callers : ~editing[r].open
  /\ ~raced => \A r, x \in Callers : editing[r].open /\ editing[x].open => r = x
  /\ ~raced => \A r \in Callers : editing[r].open => Fits(editing[r])
  /\ \A r \in Callers :
       editing[r].open /\ "visibility" \in DOMAIN editing[r].set
         /\ editing[r].set["visibility"] = "organization" => editing[r].user = saved.owner

RightsInv == RightsTypes /\ EditsInv /\ Access!CredentialsStayPut

\* What every step keeps, and may do.
RightsStep == RightsInv' /\ Access!OwnerAloneShares /\ Access!OwnScopeHolds

\* The attributes of a row that is there.
LEMMA RowFields ==
  ASSUME saved \in Access!Rows, saved.there
  PROVE  /\ saved.there = TRUE /\ saved.owner \in Users /\ saved.visibility \in Access!Visibilities
         /\ saved.environment \in Access!Environments /\ saved.gateway \in BOOLEAN
         /\ saved.host \in Sessions /\ saved.database \in Callers
         /\ DOMAIN saved = {"there", "owner", "visibility", "environment", "gateway", "host", "database"}
BY DEF Access!Rows

\* No connection, no edit.
LEMMA InitRights == Access!Init => RightsInv
<1> SUFFICES ASSUME Access!Init PROVE RightsInv
  OBVIOUS
<1>1. /\ saved = [there |-> FALSE] /\ typed = None /\ raced = FALSE /\ pasted = FALSE
      /\ DOMAIN editing = Callers /\ \A r \in Callers : editing[r] = Access!Idle /\ ~editing[r].open
  BY DEF Access!Init, Access!Gone, Access!Idle
<1>2. saved \in Access!Rows /\ typed \in Access!Targets
  BY <1>1 DEF Access!Rows, Access!Targets
<1> QED BY <1>1, <1>2 DEF RightsInv, RightsTypes, EditsInv, Access!CredentialsStayPut

\* A connection is created where none is, and so without an edit of it.
LEMMA CreateRights ==
  ASSUME RightsInv, NEW u \in Users, Access!Create(u)
  PROVE  RightsStep
<1>1. PICK v \in Access!Visibilities, e \in Access!Environments, g \in BOOLEAN, h \in Sessions, d \in Callers :
        /\ saved' = [there |-> TRUE, owner |-> u, visibility |-> v, environment |-> e, gateway |-> g,
                     host |-> h, database |-> d]
        /\ typed' = <<h, d>>
  BY DEF Access!Create
<1>2. ~saved.there /\ raced' = FALSE /\ pasted' = FALSE /\ editing' = editing
  BY DEF Access!Create
<1>3. \A r \in Callers : ~editing[r].open
  BY <1>2 DEF RightsInv, EditsInv
<1>4. RightsTypes'
  <2>1. \A r \in Callers : editing'[r] = Access!Idle
    BY <1>2, <1>3 DEF RightsInv, RightsTypes, OpenEdits
  <2>2. saved' \in Access!Rows
    BY <1>1 DEF Access!Rows
  <2>3. typed' \in Access!Targets
    BY <1>1 DEF Access!Targets
  <2> QED BY <1>2, <2>1, <2>2, <2>3 DEF RightsInv, RightsTypes
<1>5. EditsInv'
  BY <1>1, <1>2, <1>3 DEF EditsInv
<1>6. Access!CredentialsStayPut'
  BY <1>1 DEF Access!CredentialsStayPut
<1>7. Access!OwnerAloneShares /\ Access!OwnScopeHolds
  BY <1>2, <1>3 DEF Access!OwnerAloneShares, Access!OwnScopeHolds
<1> QED BY <1>4, <1>5, <1>6, <1>7 DEF RightsStep, RightsInv

\* And deleted when no edit is open.
LEMMA DeleteRights ==
  ASSUME RightsInv, NEW u \in Users, Access!Delete(u)
  PROVE  RightsStep
<1>1. /\ saved' = [there |-> FALSE] /\ typed' = None /\ raced' = FALSE /\ pasted' = FALSE
      /\ editing' = editing /\ \A r \in Callers : ~editing[r].open
  BY DEF Access!Delete, Access!Gone
<1>4. RightsTypes'
  <2>1. \A r \in Callers : editing'[r] = Access!Idle
    BY <1>1 DEF RightsInv, RightsTypes, OpenEdits
  <2> QED BY <1>1, <2>1 DEF RightsInv, RightsTypes, Access!Rows, Access!Targets
<1>5. EditsInv'
  BY <1>1 DEF EditsInv
<1>6. Access!CredentialsStayPut'
  BY <1>1 DEF Access!CredentialsStayPut
<1>7. Access!OwnerAloneShares /\ Access!OwnScopeHolds
  BY <1>1 DEF Access!OwnerAloneShares, Access!OwnScopeHolds
<1> QED BY <1>1, <1>4, <1>5, <1>6, <1>7 DEF RightsStep, RightsInv

\* A request changes one or two attributes, and never the owner.
LEMMA ChangedFields ==
  ASSUME saved \in Access!Rows, saved.there, NEW new \in Access!Changed(saved)
  PROVE  /\ new.there = TRUE /\ new.owner = saved.owner
         /\ new.visibility \in Access!Visibilities /\ new.environment \in Access!Environments
         /\ new.gateway \in BOOLEAN /\ new.host \in Sessions /\ new.database \in Callers
<1>0. \/ \E v \in Access!Visibilities : new = [saved EXCEPT !.visibility = v]
      \/ \E e \in Access!Environments : new = [saved EXCEPT !.environment = e]
      \/ \E p \in BOOLEAN \X Sessions : new = [saved EXCEPT !.gateway = p[1], !.host = p[2]]
      \/ \E d \in Callers : new = [saved EXCEPT !.database = d]
  BY DEF Access!Changed
<1> USE RowFields
<1>1. CASE \E v \in Access!Visibilities : new = [saved EXCEPT !.visibility = v]
  BY <1>1
<1>2. CASE \E e \in Access!Environments : new = [saved EXCEPT !.environment = e]
  BY <1>2
<1>3. CASE \E p \in BOOLEAN \X Sessions : new = [saved EXCEPT !.gateway = p[1], !.host = p[2]]
  BY <1>3
<1>4. CASE \E d \in Callers : new = [saved EXCEPT !.database = d]
  BY <1>4
<1> QED BY <1>0, <1>1, <1>2, <1>3, <1>4

\* An edit is opened by what Allowed says of the row it read.
LEMMA EditRights ==
  ASSUME RightsInv, NEW r \in Callers, NEW u \in Users, Access!Edit(r, u)
  PROVE  RightsStep
<1>1. PICK new \in Access!Changed(saved), password \in BOOLEAN, path \in BOOLEAN :
       /\ Access!Allowed(u, saved, new, password, path)
       /\ editing' = [editing EXCEPT ![r] = Access!Asks(u, saved, new, password, path)]
  BY DEF Access!Edit
<1>2. /\ saved.there /\ ~editing[r].open
      /\ raced' = (raced \/ \E x \in Callers \ {r} : editing[x].open)
      /\ UNCHANGED <<saved, typed, pasted>>
  BY DEF Access!Edit
<1>3. /\ DOMAIN editing' = Callers
      /\ \A x \in Callers : x # r => editing'[x] = editing[x]
      /\ editing'[r] = [open |-> TRUE, user |-> u, pasted |-> path,
                        set |-> [f \in {g \in Access!Fields : new[g] # saved[g]} |-> new[f]],
                        typed |-> IF password THEN <<new.host, new.database>> ELSE None]
  BY <1>1 DEF RightsInv, RightsTypes, Access!Asks
<1>4. /\ editing'[r].open = TRUE /\ editing'[r].user = u /\ editing'[r].pasted = path
      /\ editing'[r].typed = IF password THEN <<new.host, new.database>> ELSE None
      /\ DOMAIN editing'[r].set = {g \in Access!Fields : new[g] # saved[g]}
      /\ \A f \in DOMAIN editing'[r].set : editing'[r].set[f] = new[f]
  BY <1>3
<1>5. /\ new.there = TRUE /\ new.owner = saved.owner
      /\ new.visibility \in Access!Visibilities /\ new.environment \in Access!Environments
      /\ new.gateway \in BOOLEAN /\ new.host \in Sessions /\ new.database \in Callers
  BY <1>1, <1>2, ChangedFields DEF RightsInv, RightsTypes
<1>6. \A f \in Access!Fields : After(editing[r], f)' = new[f]
  BY <1>2, <1>4 DEF After
<1>7. RightsTypes'
  <2>1. OpenEdits(editing[r])'
    <3>1. \A f \in Access!Fields : new[f] \in FieldValues(f)
      BY <1>5 DEF Access!Fields, FieldValues
    <3>2. editing'[r].typed \in Access!Targets
      BY <1>4, <1>5 DEF Access!Targets
    <3> QED BY <1>4, <3>1, <3>2 DEF OpenEdits
  <2>2. \A x \in Callers : editing'[x] = Access!Idle \/ OpenEdits(editing[x])'
    BY <1>3, <2>1 DEF RightsInv, RightsTypes, OpenEdits
  <2>3. raced' \in BOOLEAN
    BY <1>2 DEF RightsInv, RightsTypes
  <2> QED BY <1>2, <1>3, <2>2, <2>3 DEF RightsInv, RightsTypes
<1>8. EditsInv'
  <2>1. ASSUME ~raced' PROVE ~raced /\ \A x \in Callers : editing'[x].open => x = r
    BY <1>2, <1>3, <2>1 DEF RightsInv, RightsTypes
  <2>2. ASSUME ~raced' PROVE Fits(editing[r])'
    <3>1. /\ After(editing[r], "host")' = new.host /\ After(editing[r], "database")' = new.database
          /\ After(editing[r], "visibility")' = new.visibility
          /\ After(editing[r], "environment")' = new.environment
          /\ After(editing[r], "gateway")' = new.gateway
      BY <1>6 DEF Access!Fields
    <3>2. editing'[r].typed = None /\ ~path => new.host = saved.host /\ new.database = saved.database
      <4>1. editing'[r].typed = None => ~password
        BY <1>4, <1>5, NoEndpointAssumption
      <4>2. ~password /\ ~path => new.host = saved.host /\ new.database = saved.database
        BY <1>1 DEF Access!Allowed, Access!EndpointAllowed, Access!Moved
      <4> QED BY <4>1, <4>2
    <3>3. "write" \notin Rights[u] => Private(saved) /\ Private(new)
      <4>1. /\ Access!check_own_scope(u, saved.environment, saved.visibility, saved.gateway)
            /\ Access!check_own_scope(u, new.environment, new.visibility, new.gateway)
        BY <1>1 DEF Access!Allowed
      <4> QED BY <4>1 DEF Access!check_own_scope, Private
    <3>4. editing'[r].typed # None => editing'[r].typed = <<new.host, new.database>>
      BY <1>4
    <3> QED BY <1>2, <1>4, <3>1, <3>2, <3>3, <3>4 DEF Fits, Private
  <2>3. "visibility" \in DOMAIN editing'[r].set /\ editing'[r].set["visibility"] = "organization"
          => u = saved.owner
    <3>1. new.visibility # saved.visibility /\ new.visibility = "organization" => u = saved.owner
      <4>1. Access!VisibilityAllowed(u, saved, new) /\ saved.visibility \in {"private", "organization"}
        BY <1>1, <1>2, RowFields DEF Access!Allowed, Access!Visibilities, RightsInv, RightsTypes
      <4> QED BY <4>1 DEF Access!VisibilityAllowed
    <3>2. "visibility" \in DOMAIN editing'[r].set =>
            new["visibility"] # saved["visibility"] /\ editing'[r].set["visibility"] = new["visibility"]
      BY <1>4
    <3> QED BY <3>1, <3>2
  <2>4. saved'.there
    BY <1>2
  <2>5. ~raced' => \A x, y \in Callers : editing'[x].open /\ editing'[y].open => x = y
    BY <2>1
  <2>6. ~raced' => \A x \in Callers : editing'[x].open => Fits(editing[x])'
    BY <2>1, <2>2
  <2>7. ASSUME NEW x \in Callers, editing'[x].open, "visibility" \in DOMAIN editing'[x].set,
               editing'[x].set["visibility"] = "organization"
        PROVE  editing'[x].user = saved'.owner
    <3>1. CASE x = r
      BY <1>2, <1>4, <2>3, <2>7, <3>1
    <3>2. CASE x # r
      BY <1>2, <1>3, <2>7, <3>2 DEF RightsInv, EditsInv
    <3> QED BY <3>1, <3>2
  <2> QED BY <2>4, <2>5, <2>6, <2>7 DEF EditsInv
<1>9. Access!CredentialsStayPut'
  BY <1>2 DEF RightsInv, RightsTypes, Access!CredentialsStayPut
<1>10. Access!OwnerAloneShares /\ Access!OwnScopeHolds
  BY <1>2 DEF Access!OwnerAloneShares, Access!OwnScopeHolds, Access!Uses
<1> QED BY <1>7, <1>8, <1>9, <1>10 DEF RightsStep, RightsInv

\* An edit writes its attributes over the row as it is when it commits.
LEMMA CommitRights ==
  ASSUME RightsInv, NEW r \in Callers, Access!Commit(r)
  PROVE  RightsStep
<1>1. /\ editing[r].open /\ saved.there /\ raced' = raced /\ OpenEdits(editing[r])
      /\ saved \in Access!Rows /\ typed \in Access!Targets
  BY DEF Access!Commit, RightsInv, EditsInv, RightsTypes, Access!Idle
<1>2. /\ DOMAIN editing' = Callers
      /\ \A x \in Callers : x # r => editing'[x] = editing[x]
      /\ editing'[r] = Access!Idle /\ editing'[r].open = FALSE
  BY DEF Access!Commit, RightsInv, RightsTypes, Access!Idle
<1>3. /\ saved'.there = TRUE /\ saved'.owner = saved.owner /\ saved' \in Access!Rows
      /\ \/ /\ \A f \in Access!Fields : saved'[f] = After(editing[r], f)
            /\ typed' = IF editing[r].typed # None THEN editing[r].typed ELSE typed
            /\ pasted' = (pasted \/ editing[r].pasted)
         \/ UNCHANGED <<saved, typed, pasted>>
  <2>1. CASE UNCHANGED <<saved, typed, pasted>>
    BY <1>1, <2>1, RowFields
  <2>2. CASE /\ saved' = [f \in DOMAIN saved |->
                            IF f \in DOMAIN editing[r].set THEN editing[r].set[f] ELSE saved[f]]
             /\ typed' = IF editing[r].typed # None THEN editing[r].typed ELSE typed
             /\ pasted' = (pasted \/ editing[r].pasted)
    <3>1. /\ DOMAIN saved' = DOMAIN saved
          /\ \A f \in DOMAIN saved : saved'[f] = After(editing[r], f)
      BY <2>2 DEF After
    <3>2. \A f \in Access!Fields : f \in DOMAIN saved /\ saved[f] \in FieldValues(f)
      BY <1>1, RowFields DEF Access!Fields, FieldValues
    <3>3. \A f \in Access!Fields : saved'[f] \in FieldValues(f)
      BY <1>1, <3>1, <3>2 DEF After, OpenEdits
    <3>4. saved'["there"] = TRUE /\ saved'["owner"] = saved["owner"]
      BY <1>1, <3>1, RowFields DEF After, OpenEdits, Access!Fields
    <3>5. saved' = [there |-> saved'["there"], owner |-> saved'["owner"],
                    visibility |-> saved'["visibility"], environment |-> saved'["environment"],
                    gateway |-> saved'["gateway"], host |-> saved'["host"],
                    database |-> saved'["database"]]
      BY <1>1, <2>2, RowFields
    <3>6. saved' \in Access!Rows
      BY <1>1, <3>3, <3>4, <3>5, RowFields DEF Access!Rows, Access!Fields, FieldValues
    <3> QED BY <2>2, <3>1, <3>2, <3>4, <3>6
  <2> QED BY <2>1, <2>2 DEF Access!Commit
<1>4. RightsTypes'
  <2>1. \A x \in Callers : editing'[x] = Access!Idle \/ OpenEdits(editing[x])'
    BY <1>2 DEF RightsInv, RightsTypes, OpenEdits
  <2>2. typed' \in Access!Targets /\ pasted' \in BOOLEAN
    BY <1>1, <1>3 DEF OpenEdits, RightsInv, RightsTypes
  <2> QED BY <1>1, <1>2, <1>3, <2>1, <2>2 DEF RightsInv, RightsTypes
<1>5. EditsInv'
  <2>1. ASSUME ~raced' PROVE \A x \in Callers : ~editing'[x].open
    BY <1>1, <1>2, <2>1 DEF RightsInv, EditsInv
  <2>2. \A x \in Callers : editing'[x].open => x # r /\ editing'[x] = editing[x]
    BY <1>2
  <2> QED BY <1>1, <1>3, <2>1, <2>2 DEF RightsInv, EditsInv
<1>6. Access!CredentialsStayPut'
  <2> SUFFICES ASSUME ~raced', ~pasted' PROVE typed' = <<saved'.host, saved'.database>>
    BY DEF Access!CredentialsStayPut
  <2>1. Fits(editing[r]) /\ ~pasted /\ typed = <<saved.host, saved.database>>
    BY <1>1, <1>3 DEF RightsInv, RightsTypes, EditsInv, Access!CredentialsStayPut
  <2> QED BY <1>3, <2>1 DEF Fits, Access!Fields
<1>7. Access!OwnerAloneShares
  <2> SUFFICES ASSUME NEW u \in Users \ {saved.owner}, Access!Uses(u)', ~Access!Uses(u)
               PROVE  editing[r].user = saved.owner
    BY <1>1, <1>2 DEF Access!OwnerAloneShares
  <2>1. saved'["visibility"] = "organization" /\ saved["visibility"] # "organization"
    BY <1>1, <1>3 DEF Access!Uses, Access!may_access
  <2>2. "visibility" \in DOMAIN editing[r].set /\ editing[r].set["visibility"] = "organization"
    BY <1>3, <2>1 DEF After, Access!Fields
  <2> QED BY <1>1, <2>2 DEF RightsInv, EditsInv
<1>8. Access!OwnScopeHolds
  <2> SUFFICES ASSUME NEW x \in Callers, editing[x].open, ~editing'[x].open, saved' # saved,
                      "write" \notin Rights[editing[x].user], ~raced
               PROVE  Private(saved) /\ Private(saved')
    BY DEF Access!OwnScopeHolds, Private
  <2>1. x = r
    BY <1>2
  <2>2. Fits(editing[r])
    BY <1>1 DEF RightsInv, EditsInv
  <2> QED BY <1>3, <2>1, <2>2 DEF Fits, Private, Access!Fields
<1> QED BY <1>4, <1>5, <1>6, <1>7, <1>8 DEF RightsStep, RightsInv

\* The inductive step of the edits.
LEMMA NextRights == RightsInv /\ [Access!Next]_accessVars => RightsInv' /\ [RightsStep]_accessVars
<1> SUFFICES ASSUME RightsInv, [Access!Next]_accessVars PROVE RightsInv' /\ [RightsStep]_accessVars
  OBVIOUS
<1>1. CASE Access!Next
  BY <1>1, CreateRights, DeleteRights, EditRights, CommitRights DEF Access!Next, RightsStep
<1>2. CASE UNCHANGED accessVars
  BY <1>2 DEF accessVars, RightsInv, RightsTypes, OpenEdits, After, Fits, Private, EditsInv, Access!CredentialsStayPut
<1> QED BY <1>1, <1>2

\* The part of a behaviour that edits keeps the invariant.
EditedRightly == part = "access" => RightsInv

\* In the composition with the requests that use connections.
LEMMA RightsCompose ==
  /\ MCInit => EditedRightly
  /\ EditedRightly /\ [MCNext]_MCvars => EditedRightly' /\ [part = "access" => RightsStep]_accessVars
<1>1. MCInit => EditedRightly
  BY InitRights DEF MCInit, EditedRightly
<1>2. ASSUME EditedRightly, [MCNext]_MCvars, part = "access" \/ part' = "access"
      PROVE  RightsInv /\ [Access!Next]_accessVars
  BY <1>2 DEF MCNext, MCvars, accessVars, EditedRightly
<1> QED
  BY <1>1, <1>2, NextRights DEF EditedRightly

\* Through any sequence of edits that do not overlap, a saved password is sent only
\* where it was typed for (update_connection).
THEOREM PasswordsStayPut == MCSpec => []CredentialsStayPut
<1>1. EditedRightly => CredentialsStayPut
  BY DEF EditedRightly, RightsInv, RightsTypes, OpenEdits, CredentialsStayPut, Access!TypeOK
<1> QED BY <1>1, RightsCompose, PTL DEF MCSpec

\* Nobody but its owner opens a private connection to others, however edits overlap, and
\* tm1.connections.own reaches private, direct DEV connections only (update_connection,
\* _check_own_scope).
THEOREM EditsStayWithinRights == MCSpec => RightsBoundEdits
<1>1. EditedRightly /\ [MCNext]_MCvars =>
        [part = "access" => Access!OwnerAloneShares /\ Access!OwnScopeHolds]_accessVars
  BY RightsCompose DEF RightsStep
<1> QED BY <1>1, RightsCompose, PTL DEF MCSpec, RightsBoundEdits
============================================================================

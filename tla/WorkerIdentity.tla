--------------------------- MODULE WorkerIdentity ---------------------------
(***************************************************************************)
(* The identity of one report worker: its row in report_workers, the       *)
(* enrollment token an administrator hands out, the long-lived credential   *)
(* the worker spends it for, and the short-lived access tokens the          *)
(* credential is exchanged for.                                            *)
(*                                                                         *)
(* As in ReportExecutions, a request reads and checks the row in one step  *)
(* and writes it in another; the ORM writes only the columns whose value   *)
(* differs from the one loaded.  Secrets and enrollment tokens are random, *)
(* so each is a number never used before; hashing is a bijection on them.  *)
(***************************************************************************)
EXTENDS Integers

CONSTANTS Sessions,    \* database sessions serving API requests
          MaxMinted,   \* bound: secrets and enrollment tokens ever generated
          MaxVersion   \* bound: secret_version

ASSUME BoundsAssumption == MaxMinted \in Nat \ {0} /\ MaxVersion \in Nat \ {0}

VARIABLES status,     \* ReportWorker.status
          secret,     \* secret_hash, 0 when null
          enrollment, \* enrollment_token_hash, 0 when null
          fresh,      \* enrollment_expires_at is in the future
          version,    \* secret_version
          minted,     \* how many secrets and tokens have been generated
          tokens,     \* worker access tokens that have not expired
          spent,      \* <<enrollment token, secret>>: what each one bought
          session     \* what each open transaction read and will write

row  == <<status, secret, enrollment, fresh, version>>
vars == <<status, secret, enrollment, fresh, version, minted, tokens, spent, session>>

Statuses == {"pending", "online", "busy", "offline", "disabled"}
Ids      == 0 .. MaxMinted
Versions == 1 .. MaxVersion

Idle == [op |-> "idle"]

AdminOps == {"rotate", "reissue", "disable", "enable"}

Snapshot == [status : Statuses, secret : Ids, enrollment : Ids, version : Versions]

Transactions ==
       {Idle}
  \cup [op : AdminOps \cup {"enroll"}, read : Snapshot, new : Ids]
  \cup [op : {"heartbeat"}, read : Snapshot, now : {"online", "busy"}]

TypeOK ==
  /\ status \in Statuses
  /\ secret \in Ids /\ enrollment \in Ids /\ minted \in Ids
  /\ fresh \in BOOLEAN
  /\ version \in Versions
  /\ tokens \subseteq [sv : Versions, by : Ids]
  /\ spent \subseteq Ids \X Ids
  /\ session \in [Sessions -> Transactions]

\* register: a pending row holding its first enrollment token.
Init ==
  /\ status = "pending"
  /\ secret = 0 /\ enrollment = 1 /\ fresh = TRUE /\ minted = 1
  /\ version = 1
  /\ tokens = {} /\ spent = {}
  /\ session = [s \in Sessions |-> Idle]

-----------------------------------------------------------------------------
Read == [status |-> status, secret |-> secret, enrollment |-> enrollment, version |-> version]

\* A handler that generates a secret or a token does so before it writes.
Open(s, name, mints) ==
  /\ session[s] = Idle
  /\ mints => minted < MaxMinted
  /\ minted' = IF mints THEN minted + 1 ELSE minted
  /\ session' = [session EXCEPT ![s] = [op |-> name, read |-> Read, new |-> minted']]
  /\ UNCHANGED <<status, secret, enrollment, fresh, version, tokens, spent>>

BeginRotate(s) ==
  /\ status # "pending"
  /\ version < MaxVersion
  /\ Open(s, "rotate", TRUE)

BeginReissue(s) ==
  /\ status # "disabled"
  /\ version < MaxVersion
  /\ Open(s, "reissue", TRUE)

BeginDisable(s) == Open(s, "disable", FALSE)

\* Enabling a worker that is not disabled returns it unchanged.
BeginEnable(s) ==
  /\ status = "disabled"
  /\ Open(s, "enable", FALSE)

\* enroll looks the row up by the hash of the token it was given.
BeginEnroll(s) ==
  /\ enrollment # 0
  /\ status # "disabled"
  /\ fresh
  /\ Open(s, "enroll", TRUE)

(***************************************************************************)
(* resolve_token_subject: an access token is good for a request only if    *)
(* the row still has its version, is not disabled and has a credential.    *)
(***************************************************************************)
Accepted(t) == t.sv = version /\ status # "disabled" /\ secret # 0

BeginHeartbeat(s, busy) ==
  /\ \E t \in tokens : Accepted(t)
  /\ session[s] = Idle
  /\ session' = [session EXCEPT ![s] = [op |-> "heartbeat", read |-> Read,
                                        now |-> IF busy THEN "busy" ELSE "online"]]
  /\ UNCHANGED <<status, secret, enrollment, fresh, version, minted, tokens, spent>>

-----------------------------------------------------------------------------
\* The ORM's unit of work: a column is written if it was given a new value.
Flush(column, loaded, assigned) == IF assigned = loaded THEN column ELSE assigned

Close(s) == session' = [session EXCEPT ![s] = Idle]

CommitRotate(s) ==
  LET txn == session[s] IN
  /\ txn.op = "rotate"
  /\ secret' = txn.new
  /\ version' = txn.read.version + 1
  /\ Close(s)
  /\ UNCHANGED <<status, enrollment, fresh, minted, tokens, spent>>

\* Mutant: a re-issued worker starts over at version 1, as register does.
CommitReissue_Restarts(s) ==
  LET txn == session[s] IN
  /\ txn.op = "reissue"
  /\ enrollment' = txn.new /\ fresh' = TRUE
  /\ secret' = Flush(secret, txn.read.secret, 0)
  /\ version' = 1
  /\ status' = Flush(status, txn.read.status, "pending")
  /\ Close(s)
  /\ UNCHANGED <<minted, tokens, spent>>

CommitReissue(s) ==
  LET txn == session[s] IN
  /\ txn.op = "reissue"
  /\ enrollment' = txn.new /\ fresh' = TRUE
  /\ secret' = Flush(secret, txn.read.secret, 0)
  /\ version' = txn.read.version + 1
  /\ status' = Flush(status, txn.read.status, "pending")
  /\ Close(s)
  /\ UNCHANGED <<minted, tokens, spent>>

CommitEnabled(s) ==
  LET txn == session[s] IN
  /\ \/ /\ txn.op = "disable"
        /\ status' = Flush(status, txn.read.status, "disabled")
     \/ /\ txn.op = "enable"
        /\ status' = IF txn.read.secret # 0 THEN "offline" ELSE "pending"
  /\ Close(s)
  /\ UNCHANGED <<secret, enrollment, fresh, version, minted, tokens, spent>>

\* Mutant: enrollment leaves the token it spent in the row.
CommitEnroll_KeepsToken(s) ==
  LET txn == session[s] IN
  /\ txn.op = "enroll"
  /\ secret' = txn.new
  /\ status' = Flush(status, txn.read.status, "online")
  /\ spent' = spent \cup {<<txn.read.enrollment, txn.new>>}
  /\ Close(s)
  /\ UNCHANGED <<enrollment, fresh, version, minted, tokens>>

CommitEnroll(s) ==
  LET txn == session[s] IN
  /\ txn.op = "enroll"
  /\ secret' = txn.new
  /\ enrollment' = 0 /\ fresh' = FALSE
  /\ status' = Flush(status, txn.read.status, "online")
  /\ spent' = spent \cup {<<txn.read.enrollment, txn.new>>}
  /\ Close(s)
  /\ UNCHANGED <<version, minted, tokens>>

CommitHeartbeat(s) ==
  LET txn == session[s] IN
  /\ txn.op = "heartbeat"
  /\ status' = Flush(status, txn.read.status, txn.now)
  /\ Close(s)
  /\ UNCHANGED <<secret, enrollment, fresh, version, minted, tokens, spent>>

Rollback(s) ==
  /\ session[s] # Idle
  /\ Close(s)
  /\ UNCHANGED <<status, secret, enrollment, fresh, version, minted, tokens, spent>>

-----------------------------------------------------------------------------
\* authenticate and create_worker_token: one read, nothing written.
IssueToken ==
  /\ secret # 0
  /\ status # "disabled"
  /\ tokens' = tokens \cup {[sv |-> version, by |-> secret]}
  /\ UNCHANGED <<status, secret, enrollment, fresh, version, minted, spent, session>>

TokenExpires(t) ==
  /\ tokens' = tokens \ {t}
  /\ UNCHANGED <<status, secret, enrollment, fresh, version, minted, spent, session>>

EnrollmentExpires ==
  /\ fresh
  /\ fresh' = FALSE
  /\ UNCHANGED <<status, secret, enrollment, version, minted, tokens, spent, session>>

Begin(s) ==
  \/ BeginRotate(s) \/ BeginReissue(s) \/ BeginDisable(s) \/ BeginEnable(s)
  \/ BeginEnroll(s)
  \/ \E busy \in BOOLEAN : BeginHeartbeat(s, busy)

Commit(s) ==
  \/ CommitRotate(s) \/ CommitReissue(s) \/ CommitEnabled(s)
  \/ CommitEnroll(s) \/ CommitHeartbeat(s)

Next ==
  \/ \E s \in Sessions : Begin(s) \/ Commit(s) \/ Rollback(s)
  \/ IssueToken \/ EnrollmentExpires
  \/ \E t \in tokens : TokenExpires(t)

Spec == Init /\ [][Next]_vars

\* No two transactions are open.
Serialised == \A s, t \in Sessions : session[s] # Idle /\ session[t] # Idle => s = t

SerialSpec == Init /\ [][Next /\ Serialised']_vars

-----------------------------------------------------------------------------
\* An enrollment token buys at most one credential (enroll: "Single-use by
\* construction: the token hash is cleared in the same transaction").
SingleUse == \A p, q \in spent : p[1] = q[1] => p = q

\* One request at a time: a credential that was rotated or re-issued stays revoked, with
\* every access token it was exchanged for (rotate_credential: "invalidate everything in
\* flight"), and a disabled worker stays disabled until an administrator enables it.
RevokedForGood ==
  /\ \A t \in tokens : t.sv # version => t.sv # version'
  /\ \A s \in Sessions :
       session[s].op = "rotate" /\ secret' # secret =>
         \A t \in tokens : t.by = secret => t.sv # version'
  /\ status = "disabled" /\ status' # "disabled" =>
       \E s \in Sessions : session[s].op = "enable" /\ session'[s] = Idle

\* However requests overlap, a spent enrollment token is not offered again.
SpentIsGone == \A p \in spent : p[1] # enrollment

(***************************************************************************)
(* Why it is: the token a reissue is about to write is nobody else's, not  *)
(* even that of an enrollment still open.                                  *)
(***************************************************************************)
VersionsFit ==
  \A s \in Sessions : session[s].op \in {"rotate", "reissue"} =>
                        session[s].read.version < MaxVersion

SpentInv == \A p \in spent : p[1] \in 1 .. minted /\ p[1] # enrollment

EnrollingInv ==
  \A s \in Sessions : session[s].op = "enroll" => session[s].read.enrollment \in 1 .. minted

ReissuedInv ==
  \A s \in Sessions : session[s].op = "reissue" =>
    /\ session[s].new \in 1 .. minted
    /\ session[s].new # enrollment
    /\ \A p \in spent : p[1] # session[s].new
    /\ \A t \in Sessions : session[t].op = "enroll" => session[t].read.enrollment # session[s].new
    /\ \A t \in Sessions : session[t].op = "reissue" /\ t # s => session[t].new # session[s].new

\* The inductive invariant of overlapping requests on one worker's row.
IdentityInv ==
  /\ TypeOK /\ VersionsFit
  /\ enrollment <= minted
  /\ SpentInv /\ EnrollingInv /\ ReissuedInv
=============================================================================

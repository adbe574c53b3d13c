------------------------ MODULE AccountsProofs ------------------------
(***************************************************************************)
(* Who is who and who may do what, part by part as MCAccounts has it, for  *)
(* any number of overlapping requests and any bounds: a spent enrollment   *)
(* token is never offered again, what ends every session leaves no earlier *)
(* token alive, a browser presents a token once, ranks are kept and the    *)
(* hands-free conversation keeps its turns.  One request at a time, what   *)
(* may be used once is used once, and what is revoked stays revoked.       *)
(***************************************************************************)
EXTENDS MCAccounts, FiniteSetTheorems, SequenceTheorems, TLAPS

\* A worker just registered satisfies the invariant.
LEMMA InitIdentity == Init => IdentityInv
  BY BoundsAssumption
  DEF Init, IdentityInv, TypeOK, VersionsFit, SpentInv, EnrollingInv, ReissuedInv,
      Statuses, Ids, Versions, Transactions, Idle

\* A request that opens records what it read and reserves what it generates.
LEMMA OpenKeeps ==
  ASSUME IdentityInv, NEW s \in Sessions,
         NEW name \in AdminOps \cup {"enroll"}, NEW mints \in BOOLEAN,
         Open(s, name, mints),
         name = "reissue" => mints,
         name \in {"rotate", "reissue"} => version < MaxVersion,
         name = "enroll" => enrollment # 0
  PROVE  IdentityInv'
<1> USE BoundsAssumption
<1> DEFINE txn == [op |-> name, read |-> Read, new |-> minted']
<1>1. /\ session[s] = Idle /\ session' = [session EXCEPT ![s] = txn]
      /\ UNCHANGED <<status, secret, enrollment, fresh, version, tokens, spent>>
      /\ minted' \in Ids /\ minted <= minted'
      /\ mints => minted' = minted + 1
  BY DEF Open, IdentityInv, TypeOK, Ids
<1>2. Read \in Snapshot
  BY DEF Read, Snapshot, IdentityInv, TypeOK
<1>3. txn \in Transactions
  BY <1>1, <1>2 DEF Transactions
<1>4. TypeOK'
  BY <1>1, <1>3 DEF IdentityInv, TypeOK
<1>5. \A t \in Sessions : session'[t] = IF t = s THEN txn ELSE session[t]
  BY <1>1 DEF IdentityInv, TypeOK
<1>6. Read.version = version /\ Read.enrollment = enrollment
  BY DEF Read
<1>7. txn.op = name /\ txn.read = Read /\ txn.new = minted'
  OBVIOUS
<1> HIDE DEF txn
<1>8. VersionsFit'
  BY <1>5, <1>6, <1>7 DEF IdentityInv, VersionsFit
<1>9. (enrollment <= minted)' /\ SpentInv'
  BY <1>1 DEF IdentityInv, SpentInv, TypeOK, Ids
<1>10. EnrollingInv'
  BY <1>1, <1>5, <1>6, <1>7 DEF IdentityInv, EnrollingInv, TypeOK, Ids
<1>11. ReissuedInv'
  BY <1>1, <1>5, <1>6, <1>7 DEF IdentityInv, ReissuedInv, EnrollingInv, SpentInv, TypeOK, Ids
<1> QED
  BY <1>4, <1>8, <1>9, <1>10, <1>11 DEF IdentityInv

\* Closing a session takes its obligations away and adds none.
LEMMA CloseSession ==
  ASSUME TypeOK, NEW s \in Sessions, Close(s)
  PROVE  /\ session' \in [Sessions -> Transactions]
         /\ \A t \in Sessions : session'[t] = IF t = s THEN Idle ELSE session[t]
         /\ Idle.op = "idle"
  BY DEF Close, TypeOK, Transactions, Idle

\* Requests that read an enabled or disabled row and open nothing new.
LEMMA HeartbeatKeeps ==
  ASSUME IdentityInv, NEW s \in Sessions, NEW busy \in BOOLEAN, BeginHeartbeat(s, busy)
  PROVE  IdentityInv'
<1> DEFINE txn == [op |-> "heartbeat", read |-> Read, now |-> IF busy THEN "busy" ELSE "online"]
<1>1. /\ session' = [session EXCEPT ![s] = txn]
      /\ UNCHANGED <<status, secret, enrollment, fresh, version, minted, tokens, spent>>
  BY DEF BeginHeartbeat
<1>2. txn \in Transactions
  BY DEF Transactions, Read, Snapshot, IdentityInv, TypeOK
<1>3. \A t \in Sessions : session'[t] = IF t = s THEN txn ELSE session[t]
  BY <1>1 DEF IdentityInv, TypeOK
<1>4. txn.op = "heartbeat"
  OBVIOUS
<1>5. TypeOK'
  BY <1>1, <1>2 DEF IdentityInv, TypeOK
<1> HIDE DEF txn
<1> QED
  BY <1>1, <1>3, <1>4, <1>5
  DEF IdentityInv, VersionsFit, SpentInv, EnrollingInv, ReissuedInv

\* What a stored transaction is, by the operation it performs.
LEMMA TransactionFields ==
  ASSUME TypeOK, NEW s \in Sessions
  PROVE  /\ session[s].op \in AdminOps \cup {"enroll"} =>
              /\ session[s].new \in Ids
              /\ session[s].read.version \in Versions
              /\ session[s].read.enrollment \in Ids
         /\ session[s].op = "heartbeat" => session[s].now \in Statuses
  BY DEF TypeOK, Transactions, Idle, AdminOps, Snapshot, Statuses

\* Every commit keeps the invariant: only reissue writes a token, and it is new.
LEMMA CommitKeeps ==
  ASSUME IdentityInv, NEW s \in Sessions, Commit(s) \/ Rollback(s)
  PROVE  IdentityInv'
<1> DEFINE txn == session[s]
<1>0. TypeOK
  BY DEF IdentityInv
<1>1. Close(s)
  BY DEF Commit, Rollback, CommitRotate, CommitReissue, CommitEnabled, CommitEnroll, CommitHeartbeat
<1>2. /\ session' \in [Sessions -> Transactions]
      /\ \A t \in Sessions : session'[t] = IF t = s THEN Idle ELSE session[t]
      /\ Idle.op = "idle"
  BY <1>0, <1>1, CloseSession
<1>3. ASSUME UNCHANGED <<enrollment, minted, spent>>, TypeOK'
      PROVE  IdentityInv'
  BY <1>2, <1>3 DEF IdentityInv, VersionsFit, SpentInv, EnrollingInv, ReissuedInv
<1>4. CASE CommitRotate(s)
  <2>1. txn.op = "rotate" /\ txn.new \in Ids /\ txn.read.version + 1 \in Versions
    BY <1>0, <1>4, TransactionFields, BoundsAssumption
    DEF CommitRotate, IdentityInv, VersionsFit, AdminOps, Versions
  <2>2. TypeOK'
    BY <1>0, <1>2, <1>4, <2>1 DEF CommitRotate, TypeOK
  <2> QED
    BY <1>3, <1>4, <2>2 DEF CommitRotate
<1>5. CASE CommitReissue(s)
  <2>1. /\ txn.op = "reissue" /\ txn.new \in Ids /\ txn.read.version + 1 \in Versions
        /\ txn.new \in 1 .. minted
    BY <1>0, <1>5, TransactionFields, BoundsAssumption
    DEF CommitReissue, IdentityInv, VersionsFit, ReissuedInv, AdminOps, Versions
  <2>2. secret' \in Ids /\ status' \in Statuses
    BY <1>0, <1>5, BoundsAssumption DEF CommitReissue, TypeOK, Statuses, Ids, Flush
  <2>3. TypeOK'
    BY <1>0, <1>2, <1>5, <2>1, <2>2 DEF CommitReissue, TypeOK
  <2>4. enrollment' = txn.new /\ minted' = minted /\ spent' = spent
    BY <1>5 DEF CommitReissue
  <2> QED
    BY <1>2, <2>1, <2>3, <2>4
    DEF IdentityInv, VersionsFit, SpentInv, EnrollingInv, ReissuedInv, TypeOK, Ids
<1>6. CASE CommitEnabled(s)
  <2>1. status' \in Statuses
    BY <1>0, <1>6 DEF CommitEnabled, Flush, TypeOK, Statuses
  <2>2. TypeOK'
    BY <1>0, <1>2, <1>6, <2>1 DEF CommitEnabled, TypeOK
  <2> QED
    BY <1>3, <1>6, <2>2 DEF CommitEnabled
<1>7. CASE CommitEnroll(s)
  <2>1. /\ txn.op = "enroll" /\ txn.new \in Ids /\ txn.read.enrollment \in 1 .. minted
        /\ txn.read.enrollment \in Ids
    BY <1>0, <1>7, TransactionFields DEF CommitEnroll, IdentityInv, EnrollingInv
  <2>2. status' \in Statuses
    BY <1>0, <1>7 DEF CommitEnroll, Flush, TypeOK, Statuses
  <2>3. /\ enrollment' = 0 /\ minted' = minted
        /\ spent' = spent \cup {<<txn.read.enrollment, txn.new>>}
    BY <1>7 DEF CommitEnroll
  <2>4. TypeOK'
    <3>1. spent' \subseteq Ids \X Ids
      BY <1>0, <2>1, <2>3 DEF TypeOK
    <3>2. 0 \in Ids
      BY BoundsAssumption DEF Ids
    <3> QED
      BY <1>0, <1>2, <1>7, <2>1, <2>2, <2>3, <3>1, <3>2 DEF CommitEnroll, TypeOK
  <2>5. \A p \in spent' : p \in spent \/ p[1] = txn.read.enrollment
    BY <2>3
  <2>6. SpentInv'
    BY <2>1, <2>3, <2>5 DEF IdentityInv, SpentInv, TypeOK, Ids
  <2>7. ReissuedInv'
    BY <1>2, <2>1, <2>3, <2>5 DEF IdentityInv, ReissuedInv, TypeOK, Ids
  <2> QED
    BY <1>2, <2>3, <2>4, <2>6, <2>7 DEF IdentityInv, VersionsFit, EnrollingInv, TypeOK, Ids
<1>8. CASE CommitHeartbeat(s)
  <2>1. status' \in Statuses
    BY <1>0, <1>8, TransactionFields DEF CommitHeartbeat, Flush, TypeOK
  <2>2. TypeOK'
    BY <1>0, <1>2, <1>8, <2>1 DEF CommitHeartbeat, TypeOK
  <2> QED
    BY <1>3, <1>8, <2>2 DEF CommitHeartbeat
<1>9. CASE Rollback(s)
  <2>1. TypeOK'
    BY <1>0, <1>2, <1>9 DEF Rollback, TypeOK
  <2> QED
    BY <1>3, <1>9, <2>1 DEF Rollback
<1> QED
  BY <1>4, <1>5, <1>6, <1>7, <1>8, <1>9 DEF Commit

\* IdentityInv is inductive.
LEMMA NextIdentity == IdentityInv /\ [Next]_vars => IdentityInv'
<1> SUFFICES ASSUME IdentityInv, [Next]_vars PROVE IdentityInv'
  OBVIOUS
<1>1. ASSUME NEW s \in Sessions, Begin(s) PROVE IdentityInv'
  <2>1. CASE BeginRotate(s)
    BY <2>1, OpenKeeps DEF BeginRotate, AdminOps
  <2>2. CASE BeginReissue(s)
    BY <2>2, OpenKeeps DEF BeginReissue, AdminOps
  <2>3. CASE BeginDisable(s)
    BY <2>3, OpenKeeps DEF BeginDisable, AdminOps
  <2>4. CASE BeginEnable(s)
    BY <2>4, OpenKeeps DEF BeginEnable, AdminOps
  <2>5. CASE BeginEnroll(s)
    BY <2>5, OpenKeeps DEF BeginEnroll
  <2>6. CASE \E busy \in BOOLEAN : BeginHeartbeat(s, busy)
    BY <2>6, HeartbeatKeeps
  <2> QED
    BY <1>1, <2>1, <2>2, <2>3, <2>4, <2>5, <2>6 DEF Begin
<1>2. ASSUME NEW s \in Sessions, Commit(s) \/ Rollback(s) PROVE IdentityInv'
  BY <1>2, CommitKeeps
<1>3. ASSUME UNCHANGED <<status, secret, enrollment, version, minted, spent, session>>, TypeOK'
      PROVE  IdentityInv'
  BY <1>3 DEF IdentityInv, VersionsFit, SpentInv, EnrollingInv, ReissuedInv
<1>4. CASE IssueToken
  BY <1>3, <1>4 DEF IssueToken, IdentityInv, TypeOK
<1>5. CASE EnrollmentExpires
  BY <1>3, <1>5 DEF EnrollmentExpires, IdentityInv, TypeOK
<1>6. ASSUME NEW t \in tokens, TokenExpires(t) PROVE IdentityInv'
  BY <1>3, <1>6 DEF TokenExpires, IdentityInv, TypeOK
<1>7. CASE UNCHANGED vars
  BY <1>3, <1>7 DEF vars, IdentityInv, TypeOK
<1> QED
  BY <1>1, <1>2, <1>4, <1>5, <1>6, <1>7 DEF Next

\* However requests overlap, what each open request read and generated keeps
\* the enrollment tokens of one worker apart.
THEOREM IdentityInvariant == Spec => []IdentityInv
<1> QED
  BY InitIdentity, NextIdentity, PTL DEF Spec

\* A spent enrollment token is not offered again (enroll clears it in the
\* transaction that writes the credential).
THEOREM SpentTokensAreGone == Spec => []SpentIsGone
<1>1. IdentityInv => SpentIsGone
  BY DEF IdentityInv, SpentInv, SpentIsGone
<1> QED
  BY <1>1, IdentityInvariant, PTL

-----------------------------------------------------------------------------
(* One request at a time.                                                  *)

\* What an open request read is still the row, and its checks still hold.
StillRead(s) ==
  /\ session[s].op \in AdminOps \cup {"enroll"} => session[s].read = Read
  /\ session[s].op = "enroll" => enrollment # 0
  /\ session[s].op \in {"reissue", "enroll", "heartbeat"} => status # "disabled"

\* No access token is of a version to come.
TokensBehind == \A t \in tokens : t.sv <= version

AloneInv ==
  /\ IdentityInv /\ Serialised /\ SingleUse /\ TokensBehind
  /\ \A s \in Sessions : StillRead(s)

LEMMA InitAlone == Init => AloneInv
<1> SUFFICES ASSUME Init PROVE AloneInv
  OBVIOUS
<1>1. \A s \in Sessions : session[s] = Idle /\ session[s].op = "idle"
  BY DEF Init, Idle
<1> QED
  BY <1>1, InitIdentity
  DEF Init, AloneInv, Serialised, SingleUse, TokensBehind, StillRead, AdminOps

\* A request that begins reads the row as it is.
LEMMA BeginReads ==
  ASSUME TypeOK, NEW s \in Sessions, Begin(s)
  PROVE  /\ UNCHANGED <<status, secret, enrollment, fresh, version, tokens, spent>>
         /\ \A t \in Sessions : t # s => session'[t] = session[t]
         /\ StillRead(s)'
<1>1. ASSUME NEW name \in AdminOps \cup {"enroll"}, NEW mints \in BOOLEAN, Open(s, name, mints)
      PROVE  /\ UNCHANGED <<status, secret, enrollment, fresh, version, tokens, spent>>
             /\ \A t \in Sessions : t # s => session'[t] = session[t]
             /\ session'[s].op = name /\ session'[s].read = Read /\ Read' = Read
  BY <1>1 DEF Open, TypeOK, Read
<1>2. CASE BeginRotate(s)
  <2>1. Open(s, "rotate", TRUE)
    BY <1>2 DEF BeginRotate
  <2>2. "rotate" \in AdminOps \cup {"enroll"} /\ TRUE \in BOOLEAN
    BY DEF AdminOps
  <2> QED
    BY <1>1, <2>1, <2>2 DEF StillRead
<1>3. CASE BeginReissue(s)
  <2>1. Open(s, "reissue", TRUE) /\ status # "disabled"
    BY <1>3 DEF BeginReissue
  <2>2. "reissue" \in AdminOps \cup {"enroll"} /\ TRUE \in BOOLEAN
    BY DEF AdminOps
  <2> QED
    BY <1>1, <2>1, <2>2 DEF StillRead
<1>4. CASE BeginDisable(s)
  <2>1. Open(s, "disable", FALSE)
    BY <1>4 DEF BeginDisable
  <2>2. "disable" \in AdminOps \cup {"enroll"} /\ FALSE \in BOOLEAN
    BY DEF AdminOps
  <2> QED
    BY <1>1, <2>1, <2>2 DEF StillRead
<1>5. CASE BeginEnable(s)
  <2>1. Open(s, "enable", FALSE)
    BY <1>5 DEF BeginEnable
  <2>2. "enable" \in AdminOps \cup {"enroll"} /\ FALSE \in BOOLEAN
    BY DEF AdminOps
  <2> QED
    BY <1>1, <2>1, <2>2 DEF StillRead
<1>6. CASE BeginEnroll(s)
  BY <1>1, <1>6 DEF BeginEnroll, AdminOps, StillRead
<1>7. ASSUME NEW busy \in BOOLEAN, BeginHeartbeat(s, busy)
      PROVE  /\ UNCHANGED <<status, secret, enrollment, fresh, version, tokens, spent>>
             /\ \A t \in Sessions : t # s => session'[t] = session[t]
             /\ StillRead(s)'
  <2>1. session'[s].op = "heartbeat" /\ status # "disabled" /\ status' = status
    BY <1>7 DEF BeginHeartbeat, Accepted, TypeOK
  <2> QED
    BY <1>7, <2>1 DEF BeginHeartbeat, TypeOK, StillRead, AdminOps
<1> QED
  BY <1>2, <1>3, <1>4, <1>5, <1>6, <1>7 DEF Begin

\* A request that ends was alone, and nothing is open after it.
LEMMA EndsAlone ==
  ASSUME AloneInv, NEW s \in Sessions, Commit(s) \/ Rollback(s)
  PROVE  /\ session[s] # Idle /\ StillRead(s) /\ \A t \in Sessions : session'[t] = Idle
         /\ session[s].op # "idle"
<1>1. Close(s) /\ session[s] # Idle
  BY DEF Commit, Rollback, CommitRotate, CommitReissue, CommitEnabled, CommitEnroll,
         CommitHeartbeat, Idle
<1>2. \A t \in Sessions : session'[t] = IF t = s THEN Idle ELSE session[t]
  BY <1>1, CloseSession DEF AloneInv, IdentityInv
<1>3. \A t \in Sessions : t # s => session[t] = Idle
  BY <1>1 DEF AloneInv, Serialised
<1>4. session[s].op # "idle"
  BY <1>1 DEF AloneInv, IdentityInv, TypeOK, Transactions, AdminOps
<1> QED
  BY <1>1, <1>2, <1>3, <1>4 DEF AloneInv

\* What the end of a request does to the row, read as it is.
LEMMA EndEffect ==
  ASSUME AloneInv, NEW s \in Sessions, Commit(s) \/ Rollback(s)
  PROVE  /\ tokens' = tokens /\ version \in Int
         /\ version' = version \/ version' = version + 1
         /\ session[s].op = "rotate" => secret' = secret \/ version' = version + 1
         /\ \/ spent' = spent
            \/ \E new : spent' = spent \cup {<<enrollment, new>>} /\ enrollment # 0
         /\ status = "disabled" /\ status' # "disabled" => session[s].op = "enable"
<1>1. StillRead(s) /\ version \in Int
  BY EndsAlone DEF AloneInv, IdentityInv, TypeOK, Versions
<1>2. Read.version = version /\ Read.enrollment = enrollment /\ Read.status = status
  BY DEF Read
<1>3. CASE CommitRotate(s)
  BY <1>1, <1>2, <1>3 DEF CommitRotate, StillRead, AdminOps
<1>4. CASE CommitReissue(s)
  BY <1>1, <1>2, <1>4 DEF CommitReissue, StillRead, AdminOps
<1>5. CASE CommitEnabled(s)
  BY <1>1, <1>2, <1>5 DEF CommitEnabled, StillRead, AdminOps, Flush
<1>6. CASE CommitEnroll(s)
  BY <1>1, <1>2, <1>6 DEF CommitEnroll, StillRead, AdminOps
<1>7. CASE CommitHeartbeat(s)
  BY <1>1, <1>2, <1>7 DEF CommitHeartbeat, StillRead
<1>8. CASE Rollback(s)
  BY <1>1, <1>8 DEF Rollback
<1> QED
  BY <1>3, <1>4, <1>5, <1>6, <1>7, <1>8 DEF Commit

\* AloneInv is inductive, one request at a time.
LEMMA NextAlone ==
  ASSUME AloneInv, [Next /\ Serialised']_vars
  PROVE  AloneInv'
<1>0. IdentityInv' /\ TypeOK /\ IdentityInv
  BY NextIdentity DEF AloneInv, IdentityInv
<1>1. ASSUME NEW s \in Sessions, Begin(s), Serialised' PROVE AloneInv'
  <2>1. /\ UNCHANGED <<status, secret, enrollment, fresh, version, tokens, spent>>
        /\ \A t \in Sessions : t # s => session'[t] = session[t]
        /\ StillRead(s)' /\ Read' = Read
    BY <1>0, <1>1, BeginReads DEF Read
  <2>2. \A t \in Sessions : StillRead(t)'
    BY <2>1 DEF AloneInv, StillRead
  <2> QED
    BY <1>0, <1>1, <2>1, <2>2 DEF AloneInv, SingleUse, TokensBehind
<1>2. ASSUME NEW s \in Sessions, Commit(s) \/ Rollback(s), Serialised' PROVE AloneInv'
  <2>1. \A t \in Sessions : session'[t].op = "idle"
    BY <1>2, EndsAlone DEF Idle
  <2>2. \A t \in Sessions : StillRead(t)'
    BY <2>1 DEF StillRead, AdminOps
  <2>3. tokens' = tokens /\ version \in Int /\ (version' = version \/ version' = version + 1)
    BY <1>2, EndEffect
  <2>4. \A t \in tokens : t.sv \in Int /\ t.sv <= version
    BY <1>0 DEF AloneInv, TokensBehind, TypeOK, Versions
  <2>5. TokensBehind'
    BY <2>3, <2>4 DEF TokensBehind
  <2>6. SingleUse'
    <3>1. CASE spent' = spent
      BY <3>1 DEF AloneInv, SingleUse
    <3>2. ASSUME NEW new, spent' = spent \cup {<<enrollment, new>>} PROVE SingleUse'
      <4>1. \A p \in spent : p[1] # enrollment
        BY <1>0 DEF IdentityInv, SpentInv
      <4> QED
        BY <3>2, <4>1 DEF AloneInv, SingleUse
    <3> QED
      BY <1>2, <3>1, <3>2, EndEffect
  <2> QED
    BY <1>0, <1>2, <2>2, <2>5, <2>6 DEF AloneInv
<1>3. ASSUME UNCHANGED <<status, secret, enrollment, version, spent, session>>, TokensBehind'
      PROVE  AloneInv'
  BY <1>0, <1>3 DEF AloneInv, Serialised, SingleUse, StillRead, Read
<1>4. CASE IssueToken
  <2>1. version \in Int /\ version' = version
    BY <1>0, <1>4 DEF IssueToken, TypeOK, Versions
  <2>2. \A t \in tokens' : t \in tokens \/ t.sv = version
    BY <1>4 DEF IssueToken
  <2>3. TokensBehind'
    BY <2>1, <2>2 DEF AloneInv, TokensBehind
  <2> QED
    BY <1>3, <1>4, <2>3 DEF IssueToken
<1>5. CASE EnrollmentExpires
  BY <1>3, <1>5 DEF EnrollmentExpires, AloneInv, TokensBehind
<1>6. ASSUME NEW t \in tokens, TokenExpires(t) PROVE AloneInv'
  BY <1>3, <1>6 DEF TokenExpires, AloneInv, TokensBehind
<1>7. CASE UNCHANGED vars
  BY <1>3, <1>7 DEF vars, AloneInv, TokensBehind
<1> QED
  BY <1>1, <1>2, <1>4, <1>5, <1>6, <1>7 DEF Next

LEMMA NextRevokes ==
  ASSUME AloneInv, [Next /\ Serialised']_vars
  PROVE  [RevokedForGood]_vars
<1>0. /\ TypeOK /\ version \in Int
      /\ \A t \in tokens : t.sv \in Int /\ t.sv <= version
  BY DEF AloneInv, IdentityInv, TypeOK, TokensBehind, Versions
<1>1. ASSUME UNCHANGED <<status, secret, version>> PROVE RevokedForGood
  BY <1>1 DEF RevokedForGood
<1>2. ASSUME NEW s \in Sessions, Begin(s) PROVE RevokedForGood
  BY <1>0, <1>1, <1>2, BeginReads
<1>3. ASSUME NEW s \in Sessions, Commit(s) \/ Rollback(s) PROVE RevokedForGood
  <2>1. /\ \A t \in Sessions : session'[t] = Idle
        /\ \A t \in Sessions : session[t].op # "idle" => t = s
    <3>1. \A t \in Sessions : session[t].op # "idle" => session[t] # Idle
      BY DEF Idle
    <3> QED
      BY <1>3, <3>1, EndsAlone DEF AloneInv, Serialised
  <2>2. /\ version' = version \/ version' = version + 1
        /\ session[s].op = "rotate" => secret' = secret \/ version' = version + 1
        /\ status = "disabled" /\ status' # "disabled" => session[s].op = "enable"
    BY <1>3, EndEffect
  <2>3. \A t \in tokens : t.sv # version => t.sv # version'
    BY <1>0, <2>2
  <2>4. \A r \in Sessions : session[r].op = "rotate" /\ secret' # secret =>
          \A t \in tokens : t.sv # version'
    BY <1>0, <2>1, <2>2
  <2> QED
    BY <2>1, <2>2, <2>3, <2>4 DEF RevokedForGood
<1>4. CASE IssueToken \/ EnrollmentExpires \/ \E t \in tokens : TokenExpires(t)
  BY <1>1, <1>4 DEF IssueToken, EnrollmentExpires, TokenExpires
<1> QED
  BY <1>2, <1>3, <1>4 DEF Next

\* One request at a time, the row is what an open request read of it.
THEOREM AloneInvariant == SerialSpec => []AloneInv
<1>1. AloneInv /\ [Next /\ Serialised']_vars => AloneInv'
  BY NextAlone
<1> QED
  BY <1>1, InitAlone, PTL DEF SerialSpec

-----------------------------------------------------------------------------
(* A person's account and sessions (UserSessions): what open requests may  *)
(* rely on.                                                                *)

\* The operations that end every session.
Ending == Account!Bulk \cup {"reuse", "logoutAll"}

IssuedByNow == \A t \in 1 .. Len(handed) : handed[t].iat <= now

RowHolds(r) ==
  /\ r.known <= Len(handed) /\ r.iat <= now
  /\ r.op \in {"refresh", "logout"} => r.tok \in 1 .. Len(handed)
  /\ r.op = "reset" => r.tok \in Links
  /\ r.ins => r.op \in {"refresh", "logout"}
  /\ r.op \in Ending /\ r.at = "ready" => \A t \in 1 .. r.known : handed[t].iat <= r.cut

RequestsHold == \A q \in Sessions : RowHolds(request[q])

SessionsInv == Account!TypeOK /\ IssuedByNow /\ RequestsHold

\* Time goes on and tokens are only added.
Grows ==
  /\ now \in Nat /\ now' \in Nat /\ now <= now'
  /\ handed \in Seq(Account!Tokens) /\ handed' \in Seq(Account!Tokens) /\ Len(handed) <= Len(handed')
  /\ \A t \in 1 .. Len(handed) : handed'[t] = handed[t]

LEMMA LaterSecond ==
  ASSUME NEW a \in Nat, NEW b \in Nat, a <= b
  PROVE  Account!Second(a) <= Account!Second(b) /\ Account!Second(a) \in Nat
  BY DEF Account!Second

LEMMA AppendGrows ==
  ASSUME Account!TypeOK, NEW tok \in Account!Tokens, now' = now, handed' = handed \/ handed' = Append(handed, tok)
  PROVE  Grows
<1>1. handed \in Seq(Account!Tokens) /\ now \in Nat
  BY DEF Account!TypeOK
<1>2. CASE handed' = handed
  BY <1>1, <1>2 DEF Grows
<1>3. CASE handed' = Append(handed, tok)
  <2>1. handed' \in Seq(Account!Tokens) /\ Len(handed') = Len(handed) + 1
    BY <1>1, <1>3
  <2>2. \A t \in 1 .. Len(handed) : handed'[t] = handed[t]
    BY <1>1, <1>3
  <2> QED
    BY <1>1, <2>1, <2>2 DEF Grows
<1> QED
  BY <1>2, <1>3

\* What holds of a row goes on holding.
LEMMA RowKept ==
  ASSUME Grows, NEW r \in Account!RequestRows, RowHolds(r)
  PROVE  RowHolds(r)'
<1>1. r.known \in Nat /\ r.iat \in Nat /\ Len(handed) \in Nat /\ Len(handed') \in Nat
  BY DEF Account!RequestRows, Grows
<1>2. r.known <= Len(handed') /\ r.iat <= now'
  BY <1>1 DEF Grows, RowHolds
<1>3. r.op \in {"refresh", "logout"} => r.tok \in 1 .. Len(handed')
  BY <1>1 DEF Grows, RowHolds
<1>4. ASSUME r.op \in Ending, r.at = "ready", NEW t \in 1 .. r.known
      PROVE  handed'[t].iat <= r.cut
  <2>1. t \in 1 .. Len(handed)
    BY <1>1 DEF RowHolds
  <2> QED
    BY <1>4, <2>1 DEF Grows, RowHolds
<1> QED
  BY <1>2, <1>3, <1>4 DEF RowHolds

LEMMA RowIs ==
  ASSUME NEW q \in Sessions, NEW r, request'[q] = r, RowHolds(r)'
  PROVE  RowHolds(request[q])'
  BY DEF RowHolds

LEMMA IdleHolds == Account!TypeOK => Account!Idle \in Account!RequestRows /\ RowHolds(Account!Idle)
<1> SUFFICES ASSUME Account!TypeOK PROVE Account!Idle \in Account!RequestRows /\ RowHolds(Account!Idle)
  OBVIOUS
<1>1. Len(handed) \in Nat /\ now \in Nat
  BY DEF Account!TypeOK
<1>2. Account!Idle \in Account!RequestRows
  BY DEF Account!Idle, Account!RequestRows, Account!Ops
<1>3. \A t \in 1 .. Account!Idle.known : FALSE
  BY DEF Account!Idle
<1> QED
  BY <1>1, <1>2, <1>3 DEF Account!Idle, RowHolds, Ending, Account!Bulk

\* A step that gives one request a row that holds leaves all of them holding.
LEMMA RequestsKept ==
  ASSUME Account!TypeOK, RequestsHold, Grows, NEW q \in Sessions, NEW entry \in Account!RequestRows, RowHolds(entry)',
         request' = [request EXCEPT ![q] = entry]
  PROVE  request' \in [Sessions -> Account!RequestRows] /\ RequestsHold'
<1>1. request \in [Sessions -> Account!RequestRows]
  BY DEF Account!TypeOK
<1>2. request' \in [Sessions -> Account!RequestRows] /\ request'[q] = entry
      /\ \A p \in Sessions : p # q => request'[p] = request[p]
  BY <1>1
<1>3. ASSUME NEW p \in Sessions PROVE RowHolds(request[p])'
  <2>1. CASE p = q
    BY <1>2, <2>1, RowIs
  <2>2. CASE p # q
    <3>1. PICK r \in Account!RequestRows : r = request[p]
      BY <1>1
    <3>2. RowHolds(r)'
      BY <3>1, RowKept DEF RequestsHold
    <3> QED
      BY <1>2, <2>2, <3>1, <3>2, RowIs
  <2> QED
    BY <2>1, <2>2
<1> QED
  BY <1>2, <1>3 DEF RequestsHold

LEMMA AllRequestsKept ==
  ASSUME Account!TypeOK, RequestsHold, Grows, request' = request
  PROVE  RequestsHold'
<1> SUFFICES ASSUME NEW p \in Sessions PROVE RowHolds(request[p])'
  BY DEF RequestsHold
<1>1. PICK r \in Account!RequestRows : r = request[p]
  BY DEF Account!TypeOK
<1>2. RowHolds(r)'
  BY <1>1, RowKept DEF RequestsHold
<1> QED
  BY <1>1, <1>2, RowIs

-----------------------------------------------------------------------------
(* Requests come in.                                                       *)

\* A request that comes in changes nothing but its own row.
LEMMA OpenRowKeeps ==
  ASSUME SessionsInv, NEW q \in Sessions, NEW entry \in Account!RequestRows, RowHolds(entry), Account!Open(q, entry)
  PROVE  SessionsInv'
<1>1. UNCHANGED <<now, cutoff, handed, revoked, account, link, resets>>
      /\ request' = [request EXCEPT ![q] = entry]
  BY DEF Account!Open
<1>2. Grows
  BY <1>1 DEF Grows, SessionsInv, Account!TypeOK
<1>3. RowHolds(entry)'
  BY <1>2, RowKept
<1>4. request' \in [Sessions -> Account!RequestRows] /\ RequestsHold'
  BY <1>1, <1>2, <1>3, RequestsKept DEF SessionsInv
<1>5. Account!TypeOK' /\ IssuedByNow'
  BY <1>1, <1>4 DEF SessionsInv, Account!TypeOK, IssuedByNow
<1> QED
  BY <1>4, <1>5 DEF SessionsInv

LEMMA EndingRow ==
  ASSUME SessionsInv, NEW op \in {"reuse", "logoutAll"}
  PROVE  LET entry == [Account!Idle EXCEPT !.op = op, !.at = "ready", !.cut = now, !.known = Len(handed)]
         IN  entry \in Account!RequestRows /\ RowHolds(entry)
<1> DEFINE entry == [Account!Idle EXCEPT !.op = op, !.at = "ready", !.cut = now, !.known = Len(handed)]
<1>1. now \in Nat /\ Len(handed) \in Nat
  BY DEF SessionsInv, Account!TypeOK
<1>2. entry \in Account!RequestRows
  BY <1>1 DEF Account!Idle, Account!RequestRows, Account!Ops
<1>3. \A t \in 1 .. Len(handed) : handed[t].iat <= now
  BY DEF SessionsInv, IssuedByNow
<1>4. RowHolds(entry)
  BY <1>1, <1>3 DEF Account!Idle, RowHolds
<1> QED
  BY <1>2, <1>4

LEMMA ReadingRow ==
  ASSUME SessionsInv, NEW op \in {"change", "deactivate", "temporary"}
  PROVE  LET entry == [Account!Idle EXCEPT !.op = op, !.at = "read", !.known = Len(handed)]
         IN  entry \in Account!RequestRows /\ RowHolds(entry)
<1> DEFINE entry == [Account!Idle EXCEPT !.op = op, !.at = "read", !.known = Len(handed)]
<1>1. now \in Nat /\ Len(handed) \in Nat
  BY DEF SessionsInv, Account!TypeOK
<1>2. entry \in Account!RequestRows
  BY <1>1 DEF Account!Idle, Account!RequestRows, Account!Ops
<1>3. RowHolds(entry)
  BY <1>1 DEF Account!Idle, RowHolds
<1> QED
  BY <1>2, <1>3

LEMMA AuthRequestKeeps ==
  ASSUME SessionsInv, NEW q \in Sessions, Account!AuthRequest(q)
  PROVE  SessionsInv'
<1>0. now \in Nat /\ Len(handed) \in Nat /\ account \in Account!Accounts
  BY DEF SessionsInv, Account!TypeOK
<1>1. CASE Account!Login(q)
  <2> DEFINE entry == [Account!Idle EXCEPT !.op = "login", !.at = "ready", !.pw = account.password,
                                 !.iat = now]
  <2>1. entry \in Account!RequestRows
    BY <1>0 DEF Account!Idle, Account!RequestRows, Account!Ops, Account!Accounts
  <2>2. RowHolds(entry)
    BY <1>0 DEF Account!Idle, RowHolds, Ending, Account!Bulk
  <2> QED
    BY <1>1, <2>1, <2>2, OpenRowKeeps DEF Account!Login
<1>2. CASE Account!LogoutAll(q)
  BY <1>2, EndingRow, OpenRowKeeps DEF Account!LogoutAll
<1>3. CASE Account!Change(q)
  BY <1>3, ReadingRow, OpenRowKeeps DEF Account!Change
<1>4. ASSUME NEW t \in DOMAIN handed, Account!Refresh(q, t) PROVE SessionsInv'
  <2>1. t \in 1 .. Len(handed) /\ handed[t] \in Account!Tokens /\ t \in Nat
    BY DEF SessionsInv, Account!TypeOK
  <2>2. CASE Account!Open(q, [Account!Idle EXCEPT !.op = "reuse", !.at = "ready", !.cut = now,
                                  !.known = Len(handed)])
    BY <2>2, EndingRow, OpenRowKeeps
  <2>3. CASE Account!Open(q, [Account!Idle EXCEPT !.op = "refresh", !.at = "read", !.tok = t,
                                  !.pw = handed[t].pw])
    <3> DEFINE entry == [Account!Idle EXCEPT !.op = "refresh", !.at = "read", !.tok = t, !.pw = handed[t].pw]
    <3>1. entry \in Account!RequestRows
      BY <1>0, <2>1 DEF Account!Idle, Account!RequestRows, Account!Ops, Account!Tokens
    <3>2. RowHolds(entry)
      BY <1>0, <2>1 DEF Account!Idle, RowHolds, Ending, Account!Bulk
    <3> QED
      BY <2>3, <3>1, <3>2, OpenRowKeeps
  <2> QED
    BY <1>4, <2>2, <2>3 DEF Account!Refresh
<1>5. ASSUME NEW t \in DOMAIN handed, Account!Logout(q, t) PROVE SessionsInv'
  <2> DEFINE entry == [Account!Idle EXCEPT !.op = "logout", !.at = "read", !.tok = t]
  <2>1. t \in 1 .. Len(handed) /\ t \in Nat
    BY DEF SessionsInv, Account!TypeOK
  <2>2. entry \in Account!RequestRows
    BY <2>1 DEF Account!Idle, Account!RequestRows, Account!Ops
  <2>3. RowHolds(entry)
    BY <1>0, <2>1 DEF Account!Idle, RowHolds, Ending, Account!Bulk
  <2> QED
    BY <1>5, <2>2, <2>3, OpenRowKeeps DEF Account!Logout
<1>6. ASSUME NEW l \in Links, Account!Reset(q, l) PROVE SessionsInv'
  <2> DEFINE entry == [Account!Idle EXCEPT !.op = "reset", !.at = "read", !.tok = l, !.known = Len(handed)]
  <2>1. entry \in Account!RequestRows
    BY <1>0 DEF Account!Idle, Account!RequestRows, Account!Ops
  <2>2. RowHolds(entry)
    BY <1>0 DEF Account!Idle, RowHolds, Ending, Account!Bulk
  <2> QED
    BY <1>6, <2>1, <2>2, OpenRowKeeps DEF Account!Reset
<1> QED
  BY <1>1, <1>2, <1>3, <1>4, <1>5, <1>6 DEF Account!AuthRequest

LEMMA AdminRequestKeeps ==
  ASSUME SessionsInv, NEW q \in Sessions, Account!AdminRequest(q)
  PROVE  SessionsInv'
<1>1. CASE Account!Deactivate(q)
  BY <1>1, ReadingRow, OpenRowKeeps DEF Account!Deactivate
<1>2. CASE Account!SetTemporary(q)
  BY <1>2, ReadingRow, OpenRowKeeps DEF Account!SetTemporary
<1> QED
  BY <1>1, <1>2 DEF Account!AdminRequest

-----------------------------------------------------------------------------
(* Requests go on and commit.                                              *)

LEMMA WriteKeeps ==
  ASSUME SessionsInv, NEW q \in Sessions, Account!Write(q)
  PROVE  SessionsInv'
<1>1. /\ UNCHANGED <<now, cutoff, handed, revoked, account, link, resets>>
      /\ request[q] \in Account!RequestRows /\ RowHolds(request[q]) /\ request[q].op \in Account!Bulk
      /\ now \in Nat /\ Len(handed) \in Nat
  BY DEF Account!Write, SessionsInv, Account!TypeOK, RequestsHold
<1> DEFINE entry == [request[q] EXCEPT !.at = "ready", !.locks = TRUE, !.cut = now]
<1>2. request' = [request EXCEPT ![q] = entry]
  BY DEF Account!Write
<1>3. entry \in Account!RequestRows
  BY <1>1 DEF Account!RequestRows
<1>4. ASSUME NEW t \in 1 .. request[q].known PROVE handed[t].iat <= now
  <2>1. request[q].known \in Nat /\ request[q].known <= Len(handed)
    BY <1>1 DEF Account!RequestRows, RowHolds
  <2>2. t \in 1 .. Len(handed)
    BY <1>1, <2>1
  <2> QED
    BY <2>2 DEF SessionsInv, IssuedByNow
<1>5. /\ entry.known = request[q].known /\ entry.iat = request[q].iat /\ entry.op = request[q].op
      /\ entry.tok = request[q].tok /\ entry.ins = request[q].ins /\ entry.cut = now
  BY <1>1 DEF Account!RequestRows
<1> HIDE DEF entry
<1>6. RowHolds(entry)
  BY <1>1, <1>4, <1>5 DEF RowHolds
<1>7. Grows
  BY <1>1 DEF Grows, SessionsInv, Account!TypeOK
<1>8. PICK r \in Account!RequestRows : r = entry /\ RowHolds(r)
  BY <1>3, <1>6
<1>8a. RowHolds(r)'
  BY <1>7, <1>8, RowKept
<1>9. request' \in [Sessions -> Account!RequestRows] /\ RequestsHold'
  BY <1>2, <1>7, <1>8, <1>8a, RequestsKept DEF SessionsInv
<1>10. Account!TypeOK' /\ IssuedByNow'
  BY <1>1, <1>9 DEF SessionsInv, Account!TypeOK, IssuedByNow
<1> QED
  BY <1>9, <1>10 DEF SessionsInv

\* What a token's revocation may leave of its request.
LEMMA SpendRows ==
  ASSUME SessionsInv, NEW q \in Sessions, Account!Spend(q)
  PROVE  \E entry \in Account!RequestRows : RowHolds(entry) /\ request' = [request EXCEPT ![q] = entry]
<1>1. /\ request[q] \in Account!RequestRows /\ RowHolds(request[q])
      /\ request[q].op \in {"refresh", "logout"} /\ now \in Nat /\ Len(handed) \in Nat
  BY DEF Account!Spend, SessionsInv, Account!TypeOK, RequestsHold
<1>2. CASE request' = [request EXCEPT ![q] = Account!Idle]
  BY <1>2, IdleHolds DEF SessionsInv
<1>3. CASE request' = [request EXCEPT ![q].at = "blocked"]
  <2> DEFINE entry == [request[q] EXCEPT !.at = "blocked"]
  <2>1. entry \in Account!RequestRows
    BY <1>1 DEF Account!RequestRows
  <2>2. RowHolds(entry)
    BY <1>1 DEF Account!RequestRows, RowHolds
  <2>3. request' = [request EXCEPT ![q] = entry]
    BY <1>3
  <2> QED
    BY <2>1, <2>2, <2>3
<1>4. CASE request' = [request EXCEPT ![q].at = "ready", ![q].iat = now,
                                      ![q].ins = request[q].tok \notin revoked]
  <2> DEFINE new == request[q].tok \notin revoked
  <2>0. new \in BOOLEAN
    OBVIOUS
  <2> HIDE DEF new
  <2> DEFINE entry == [request[q] EXCEPT !.at = "ready", !.iat = now, !.ins = new]
  <2>1. entry \in Account!RequestRows
    BY <1>1, <2>0 DEF Account!RequestRows
  <2>2. RowHolds(entry)
    BY <1>1 DEF Account!RequestRows, RowHolds, Ending, Account!Bulk
  <2>3. request' = [request EXCEPT ![q] = entry]
    BY <1>4 DEF new
  <2> QED
    BY <2>1, <2>2, <2>3
<1> QED
  BY <1>2, <1>3, <1>4 DEF Account!Spend

LEMMA SpendKeeps ==
  ASSUME SessionsInv, NEW q \in Sessions, Account!Spend(q)
  PROVE  SessionsInv'
<1>1. UNCHANGED <<now, cutoff, handed, revoked, account, link, resets>>
  BY DEF Account!Spend
<1>2. PICK entry \in Account!RequestRows : RowHolds(entry) /\ request' = [request EXCEPT ![q] = entry]
  BY SpendRows
<1>3. Grows
  BY <1>1 DEF Grows, SessionsInv, Account!TypeOK
<1>4. RowHolds(entry)'
  BY <1>2, <1>3, RowKept
<1>5. request' \in [Sessions -> Account!RequestRows] /\ RequestsHold'
  BY <1>2, <1>3, <1>4, RequestsKept DEF SessionsInv
<1>6. Account!TypeOK' /\ IssuedByNow'
  BY <1>1, <1>5 DEF SessionsInv, Account!TypeOK, IssuedByNow
<1> QED
  BY <1>5, <1>6 DEF SessionsInv

\* What a commit leaves of the account's row.
LEMMA AfterIsAnAccount ==
  ASSUME account \in Account!Accounts, NEW r \in Account!RequestRows
  PROVE  /\ Account!After(r) \in Account!Accounts
         /\ Account!After(r).password = (IF r.op \in {"reset", "change", "temporary"}
                                 THEN account.password + 1 ELSE account.password)
         /\ Account!After(r).byPlatform = account.byPlatform
         /\ (Account!After(r).active => account.active)
<1>1. /\ account.password \in Nat /\ account.verified \in BOOLEAN /\ account.active \in BOOLEAN
  BY DEF Account!Accounts
<1> DEFINE p == IF r.op \in {"reset", "change", "temporary"} THEN account.password + 1
                ELSE account.password
           v == account.verified \/ r.op = "reset"
           e == IF r.op = "temporary" THEN "valid"
                ELSE IF r.op = "change" THEN "no" ELSE account.temporary
           w == account.active /\ r.op # "deactivate"
<1>2. v \in BOOLEAN /\ w \in BOOLEAN /\ (w => account.active)
  BY Zenon
<1>3. p \in Nat /\ e \in {"no", "valid", "expired"}
  BY <1>1 DEF Account!Accounts
<1>4. Account!After(r) = [account EXCEPT !.password = p, !.verified = v, !.temporary = e, !.active = w]
  BY DEF Account!After
<1>5. p = IF r.op \in {"reset", "change", "temporary"} THEN account.password + 1
          ELSE account.password
  OBVIOUS
<1> HIDE DEF p, v, e, w
<1>6. /\ Account!After(r) \in Account!Accounts /\ Account!After(r).password = p
      /\ Account!After(r).byPlatform = account.byPlatform /\ Account!After(r).active = w
  BY <1>2, <1>3, <1>4 DEF Account!Accounts
<1> QED
  BY <1>2, <1>5, <1>6

\* The token a commit hands out, if any.
LEMMA FinishIssues ==
  ASSUME SessionsInv, NEW q \in Sessions, Account!Finish(q)
  PROVE  \E tok \in Account!Tokens : /\ tok.iat <= now
                                     /\ handed' = handed \/ handed' = Append(handed, tok)
<1>1. request[q] \in Account!RequestRows /\ request[q].iat <= now /\ now \in Nat /\ account.password \in Nat
  BY DEF SessionsInv, Account!TypeOK, RequestsHold, RowHolds, Account!Accounts
<1>2. CASE request[q].op \in {"login", "refresh"}
  <2> DEFINE from == IF request[q].op = "refresh" THEN request[q].tok ELSE 0
  <2> DEFINE tok == [iat |-> request[q].iat, pw |-> request[q].pw, from |-> from]
  <2>1. from \in Nat
    BY DEF SessionsInv, RequestsHold, RowHolds
  <2>2. tok \in Account!Tokens /\ tok.iat = request[q].iat
    BY <1>1, <2>1 DEF Account!Tokens, Account!RequestRows
  <2>3. handed' = Append(handed, tok)
    BY <1>2 DEF Account!Finish, Account!Issue
  <2> QED
    BY <1>1, <2>2, <2>3
<1>3. CASE request[q].op = "change"
  <2> DEFINE tok == [iat |-> now, pw |-> account.password + 1, from |-> 0]
  <2>1. tok \in Account!Tokens /\ tok.iat = now /\ now <= now
    BY <1>1 DEF Account!Tokens
  <2>2. handed' = Append(handed, tok)
    BY <1>3 DEF Account!Finish, Account!Issue
  <2> QED
    BY <2>1, <2>2
<1>4. CASE request[q].op \notin {"login", "refresh", "change"}
  <2> DEFINE tok == [iat |-> now, pw |-> 0, from |-> 0]
  <2>1. tok \in Account!Tokens /\ tok.iat = now /\ now <= now
    BY <1>1 DEF Account!Tokens
  <2>2. handed' = handed
    BY <1>4 DEF Account!Finish
  <2> QED
    BY <2>1, <2>2
<1> QED
  BY <1>2, <1>3, <1>4

LEMMA FinishKeeps ==
  ASSUME SessionsInv, NEW q \in Sessions, Account!Finish(q)
  PROVE  SessionsInv' /\ Grows
<1>1. /\ Account!TypeOK /\ request[q] \in Account!RequestRows /\ RowHolds(request[q]) /\ now' = now
      /\ request' = [request EXCEPT ![q] = Account!Idle]
  BY DEF Account!Finish, SessionsInv, Account!TypeOK, RequestsHold
<1>2. PICK tok \in Account!Tokens : /\ tok.iat <= now
                                    /\ handed' = handed \/ handed' = Append(handed, tok)
  BY FinishIssues
<1>3. Grows
  BY <1>1, <1>2, AppendGrows
<1>4. Account!Idle \in Account!RequestRows /\ RowHolds(Account!Idle)'
  BY <1>1, <1>3, IdleHolds, RowKept
<1>5. request' \in [Sessions -> Account!RequestRows] /\ RequestsHold'
  BY <1>1, <1>3, <1>4, RequestsKept DEF SessionsInv
<1>6. IssuedByNow'
  <2>1. \A t \in 1 .. Len(handed) : handed'[t].iat <= now'
    BY <1>1, <1>3 DEF Grows, SessionsInv, IssuedByNow
  <2>2. CASE handed' = handed
    BY <2>1, <2>2 DEF IssuedByNow
  <2>3. CASE handed' = Append(handed, tok)
    <3>1. Len(handed') = Len(handed) + 1 /\ handed'[Len(handed) + 1] = tok /\ Len(handed) \in Nat
      BY <1>1, <2>3 DEF Account!TypeOK
    <3>2. tok.iat <= now'
      BY <1>1, <1>2
    <3>3. ASSUME NEW t \in 1 .. Len(handed')
          PROVE  handed'[t].iat <= now'
      <4>1. t \in 1 .. Len(handed) \/ t = Len(handed) + 1
        BY <3>1
      <4> QED
        BY <2>1, <3>1, <3>2, <4>1
    <3> QED
      BY <3>3 DEF IssuedByNow
  <2> QED
    BY <1>2, <2>2, <2>3
<1>7. handed' \in Seq(Account!Tokens) /\ now' \in Nat
  BY <1>3 DEF Grows
<1>8. revoked' \subseteq DOMAIN handed'
  <2>1. /\ DOMAIN handed = 1 .. Len(handed) /\ DOMAIN handed' = 1 .. Len(handed')
        /\ Len(handed) \in Nat /\ Len(handed') \in Nat /\ Len(handed) <= Len(handed')
    BY <1>1, <1>3 DEF Grows, Account!TypeOK
  <2>2. revoked \subseteq 1 .. Len(handed)
    BY <1>1, <2>1 DEF Account!TypeOK
  <2>3. request[q].ins => request[q].tok \in 1 .. Len(handed)
    BY <1>1 DEF RowHolds
  <2>4. revoked' \subseteq 1 .. Len(handed)
    BY <2>2, <2>3 DEF Account!Finish
  <2> QED
    BY <2>1, <2>4
<1>9. account' \in Account!Accounts
  BY <1>1, AfterIsAnAccount DEF Account!Finish, Account!TypeOK
<1>10. cutoff' \in Nat
  BY <1>1 DEF Account!Finish, Account!TypeOK, Account!RequestRows
<1>11. link' \in [Links -> Account!LinkStates] /\ resets' \in [Links -> Nat]
  <2>1. CASE request[q].op = "reset"
    <3>1. request[q].tok \in Links
      BY <1>1, <2>1 DEF RowHolds
    <3>2. /\ link' = [link EXCEPT ![request[q].tok] = "used"]
          /\ resets' = [resets EXCEPT ![request[q].tok] = @ + 1]
      BY <2>1 DEF Account!Finish
    <3> QED
      BY <1>1, <3>1, <3>2 DEF Account!TypeOK, Account!LinkStates
  <2>2. CASE request[q].op # "reset"
    BY <1>1, <2>2 DEF Account!Finish, Account!TypeOK
  <2> QED
    BY <2>1, <2>2
<1>12. Account!TypeOK'
  BY <1>5, <1>7, <1>8, <1>9, <1>10, <1>11 DEF Account!TypeOK
<1> QED
  BY <1>3, <1>5, <1>6, <1>12 DEF SessionsInv

-----------------------------------------------------------------------------
(* Single statements, and time.                                            *)

\* RequestReset, Decide, PlatformDeactivates, Activate and Tick.
Statement ==
  (\E l \in Links : Account!RequestReset(l)) \/ Account!Decide \/ Account!PlatformDeactivates \/ Account!Activate \/ Account!Tick

LEMMA StatementEffect ==
  ASSUME Account!TypeOK, Statement
  PROVE  /\ UNCHANGED <<handed, revoked, resets, request>>
         /\ now' \in Nat /\ now <= now'
         /\ cutoff' = cutoff \/ cutoff' = now
         /\ account' \in Account!Accounts /\ account'.password = account.password
         /\ link' \in [Links -> Account!LinkStates]
         /\ \A l \in Links : link'[l] \in {"none", "open"} => link[l] \in {"none", "open"}
<1>1. CASE \E l \in Links : Account!RequestReset(l)
  BY <1>1 DEF Account!RequestReset, Account!TypeOK, Account!LinkStates
<1>2. CASE Account!Decide
  <2>1. account' \in Account!Accounts /\ account'.password = account.password
    BY <1>2 DEF Account!Decide, Account!TypeOK, Account!Accounts
  <2> QED
    BY <1>2, <2>1 DEF Account!Decide, Account!TypeOK
<1>3. CASE Account!PlatformDeactivates
  <2>1. account' \in Account!Accounts /\ account'.password = account.password
    BY <1>3 DEF Account!PlatformDeactivates, Account!TypeOK, Account!Accounts
  <2> QED
    BY <1>3, <2>1 DEF Account!PlatformDeactivates, Account!TypeOK
<1>4. CASE Account!Activate
  <2>1. account' \in Account!Accounts /\ account'.password = account.password
    BY <1>4 DEF Account!Activate, Account!TypeOK, Account!Accounts
  <2> QED
    BY <1>4, <2>1 DEF Account!Activate, Account!TypeOK
<1>5. CASE Account!Tick
  <2>1. /\ UNCHANGED <<cutoff, handed, revoked, resets, request>>
        /\ now' \in Nat /\ now <= now'
    BY <1>5 DEF Account!Tick, Account!TypeOK
  <2>2. /\ account' \in Account!Accounts /\ account'.password = account.password
    BY <1>5 DEF Account!Tick, Account!TypeOK, Account!Accounts
  <2>3. /\ link' \in [Links -> Account!LinkStates]
        /\ \A l \in Links : link'[l] \in {"none", "open"} => link[l] \in {"none", "open"}
    BY <1>5 DEF Account!Tick, Account!TypeOK, Account!LinkStates
  <2> QED
    BY <2>1, <2>2, <2>3
<1> QED
  BY <1>1, <1>2, <1>3, <1>4, <1>5 DEF Statement

LEMMA StatementKeeps ==
  ASSUME SessionsInv, Statement
  PROVE  SessionsInv'
<1>1. /\ UNCHANGED <<handed, revoked, resets, request>>
      /\ now' \in Nat /\ now <= now'
      /\ cutoff' = cutoff \/ cutoff' = now
      /\ account' \in Account!Accounts /\ link' \in [Links -> Account!LinkStates]
  BY StatementEffect DEF SessionsInv
<1>2a. /\ Account!TypeOK /\ now \in Nat /\ handed \in Seq(Account!Tokens) /\ Len(handed) \in Nat
  BY DEF SessionsInv, Account!TypeOK
<1>2b. Grows
  BY <1>1, <1>2a DEF Grows
<1>2. Grows /\ Account!TypeOK'
  BY <1>1, <1>2a, <1>2b DEF Account!TypeOK
<1>3. RequestsHold'
  BY <1>1, <1>2, AllRequestsKept DEF SessionsInv
<1>4. IssuedByNow'
  <2> SUFFICES ASSUME NEW t \in 1 .. Len(handed) PROVE handed[t].iat <= now'
    BY <1>1 DEF IssuedByNow
  <2>1. handed[t] \in Account!Tokens /\ now \in Nat /\ handed[t].iat <= now
    BY DEF SessionsInv, Account!TypeOK, IssuedByNow
  <2>2. handed[t].iat \in Nat
    BY <2>1 DEF Account!Tokens
  <2> QED
    BY <1>1, <2>1, <2>2
<1> QED
  BY <1>2, <1>3, <1>4 DEF SessionsInv

\* SessionsInv is inductive.
LEMMA NextSessions == SessionsInv /\ [Account!Next]_(Account!vars) => SessionsInv'
<1> SUFFICES ASSUME SessionsInv, [Account!Next]_(Account!vars) PROVE SessionsInv'
  OBVIOUS
<1>1. ASSUME NEW q \in Sessions,
             Account!AuthRequest(q) \/ Account!AdminRequest(q) \/ Account!Write(q) \/ Account!Spend(q) \/ Account!Finish(q)
      PROVE  SessionsInv'
  BY <1>1, AuthRequestKeeps, AdminRequestKeeps, WriteKeeps, SpendKeeps, FinishKeeps
<1>2. CASE Statement
  BY <1>2, StatementKeeps
<1>3. CASE UNCHANGED Account!vars
  <2>1. UNCHANGED <<now, cutoff, handed, revoked, account, link, resets, request>>
    BY <1>3 DEF Account!vars
  <2>2. Grows /\ Account!TypeOK' /\ IssuedByNow'
    BY <2>1 DEF Grows, SessionsInv, Account!TypeOK, IssuedByNow
  <2> QED
    BY <2>1, <2>2, AllRequestsKept DEF SessionsInv
<1> QED
  BY <1>1, <1>2, <1>3 DEF Account!Next, Statement

LEMMA InitSessions == Account!Init => SessionsInv
<1> SUFFICES ASSUME Account!Init PROVE SessionsInv
  OBVIOUS
<1>1. handed \in Seq(Account!Tokens) /\ Len(handed) = 0
  BY DEF Account!Init
<1>2. Account!Idle \in Account!RequestRows
  BY DEF Account!Idle, Account!RequestRows, Account!Ops
<1>3a. account \in Account!Accounts
  <2> DEFINE yes == {TRUE}
             no == {FALSE}
  <2>1. yes \subseteq BOOLEAN /\ no \subseteq BOOLEAN
    OBVIOUS
  <2>2. account \in [status : {"pending", "approved"}, active : yes, byPlatform : no,
                     password : {1}, temporary : {"no"}, verified : no]
    BY DEF Account!Init
  <2> HIDE DEF yes, no
  <2> QED
    BY <2>1, <2>2 DEF Account!Accounts
<1>3. Account!TypeOK
  BY <1>1, <1>2, <1>3a DEF Account!Init, Account!TypeOK, Account!LinkStates
<1>4. RowHolds(Account!Idle)
  BY <1>3, IdleHolds
<1>5. RequestsHold
  BY <1>4 DEF Account!Init, RequestsHold
<1>6. IssuedByNow
  BY <1>1 DEF IssuedByNow
<1> QED
  BY <1>3, <1>5, <1>6 DEF SessionsInv

-----------------------------------------------------------------------------
(* What ends every session.                                                *)

SessionsEnd == Account!EndsEarlierSessions /\ Account!ChangeKeepsItsCaller

\* A token no younger than the cutoff is not after it.
LEMMA CutOff ==
  ASSUME NEW a \in Nat, NEW b \in Nat, a <= b
  PROVE  ~(Account!Second(a) > Account!Second(b))
<1>1. Account!Second(a) <= Account!Second(b) /\ Account!Second(a) \in Nat /\ Account!Second(b) \in Nat
  BY LaterSecond
<1> QED
  BY <1>1

LEMMA FinishEnds ==
  ASSUME SessionsInv, NEW q \in Sessions, Account!Finish(q), request[q].op \in Ending,
         NEW t \in 1 .. request[q].known
  PROVE  ~Account!AfterCutoff(t)'
<1>1. /\ request[q] \in Account!RequestRows /\ RowHolds(request[q]) /\ request[q].at = "ready"
      /\ cutoff' = request[q].cut
  BY DEF SessionsInv, Account!TypeOK, RequestsHold, Account!Finish, Ending
<1>2. request[q].cut \in Nat /\ request[q].known \in Nat
  BY <1>1 DEF Account!RequestRows
<1>3. handed[t].iat <= request[q].cut
  BY <1>1 DEF RowHolds
<1>4. Grows /\ Len(handed) \in Nat
  BY FinishKeeps DEF SessionsInv, Account!TypeOK
<1>5. t \in 1 .. Len(handed)
  BY <1>1, <1>2, <1>4 DEF RowHolds
<1>6. handed'[t] = handed[t] /\ handed[t] \in Account!Tokens
  BY <1>4, <1>5 DEF Grows
<1>7. handed[t].iat \in Nat
  BY <1>6 DEF Account!Tokens
<1>8. ~(Account!Second(handed[t].iat) > Account!Second(request[q].cut))
  BY <1>2, <1>3, <1>7, CutOff
<1> QED
  BY <1>1, <1>6, <1>8 DEF Account!AfterCutoff

\* A request that finishes is one that commits.
LEMMA FinishesByCommit ==
  ASSUME SessionsInv, [Account!Next]_(Account!vars), NEW q \in Sessions, Account!Finishes(q)
  PROVE  Account!Finish(q)
<1>1. /\ request \in [Sessions -> Account!RequestRows] /\ request[q] # Account!Idle /\ request'[q] = Account!Idle
      /\ request[q].at = "ready"
  BY DEF Account!Finishes, SessionsInv, Account!TypeOK
<1>2. ASSUME NEW p \in Sessions, NEW entry, Account!Open(p, entry) PROVE FALSE
  BY <1>1, <1>2 DEF Account!Open
<1>3. ASSUME NEW p \in Sessions, Account!Write(p) \/ Account!Spend(p) PROVE FALSE
  <2>1. p # q => request'[q] = request[q]
    BY <1>1, <1>3 DEF Account!Write, Account!Spend
  <2>2. p = q => request[p].at # "ready"
    BY <1>3 DEF Account!Write, Account!Spend
  <2> QED
    BY <1>1, <2>1, <2>2
<1>4. ASSUME NEW p \in Sessions, Account!Finish(p) PROVE p = q
  BY <1>1, <1>4 DEF Account!Finish
<1>5. ASSUME NEW p \in Sessions, Account!AuthRequest(p) \/ Account!AdminRequest(p) PROVE FALSE
  BY <1>2, <1>5 DEF Account!AuthRequest, Account!AdminRequest, Account!Login, Account!LogoutAll, Account!Change, Account!Refresh, Account!Logout, Account!Reset,
                    Account!Deactivate, Account!SetTemporary
<1>6. ~Statement
  BY <1>1, StatementEffect DEF SessionsInv
<1>7. ~UNCHANGED Account!vars
  BY <1>1 DEF Account!vars
<1> QED
  BY <1>3, <1>4, <1>5, <1>6, <1>7 DEF Account!Next, Statement

LEMMA NextEnds == SessionsInv /\ [Account!Next]_(Account!vars) => SessionsEnd
<1> SUFFICES ASSUME SessionsInv, [Account!Next]_(Account!vars) PROVE SessionsEnd
  OBVIOUS
<1>1. ASSUME NEW q \in Sessions, Account!Finishes(q), request[q].op \in Ending,
             NEW t \in 1 .. request[q].known
      PROVE  ~Account!Usable(t)'
  <2>1. ~Account!AfterCutoff(t)'
    BY <1>1, FinishesByCommit, FinishEnds
  <2> QED
    BY <2>1 DEF Account!Usable
<1>2. ASSUME NEW q \in Sessions, Account!Finishes(q), request[q].op = "change"
      PROVE  Len(handed') > Len(handed) /\ Account!AfterCutoff(Len(handed))'
  <2> DEFINE tok == [iat |-> now, pw |-> account.password + 1, from |-> 0]
  <2>1. /\ Account!Finish(q) /\ handed \in Seq(Account!Tokens) /\ now \in Nat /\ account.password \in Nat
    BY <1>2, FinishesByCommit DEF SessionsInv, Account!TypeOK, Account!Accounts
  <2>2. /\ handed' = Append(handed, tok) /\ cutoff' = request[q].cut
        /\ Account!Second(now) > Account!Second(request[q].cut)
    BY <1>2, <2>1 DEF Account!Finish, Account!Issue, Account!Bulk
  <2>3. tok \in Account!Tokens
    BY <2>1 DEF Account!Tokens
  <2>4. Len(handed') = Len(handed) + 1 /\ Len(handed) \in Nat /\ handed'[Len(handed')] = tok
    BY <2>1, <2>2, <2>3
  <2> QED
    BY <2>2, <2>4 DEF Account!AfterCutoff
<1> QED
  BY <1>1, <1>2 DEF SessionsEnd, Account!EndsEarlierSessions, Account!ChangeKeepsItsCaller, Ending

\* The tokens a request counted are no younger than the cutoff it writes.
THEOREM SessionsInvariant == Account!Spec => []SessionsInv
  BY InitSessions, NextSessions, PTL DEF Account!Spec

-----------------------------------------------------------------------------
(* One request at a time.                                                  *)

\* A token that is alive, or would be if the account could sign in, was had for the
\* password the account has.
Current == \A t \in 1 .. Len(handed) : Account!AfterCutoff(t) => handed[t].pw = account.password

\* A token that was exchanged is spent, and was exchanged for one other.
Exchanged ==
  /\ \A t \in 1 .. Len(handed) : handed[t].from # 0 => handed[t].from \in revoked
  /\ \A t, u \in 1 .. Len(handed) : handed[t].from = handed[u].from /\ handed[t].from # 0 => t = u

LinksSpent ==
  \A l \in Links : resets[l] <= 1 /\ (link[l] \in {"none", "open"} => resets[l] = 0)

\* What the open request read is still so.
StillSo(r) ==
  /\ r.op \in {"login", "refresh"} => r.pw = account.password
  /\ r.op = "refresh" => /\ r.at \in {"read", "ready"} /\ (r.at = "ready" => r.ins)
                         /\ r.tok \notin revoked
  /\ r.op = "reset" => resets[r.tok] = 0
  /\ r.op \in Ending => r.known = Len(handed)

AccountAloneInv ==
  /\ SessionsInv /\ Account!Serialised /\ Current /\ Exchanged /\ LinksSpent /\ Account!PlatformDecides
  /\ \A q \in Sessions : StillSo(request[q])

LEMMA IdleIsSo == StillSo(Account!Idle)
  BY DEF StillSo, Account!Idle, Ending, Account!Bulk

LEMMA SoIs ==
  ASSUME NEW q \in Sessions, NEW r, request'[q] = r, StillSo(r)'
  PROVE  StillSo(request[q])'
  BY DEF StillSo

LEMMA StaysSo ==
  ASSUME NEW r, StillSo(r), UNCHANGED <<handed, revoked, resets>>,
         account'.password = account.password
  PROVE  StillSo(r)'
  BY DEF StillSo

\* A step that changes nothing but one request's row.
LEMMA RowStepAlone ==
  ASSUME AccountAloneInv, SessionsInv', Account!Serialised', NEW q \in Sessions, NEW entry, StillSo(entry),
         UNCHANGED <<now, cutoff, handed, revoked, account, link, resets>>,
         request' = [request EXCEPT ![q] = entry]
  PROVE  AccountAloneInv'
<1>1. request'[q] = entry /\ \A p \in Sessions : p # q => request'[p] = request[p]
  BY DEF AccountAloneInv, SessionsInv, Account!TypeOK
<1>2. ASSUME NEW p \in Sessions PROVE StillSo(request[p])'
  <2>1. PICK r : r = request'[p]
    OBVIOUS
  <2>2. StillSo(r)
    BY <1>1, <2>1 DEF AccountAloneInv
  <2>3. StillSo(r)'
    BY <2>2, StaysSo
  <2> QED
    BY <2>1, <2>3, SoIs
<1>3. Current' /\ Exchanged' /\ LinksSpent' /\ Account!PlatformDecides'
  BY DEF AccountAloneInv, Current, Account!AfterCutoff, Exchanged, LinksSpent, Account!PlatformDecides
<1> QED
  BY <1>2, <1>3 DEF AccountAloneInv

LEMMA OpenAlone ==
  ASSUME AccountAloneInv, SessionsInv', Account!Serialised', NEW q \in Sessions, NEW entry, StillSo(entry),
         Account!Open(q, entry)
  PROVE  AccountAloneInv'
  BY RowStepAlone DEF Account!Open

\* A request that has begun is alone.
LEMMA OthersAreIdle ==
  ASSUME AccountAloneInv, NEW q \in Sessions, request[q] # Account!Idle, NEW p \in Sessions, p # q
  PROVE  request[p] = Account!Idle
  BY DEF AccountAloneInv, Account!Serialised

LEMMA CountingRow ==
  ASSUME NEW op \in {"reuse", "logoutAll", "change", "deactivate", "temporary"}
  PROVE  /\ StillSo([Account!Idle EXCEPT !.op = op, !.at = "ready", !.cut = now, !.known = Len(handed)])
         /\ StillSo([Account!Idle EXCEPT !.op = op, !.at = "read", !.known = Len(handed)])
  BY DEF StillSo, Account!Idle

LEMMA AuthRequestAlone ==
  ASSUME AccountAloneInv, SessionsInv', Account!Serialised', NEW q \in Sessions, Account!AuthRequest(q)
  PROVE  AccountAloneInv'
<1>1. CASE Account!Login(q)
  <2> DEFINE entry == [Account!Idle EXCEPT !.op = "login", !.at = "ready", !.pw = account.password,
                                 !.iat = now]
  <2>1. StillSo(entry)
    BY DEF StillSo, Account!Idle, Ending, Account!Bulk
  <2> QED
    BY <1>1, <2>1, OpenAlone DEF Account!Login
<1>2. CASE Account!LogoutAll(q)
  BY <1>2, CountingRow, OpenAlone DEF Account!LogoutAll
<1>3. CASE Account!Change(q)
  BY <1>3, CountingRow, OpenAlone DEF Account!Change
<1>4. ASSUME NEW t \in DOMAIN handed, Account!Refresh(q, t) PROVE AccountAloneInv'
  <2>1. t \in 1 .. Len(handed)
    BY DEF AccountAloneInv, SessionsInv, Account!TypeOK
  <2>2. CASE Account!Open(q, [Account!Idle EXCEPT !.op = "reuse", !.at = "ready", !.cut = now,
                                  !.known = Len(handed)])
    BY <2>2, CountingRow, OpenAlone
  <2>3. CASE /\ t \notin revoked /\ Account!AfterCutoff(t)
             /\ Account!Open(q, [Account!Idle EXCEPT !.op = "refresh", !.at = "read", !.tok = t,
                                     !.pw = handed[t].pw])
    <3> DEFINE entry == [Account!Idle EXCEPT !.op = "refresh", !.at = "read", !.tok = t, !.pw = handed[t].pw]
    <3>1. handed[t].pw = account.password
      BY <2>1, <2>3 DEF AccountAloneInv, Current
    <3>2. StillSo(entry)
      BY <2>3, <3>1 DEF StillSo, Account!Idle, Ending, Account!Bulk
    <3> QED
      BY <2>3, <3>2, OpenAlone
  <2> QED
    BY <1>4, <2>2, <2>3 DEF Account!Refresh
<1>5. ASSUME NEW t \in DOMAIN handed, Account!Logout(q, t) PROVE AccountAloneInv'
  <2>1. StillSo([Account!Idle EXCEPT !.op = "logout", !.at = "read", !.tok = t])
    BY DEF StillSo, Account!Idle, Ending, Account!Bulk
  <2> QED
    BY <1>5, <2>1, OpenAlone DEF Account!Logout
<1>6. ASSUME NEW l \in Links, Account!Reset(q, l) PROVE AccountAloneInv'
  <2>1. resets[l] = 0
    BY <1>6 DEF Account!Reset, AccountAloneInv, LinksSpent
  <2>2. StillSo([Account!Idle EXCEPT !.op = "reset", !.at = "read", !.tok = l, !.known = Len(handed)])
    BY <2>1 DEF StillSo, Account!Idle
  <2> QED
    BY <1>6, <2>2, OpenAlone DEF Account!Reset
<1> QED
  BY <1>1, <1>2, <1>3, <1>4, <1>5, <1>6 DEF Account!AuthRequest

LEMMA AdminRequestAlone ==
  ASSUME AccountAloneInv, SessionsInv', Account!Serialised', NEW q \in Sessions, Account!AdminRequest(q)
  PROVE  AccountAloneInv'
<1>1. CASE Account!Deactivate(q)
  BY <1>1, CountingRow, OpenAlone DEF Account!Deactivate
<1>2. CASE Account!SetTemporary(q)
  BY <1>2, CountingRow, OpenAlone DEF Account!SetTemporary
<1> QED
  BY <1>1, <1>2 DEF Account!AdminRequest

LEMMA WriteAlone ==
  ASSUME AccountAloneInv, SessionsInv', Account!Serialised', NEW q \in Sessions, Account!Write(q)
  PROVE  AccountAloneInv'
<1> DEFINE entry == [request[q] EXCEPT !.at = "ready", !.locks = TRUE, !.cut = now]
<1>1. /\ request' = [request EXCEPT ![q] = entry]
      /\ UNCHANGED <<now, cutoff, handed, revoked, account, link, resets>>
      /\ request[q].op \in Account!Bulk
  BY DEF Account!Write
<1>2. request[q] \in Account!RequestRows /\ StillSo(request[q])
  BY DEF AccountAloneInv, SessionsInv, Account!TypeOK
<1>3. entry.op = request[q].op /\ entry.tok = request[q].tok /\ entry.known = request[q].known
  BY <1>2 DEF Account!RequestRows
<1> HIDE DEF entry
<1>4. StillSo(entry)
  BY <1>1, <1>2, <1>3 DEF StillSo, Account!Bulk
<1> QED
  BY <1>1, <1>4, RowStepAlone

LEMMA SpendAlone ==
  ASSUME AccountAloneInv, SessionsInv', Account!Serialised', NEW q \in Sessions, Account!Spend(q)
  PROVE  AccountAloneInv'
<1>1. /\ UNCHANGED <<now, cutoff, handed, revoked, account, link, resets>>
      /\ request[q] \in Account!RequestRows /\ StillSo(request[q])
      /\ request[q].op \in {"refresh", "logout"} /\ request[q].at \in {"read", "blocked"}
  BY DEF Account!Spend, AccountAloneInv, SessionsInv, Account!TypeOK
<1>2. request[q] # Account!Idle
  BY <1>1 DEF Account!Idle
<1>3. \A p \in Sessions \ {q} : ~request[p].ins
  BY <1>2, OthersAreIdle DEF Account!Idle
<1>4. CASE request' = [request EXCEPT ![q] = Account!Idle]
  BY <1>1, <1>4, IdleIsSo, RowStepAlone
<1>5. CASE request' = [request EXCEPT ![q].at = "ready", ![q].iat = now,
                                      ![q].ins = request[q].tok \notin revoked]
  <2> DEFINE new == request[q].tok \notin revoked
  <2> DEFINE entry == [request[q] EXCEPT !.at = "ready", !.iat = now, !.ins = new]
  <2>1. request' = [request EXCEPT ![q] = entry]
    BY <1>5
  <2>2. /\ entry.op = request[q].op /\ entry.tok = request[q].tok /\ entry.pw = request[q].pw
        /\ entry.at = "ready" /\ entry.ins = new
    BY <1>1 DEF Account!RequestRows
  <2>3. request[q].op = "refresh" => new
    BY <1>1 DEF StillSo
  <2> HIDE DEF entry, new
  <2>4. StillSo(entry)
    BY <1>1, <2>2, <2>3 DEF StillSo, Ending, Account!Bulk
  <2> QED
    BY <1>1, <2>1, <2>4, RowStepAlone
<1> QED
  BY <1>3, <1>4, <1>5 DEF Account!Spend

-----------------------------------------------------------------------------
(* A commit, alone.                                                        *)

LEMMA FinishFacts ==
  ASSUME AccountAloneInv, NEW q \in Sessions, Account!Finish(q)
  PROVE  /\ request[q] \in Account!RequestRows /\ RowHolds(request[q]) /\ StillSo(request[q])
         /\ request[q].at = "ready" /\ Grows
         /\ \A p \in Sessions : request'[p] = Account!Idle
         /\ account'.byPlatform = account.byPlatform /\ (account'.active => account.active)
         /\ account'.password = (IF request[q].op \in {"reset", "change", "temporary"}
                                 THEN account.password + 1 ELSE account.password)
<1>1. /\ request[q] \in Account!RequestRows /\ RowHolds(request[q]) /\ StillSo(request[q])
      /\ request[q].at = "ready" /\ account \in Account!Accounts /\ request \in [Sessions -> Account!RequestRows]
      /\ request' = [request EXCEPT ![q] = Account!Idle] /\ account' = Account!After(request[q])
  BY DEF Account!Finish, AccountAloneInv, SessionsInv, Account!TypeOK, RequestsHold
<1>2. request[q] # Account!Idle
  BY <1>1 DEF Account!Idle
<1>3. \A p \in Sessions : request'[p] = Account!Idle
  BY <1>1, <1>2, OthersAreIdle
<1>4. Grows
  BY FinishKeeps DEF AccountAloneInv
<1> QED
  BY <1>1, <1>3, <1>4, AfterIsAnAccount

LEMMA NewToken ==
  ASSUME handed \in Seq(Account!Tokens), NEW tok, tok \in Account!Tokens, handed' = Append(handed, tok)
  PROVE  /\ Len(handed) \in Nat /\ Len(handed') = Len(handed) + 1
         /\ \A t \in 1 .. Len(handed') :
              \/ t \in 1 .. Len(handed) /\ handed'[t] = handed[t]
              \/ t = Len(handed) + 1 /\ handed'[t] = tok
  OBVIOUS

\* The token a commit hands out, alone.
LEMMA FinishToken ==
  ASSUME AccountAloneInv, NEW q \in Sessions, Account!Finish(q)
  PROVE  \/ handed' = handed
         \/ \E tok \in Account!Tokens :
              /\ handed' = Append(handed, tok)
              /\ tok.pw = account'.password
              /\ IF request[q].op = "refresh" THEN tok.from = request[q].tok ELSE tok.from = 0
<1>1. /\ request[q] \in Account!RequestRows /\ StillSo(request[q]) /\ RowHolds(request[q])
      /\ account'.password = (IF request[q].op \in {"reset", "change", "temporary"}
                              THEN account.password + 1 ELSE account.password)
      /\ now \in Nat /\ account.password \in Nat /\ account'.password \in Nat
  BY FinishFacts DEF AccountAloneInv, SessionsInv, Account!TypeOK, Account!Accounts
<1>2. CASE request[q].op \in {"login", "refresh"}
  <2> DEFINE from == IF request[q].op = "refresh" THEN request[q].tok ELSE 0
  <2> DEFINE tok == [iat |-> request[q].iat, pw |-> request[q].pw, from |-> from]
  <2>1. from \in Nat
    BY <1>1 DEF RowHolds
  <2>2. tok \in Account!Tokens /\ tok.pw = request[q].pw /\ tok.from = from
    BY <1>1, <2>1 DEF Account!Tokens, Account!RequestRows
  <2>3. handed' = Append(handed, tok)
    BY <1>2 DEF Account!Finish, Account!Issue
  <2>4. request[q].pw = account'.password
    BY <1>1, <1>2 DEF StillSo
  <2>5. IF request[q].op = "refresh" THEN from = request[q].tok ELSE from = 0
    OBVIOUS
  <2> HIDE DEF tok, from
  <2> QED
    BY <2>2, <2>3, <2>4, <2>5
<1>3. CASE request[q].op = "change"
  <2> DEFINE tok == [iat |-> now, pw |-> account.password + 1, from |-> 0]
  <2>1. tok \in Account!Tokens /\ tok.pw = account.password + 1 /\ tok.from = 0
    BY <1>1 DEF Account!Tokens
  <2>2. handed' = Append(handed, tok)
    BY <1>3 DEF Account!Finish, Account!Issue
  <2> HIDE DEF tok
  <2> QED
    BY <1>1, <1>3, <2>1, <2>2
<1>4. CASE request[q].op \notin {"login", "refresh", "change"}
  BY <1>4 DEF Account!Finish
<1> QED
  BY <1>2, <1>3, <1>4

LEMMA FinishCurrent ==
  ASSUME AccountAloneInv, NEW q \in Sessions, Account!Finish(q)
  PROVE  Current'
<1>1. /\ StillSo(request[q]) /\ Grows
      /\ account'.password = (IF request[q].op \in {"reset", "change", "temporary"}
                              THEN account.password + 1 ELSE account.password)
  BY FinishFacts
<1>2. handed \in Seq(Account!Tokens) /\ Len(handed) \in Nat
  BY DEF AccountAloneInv, SessionsInv, Account!TypeOK
<1>3. ASSUME NEW t \in 1 .. Len(handed), Account!AfterCutoff(t)'
      PROVE  handed'[t].pw = account'.password
  <2>1. CASE request[q].op \in Ending
    <3>1. t \in 1 .. request[q].known
      BY <1>1, <2>1 DEF StillSo
    <3> QED
      BY <1>3, <2>1, <3>1, FinishEnds DEF AccountAloneInv
  <2>2. CASE request[q].op \notin Ending
    <3>1. cutoff' = cutoff /\ account'.password = account.password
      BY <1>1, <2>2 DEF Account!Finish, Ending, Account!Bulk
    <3>2. handed'[t] = handed[t]
      BY <1>1 DEF Grows
    <3>3. Account!AfterCutoff(t)
      BY <1>3, <3>1, <3>2 DEF Account!AfterCutoff
    <3> QED
      BY <3>1, <3>2, <3>3 DEF AccountAloneInv, Current
  <2> QED
    BY <2>1, <2>2
<1>4. CASE handed' = handed
  BY <1>3, <1>4 DEF Current
<1>5. ASSUME NEW tok \in Account!Tokens, handed' = Append(handed, tok), tok.pw = account'.password
      PROVE  Current'
  <2> SUFFICES ASSUME NEW t \in 1 .. Len(handed'), Account!AfterCutoff(t)'
               PROVE  handed'[t].pw = account'.password
    BY DEF Current
  <2>1. \/ t \in 1 .. Len(handed)
        \/ handed'[t] = tok
    BY <1>2, <1>5, NewToken
  <2> QED
    BY <1>3, <1>5, <2>1
<1> QED
  BY <1>4, <1>5, FinishToken

LEMMA FinishExchanged ==
  ASSUME AccountAloneInv, NEW q \in Sessions, Account!Finish(q)
  PROVE  Exchanged'
<1>1. StillSo(request[q]) /\ request[q].at = "ready" /\ Grows
  BY FinishFacts
<1>2. handed \in Seq(Account!Tokens) /\ Len(handed) \in Nat /\ Exchanged
  BY DEF AccountAloneInv, SessionsInv, Account!TypeOK
<1>3. revoked \subseteq revoked' /\ (request[q].ins => request[q].tok \in revoked')
  BY DEF Account!Finish
<1>4. CASE handed' = handed
  BY <1>2, <1>3, <1>4 DEF Exchanged
<1>5. ASSUME NEW tok \in Account!Tokens, handed' = Append(handed, tok),
             IF request[q].op = "refresh" THEN tok.from = request[q].tok ELSE tok.from = 0
      PROVE  Exchanged'
  <2>1. \A t \in 1 .. Len(handed') :
          \/ t \in 1 .. Len(handed) /\ handed'[t] = handed[t]
          \/ t = Len(handed) + 1 /\ handed'[t] = tok
    BY <1>2, <1>5, NewToken
  <2>2. tok.from # 0 => /\ tok.from \in revoked' /\ tok.from \notin revoked
    BY <1>1, <1>3, <1>5 DEF StillSo
  <2>3. \A t \in 1 .. Len(handed') : handed'[t].from # 0 => handed'[t].from \in revoked'
    BY <1>2, <1>3, <2>1, <2>2 DEF Exchanged
  <2>4. ASSUME NEW t \in 1 .. Len(handed'), NEW u \in 1 .. Len(handed'),
               handed'[t].from = handed'[u].from, handed'[t].from # 0
        PROVE  t = u
    <3>1. CASE t \in 1 .. Len(handed) /\ u \in 1 .. Len(handed)
      BY <1>1, <1>2, <2>4, <3>1 DEF Exchanged, Grows
    <3>2. CASE t \in 1 .. Len(handed) /\ handed'[t] = handed[t] /\ handed'[u] = tok
      BY <1>2, <2>2, <2>4, <3>2 DEF Exchanged
    <3>3. CASE u \in 1 .. Len(handed) /\ handed'[u] = handed[u] /\ handed'[t] = tok
      BY <1>2, <2>2, <2>4, <3>3 DEF Exchanged
    <3> QED
      BY <2>1, <3>1, <3>2, <3>3
  <2> QED
    BY <2>3, <2>4 DEF Exchanged
<1> QED
  BY <1>4, <1>5, FinishToken

LEMMA FinishLinks ==
  ASSUME AccountAloneInv, NEW q \in Sessions, Account!Finish(q)
  PROVE  LinksSpent'
<1>1. /\ RowHolds(request[q]) /\ StillSo(request[q]) /\ LinksSpent
      /\ link \in [Links -> Account!LinkStates] /\ resets \in [Links -> Nat]
  BY FinishFacts DEF AccountAloneInv, SessionsInv, Account!TypeOK
<1>2. CASE request[q].op = "reset"
  <2>1. request[q].tok \in Links /\ resets[request[q].tok] = 0
    BY <1>1, <1>2 DEF RowHolds, StillSo
  <2>2. /\ link' = [link EXCEPT ![request[q].tok] = "used"]
        /\ resets' = [resets EXCEPT ![request[q].tok] = @ + 1]
    BY <1>2 DEF Account!Finish
  <2> QED
    BY <1>1, <2>1, <2>2 DEF LinksSpent
<1>3. CASE request[q].op # "reset"
  BY <1>1, <1>3 DEF Account!Finish, LinksSpent
<1> QED
  BY <1>2, <1>3

LEMMA FinishAlone ==
  ASSUME AccountAloneInv, SessionsInv', Account!Serialised', NEW q \in Sessions, Account!Finish(q)
  PROVE  AccountAloneInv'
<1>1. \A p \in Sessions : request'[p] = Account!Idle
  BY FinishFacts
<1>2. StillSo(Account!Idle)'
  BY DEF StillSo, Account!Idle, Ending, Account!Bulk
<1>3. \A p \in Sessions : StillSo(request[p])'
  BY <1>1, <1>2, SoIs
<1>4. Account!PlatformDecides'
  BY FinishFacts DEF AccountAloneInv, Account!PlatformDecides
<1> QED
  BY <1>3, <1>4, FinishCurrent, FinishExchanged, FinishLinks DEF AccountAloneInv

LEMMA StatementAlone ==
  ASSUME AccountAloneInv, SessionsInv', Account!Serialised', Statement
  PROVE  AccountAloneInv'
<1>1. /\ UNCHANGED <<handed, revoked, resets, request>>
      /\ now' \in Nat /\ now <= now'
      /\ cutoff' = cutoff \/ cutoff' = now
      /\ account'.password = account.password
      /\ \A l \in Links : link'[l] \in {"none", "open"} => link[l] \in {"none", "open"}
  BY StatementEffect DEF AccountAloneInv, SessionsInv
<1>2. ASSUME NEW p \in Sessions PROVE StillSo(request[p])'
  <2>1. PICK r : r = request[p]
    OBVIOUS
  <2>2. StillSo(r)'
    BY <1>1, <2>1, StaysSo DEF AccountAloneInv
  <2> QED
    BY <1>1, <2>1, <2>2, SoIs
<1>3. Current'
  <2> SUFFICES ASSUME NEW t \in 1 .. Len(handed), Account!AfterCutoff(t)'
               PROVE  handed[t].pw = account.password
    BY <1>1 DEF Current
  <2>1. CASE cutoff' = cutoff
    BY <1>1, <2>1 DEF Account!AfterCutoff, AccountAloneInv, Current
  <2>2. CASE cutoff' = now
    <3>1. handed[t] \in Account!Tokens /\ now \in Nat /\ handed[t].iat <= now
      BY DEF AccountAloneInv, SessionsInv, Account!TypeOK, IssuedByNow
    <3>2. ~(Account!Second(handed[t].iat) > Account!Second(now))
      BY <3>1, CutOff DEF Account!Tokens
    <3> QED
      BY <1>1, <2>2, <3>2 DEF Account!AfterCutoff
  <2> QED
    BY <1>1, <2>1, <2>2
<1>4. Exchanged' /\ LinksSpent'
  BY <1>1 DEF AccountAloneInv, Exchanged, LinksSpent
<1>5. Account!PlatformDecides'
  <2>1. account \in Account!Accounts /\ Account!PlatformDecides
    BY DEF AccountAloneInv, SessionsInv, Account!TypeOK
  <2>2. CASE (\E l \in Links : Account!RequestReset(l)) \/ Account!Tick
    <3>1. account'.byPlatform = account.byPlatform /\ account'.active = account.active
      BY <2>1, <2>2 DEF Account!RequestReset, Account!Tick, Account!Accounts
    <3> QED
      BY <2>1, <3>1 DEF Account!PlatformDecides
  <2>3. CASE Account!Decide
    <3>1. account'.byPlatform = account.byPlatform /\ account'.active = account.active
      BY <2>1, <2>3 DEF Account!Decide, Account!Accounts
    <3> QED
      BY <2>1, <3>1 DEF Account!PlatformDecides
  <2>4. CASE Account!PlatformDeactivates
    <3>1. account'.active = FALSE
      BY <2>1, <2>4 DEF Account!PlatformDeactivates, Account!Accounts
    <3> QED
      BY <3>1 DEF Account!PlatformDecides
  <2>5. CASE Account!Activate
    <3>1. ~account'.byPlatform
      BY <2>1, <2>5 DEF Account!Activate, Account!Accounts
    <3> QED
      BY <3>1 DEF Account!PlatformDecides
  <2> QED
    BY <2>2, <2>3, <2>4, <2>5 DEF Statement
<1> QED
  BY <1>2, <1>3, <1>4, <1>5 DEF AccountAloneInv

\* AloneInv is inductive, one request at a time.
LEMMA NextAccountAlone ==
  ASSUME AccountAloneInv, [Account!Next /\ Account!Serialised']_(Account!vars)
  PROVE  AccountAloneInv'
<1>1. SessionsInv'
  BY NextSessions DEF AccountAloneInv
<1>2. CASE UNCHANGED Account!vars
  <2>1. UNCHANGED <<now, cutoff, handed, revoked, account, link, resets, request>>
    BY <1>2 DEF Account!vars
  <2>2. Account!Serialised' /\ Current' /\ Exchanged' /\ LinksSpent' /\ Account!PlatformDecides'
    BY <2>1 DEF AccountAloneInv, Account!Serialised, Current, Account!AfterCutoff, Exchanged, LinksSpent, Account!PlatformDecides
  <2>3. \A q \in Sessions : StillSo(request[q])'
    BY <2>1 DEF AccountAloneInv, StillSo
  <2> QED
    BY <1>1, <2>2, <2>3 DEF AccountAloneInv
<1>3. CASE Account!Next /\ Account!Serialised'
  <2>1. ASSUME NEW q \in Sessions,
               Account!AuthRequest(q) \/ Account!AdminRequest(q) \/ Account!Write(q) \/ Account!Spend(q) \/ Account!Finish(q)
        PROVE  AccountAloneInv'
    BY <1>1, <1>3, <2>1, AuthRequestAlone, AdminRequestAlone, WriteAlone, SpendAlone, FinishAlone
  <2>2. CASE Statement
    BY <1>1, <1>3, <2>2, StatementAlone
  <2> QED
    BY <1>3, <2>1, <2>2 DEF Account!Next, Statement
<1> QED
  BY <1>2, <1>3

LEMMA InitAccountAlone == Account!Init => AccountAloneInv
<1> SUFFICES ASSUME Account!Init PROVE AccountAloneInv
  OBVIOUS
<1>1. SessionsInv /\ Len(handed) = 0
  BY InitSessions DEF Account!Init
<1>2. \A q \in Sessions : request[q] = Account!Idle
  BY DEF Account!Init
<1>3. Account!Serialised /\ \A q \in Sessions : StillSo(request[q])
  BY <1>2, IdleIsSo DEF Account!Serialised
<1>4. Current /\ Exchanged
  BY <1>1 DEF Current, Exchanged
<1>5. LinksSpent
  BY DEF Account!Init, LinksSpent
<1>6. Account!PlatformDecides
  BY DEF Account!Init, Account!PlatformDecides
<1> QED
  BY <1>1, <1>3, <1>4, <1>5, <1>6 DEF AccountAloneInv

\* One request at a time, no live token is of an earlier password, and what is used once
\* is marked before it can be used again.
THEOREM AccountAloneInvariant == Account!SerialSpec => []AccountAloneInv
<1>1. AccountAloneInv /\ [Account!Next /\ Account!Serialised']_(Account!vars) => AccountAloneInv'
  BY NextAccountAlone
<1> QED
  BY <1>1, InitAccountAlone, PTL DEF Account!SerialSpec

LEMMA AloneUsesOnce == AccountAloneInv => Account!TypeOK /\ Account!UsedOnceAlone
<1> SUFFICES ASSUME AccountAloneInv PROVE Account!TypeOK /\ Account!UsedOnceAlone
  OBVIOUS
<1>1. Account!TypeOK /\ DOMAIN handed = 1 .. Len(handed)
  BY DEF AccountAloneInv, SessionsInv, Account!TypeOK
<1>2. Account!SpentOnce
  BY <1>1 DEF AccountAloneInv, Exchanged, LinksSpent, Account!SpentOnce
<1>3. Account!OpenedWithThisPassword
  BY <1>1 DEF AccountAloneInv, Current, Account!OpenedWithThisPassword, Account!Usable
<1> QED
  BY <1>1, <1>2, <1>3 DEF AccountAloneInv, Account!UsedOnceAlone

-----------------------------------------------------------------------------
(***************************************************************************)
(* The browser (BrowserSession).  A tab that is not refreshing has never   *)
(* presented the token it holds, and a token that is not handed out yet    *)
(* was presented by nobody.                                                *)
(***************************************************************************)
TabIsSound(t) ==
  /\ ref[t] <= pairs /\ flight[t].new <= pairs
  /\ \A i \in 1..MaxPairs : shown[t][i] <= 1 /\ (i > pairs => shown[t][i] = 0)
  /\ flight[t].at = "none" /\ ref[t] # 0 => shown[t][ref[t]] = 0
  /\ flight[t].new # 0 => shown[t][flight[t].new] = 0

CallRows == [at : {"idle", "sent", "waiting", "retried"}, tok : Browser!Ids]
Flights == [at : {"none", "sent", "answered"}, tok : Browser!Ids, new : Browser!Ids]

BrowserInv == Browser!TypeOK /\ stored <= pairs /\ \A t \in Tabs : TabIsSound(t)

\* One session that every tab has loaded satisfies the invariant.
LEMMA InitBrowser == Browser!Init => BrowserInv
  BY CountsAssumption DEF Browser!Init, BrowserInv, TabIsSound, Browser!TypeOK, Browser!Ids, Browser!NoRefresh

\* The types, part by part.
LEMMA BrowserTypes ==
  /\ Browser!TypeOK <=>
       /\ ref \in [Tabs -> Browser!Ids] /\ stored \in Browser!Ids /\ pairs \in Browser!Ids
       /\ call \in [Tabs -> [Calls -> CallRows]] /\ flight \in [Tabs -> Flights]
       /\ rotated \subseteq Browser!Ids /\ ended \subseteq Browser!Ids /\ expired \subseteq Browser!Ids
       /\ shown \in [Tabs -> [Browser!Ids -> Nat]]
  /\ 0 \in Browser!Ids /\ \A i \in 1..MaxPairs : i \in Browser!Ids
  /\ [at |-> "idle", tok |-> 0] \in CallRows /\ Browser!NoRefresh \in Flights
  BY CountsAssumption DEF Browser!TypeOK, CallRows, Flights, Browser!Ids, Browser!NoRefresh

\* The calls of one tab change.
LEMMA CallsTyped ==
  ASSUME Browser!TypeOK, NEW t \in Tabs, NEW entry \in [Calls -> CallRows], call' = [call EXCEPT ![t] = entry]
  PROVE  call' \in [Tabs -> [Calls -> CallRows]]
  BY BrowserTypes

\* A step of one tab that leaves the others alone, or hands out a token, is judged by
\* what it makes of that tab.
LEMMA OneTabMoves ==
  ASSUME BrowserInv, Browser!TypeOK', NEW t \in Tabs, pairs <= pairs', stored' <= pairs',
         \A u \in Tabs \ {t} : ref'[u] = ref[u] /\ flight'[u] = flight[u] /\ shown'[u] = shown[u],
         TabIsSound(t)'
  PROVE  BrowserInv'
<1>1. ASSUME NEW u \in Tabs \ {t} PROVE TabIsSound(u)'
  <2>1. /\ ref'[u] = ref[u] /\ flight'[u] = flight[u] /\ shown'[u] = shown[u]
        /\ ref[u] \in Nat /\ flight[u].new \in Nat /\ pairs \in Nat /\ pairs' \in Nat
    BY <1>1, CountsAssumption DEF BrowserInv, Browser!TypeOK, Browser!Ids
  <2> QED
    BY <1>1, <2>1 DEF BrowserInv, TabIsSound
<1> QED
  BY <1>1 DEF BrowserInv

\* A call goes out or is answered: no token is presented.
LEMMA CallsMove ==
  ASSUME BrowserInv, NEW t \in Tabs, NEW c \in Calls, Browser!Send(t, c) \/ Browser!Answered(t, c)
  PROVE  BrowserInv'
<1>1. UNCHANGED <<ref, stored, flight, pairs, rotated, ended, expired, shown>>
  BY DEF Browser!Send, Browser!Answered, Browser!server
<1>2. call' \in [Tabs -> [Calls -> CallRows]]
  <2>1. PICK r \in CallRows : call' = [call EXCEPT ![t][c] = r]
    BY BrowserTypes DEF Browser!Send, Browser!Answered, BrowserInv, CallRows
  <2>2. [call[t] EXCEPT ![c] = r] \in [Calls -> CallRows]
    BY BrowserTypes DEF BrowserInv
  <2>3. call' = [call EXCEPT ![t] = [call[t] EXCEPT ![c] = r]]
    BY <2>1
  <2> QED
    BY <2>2, <2>3, CallsTyped DEF BrowserInv
<1>3. Browser!TypeOK'
  BY <1>1, <1>2 DEF BrowserInv, Browser!TypeOK, CallRows
<1> QED
  BY <1>1, <1>3 DEF BrowserInv, TabIsSound

\* SignedOut: a tab without tokens has nothing to present.
LEMMA SignedOutIsSound ==
  ASSUME BrowserInv, NEW t \in Tabs, Browser!SignedOut(t), UNCHANGED <<shown, pairs, rotated, ended, expired>>
  PROVE  BrowserInv'
<1>1. Browser!TypeOK'
  <2>1. [c \in Calls |-> [at |-> "idle", tok |-> 0]] \in [Calls -> CallRows]
    BY BrowserTypes
  <2>2. call' \in [Tabs -> [Calls -> CallRows]]
    BY <2>1, CallsTyped DEF Browser!SignedOut, BrowserInv
  <2>3. ref' \in [Tabs -> Browser!Ids] /\ stored' \in Browser!Ids /\ flight' \in [Tabs -> Flights]
    BY BrowserTypes DEF Browser!SignedOut, Browser!SetTokens, BrowserInv
  <2> QED
    BY <2>2, <2>3 DEF BrowserInv, Browser!TypeOK, CallRows, Flights
<1>2. ref'[t] = 0 /\ flight'[t] = Browser!NoRefresh /\ stored' = 0 /\ pairs \in Nat
  BY DEF Browser!SignedOut, Browser!SetTokens, BrowserInv, Browser!TypeOK, Browser!Ids
<1>3. TabIsSound(t)'
  BY <1>2 DEF BrowserInv, TabIsSound, Browser!NoRefresh
<1> QED
  BY <1>1, <1>2, <1>3, OneTabMoves DEF Browser!SignedOut, Browser!SetTokens, BrowserInv, Browser!TypeOK

\* refreshAccessToken: a call joins the refresh there is, or presents a token its tab has
\* not presented before.
LEMMA UnauthorizedStep ==
  ASSUME BrowserInv, NEW t \in Tabs, NEW c \in Calls, Browser!Unauthorized(t, c)
  PROVE  BrowserInv'
<1>1. UNCHANGED <<pairs, rotated, ended, expired>>
  BY DEF Browser!Unauthorized, Browser!server
<1>2. CASE ref[t] = 0 /\ Browser!SignedOut(t) /\ UNCHANGED shown
  BY <1>1, <1>2, SignedOutIsSound
<1>3. CASE /\ ref[t] # 0 /\ Browser!JoinRefresh(t) /\ call' = [call EXCEPT ![t][c].at = "waiting"]
           /\ UNCHANGED <<ref, stored>>
  <2>1. call' \in [Tabs -> [Calls -> CallRows]]
    <3>1. [call[t][c] EXCEPT !.at = "waiting"] \in CallRows /\ call[t] \in [Calls -> CallRows]
      <4>1. call[t] \in [Calls -> CallRows] /\ call[t][c] \in CallRows
        BY BrowserTypes DEF BrowserInv
      <4> QED
        BY <4>1 DEF CallRows
    <3>2. [call[t] EXCEPT ![c].at = "waiting"] \in [Calls -> CallRows]
      BY <3>1
    <3> QED
      BY <1>3, <3>2, CallsTyped DEF BrowserInv
  <2>2. CASE flight[t].at # "none"
    <3>1. UNCHANGED <<flight, shown>>
      BY <1>3, <2>2 DEF Browser!JoinRefresh
    <3>2. Browser!TypeOK'
      BY <1>1, <1>3, <2>1, <3>1 DEF BrowserInv, Browser!TypeOK, CallRows
    <3> QED
      BY <1>1, <1>3, <3>1, <3>2 DEF BrowserInv, TabIsSound
  <2>3. CASE flight[t].at = "none"
    <3>1. /\ flight' = [flight EXCEPT ![t] = [at |-> "sent", tok |-> ref[t], new |-> 0]]
          /\ shown' = [shown EXCEPT ![t][ref[t]] = @ + 1]
      BY <1>3, <2>3 DEF Browser!JoinRefresh
    <3>2. ref[t] \in 1..MaxPairs /\ ref[t] \in Browser!Ids /\ ref[t] <= pairs /\ pairs \in Nat /\ shown[t][ref[t]] = 0
      BY <1>3, <2>3, CountsAssumption DEF BrowserInv, TabIsSound, Browser!TypeOK, Browser!Ids
    <3>3. /\ shown'[t] \in [Browser!Ids -> Nat] /\ shown'[t][ref[t]] = 1
          /\ \A i \in Browser!Ids \ {ref[t]} : shown'[t][i] = shown[t][i]
          /\ \A u \in Tabs \ {t} : shown'[u] = shown[u]
          /\ shown' \in [Tabs -> [Browser!Ids -> Nat]]
      BY <3>1, <3>2 DEF BrowserInv, Browser!TypeOK
    <3>4. Browser!TypeOK'
      <4>1. [at |-> "sent", tok |-> ref[t], new |-> 0] \in Flights
        BY <3>2, BrowserTypes DEF Flights
      <4>2. flight' \in [Tabs -> Flights]
        BY <3>1, <4>1, BrowserTypes DEF BrowserInv
      <4> QED
        BY <1>1, <1>3, <2>1, <3>3, <4>2 DEF BrowserInv, Browser!TypeOK, CallRows, Flights
    <3>5. flight'[t] = [at |-> "sent", tok |-> ref[t], new |-> 0]
      BY <3>1 DEF BrowserInv, Browser!TypeOK
    <3>6. \A i \in 1..MaxPairs : shown'[t][i] <= 1 /\ (i > pairs' => shown'[t][i] = 0)
      BY <1>1, <3>2, <3>3 DEF BrowserInv, TabIsSound, Browser!Ids
    <3>7. TabIsSound(t)'
      BY <1>1, <1>3, <3>2, <3>5, <3>6 DEF BrowserInv, TabIsSound
    <3>8. \A u \in Tabs \ {t} : ref'[u] = ref[u] /\ flight'[u] = flight[u] /\ shown'[u] = shown[u]
      BY <1>3, <3>1, <3>3 DEF BrowserInv, Browser!TypeOK
    <3>9. pairs <= pairs' /\ stored' <= pairs'
      BY <1>1, <1>3, <3>2 DEF BrowserInv
    <3> QED
      BY <3>4, <3>7, <3>8, <3>9, OneTabMoves
  <2> QED
    BY <2>2, <2>3
<1> QED
  BY <1>2, <1>3 DEF Browser!Unauthorized

\* POST /auth/refresh: what it hands out was never presented.
LEMMA RotateStep ==
  ASSUME BrowserInv, NEW t \in Tabs, Browser!Rotate(t)
  PROVE  BrowserInv'
<1>1. PICK fl \in Flights :
        /\ flight' = [flight EXCEPT ![t] = fl] /\ fl.at = "answered"
        /\ \/ fl.new = flight[t].new /\ UNCHANGED <<pairs, rotated>>
           \/ fl.new = 0 /\ pairs < MaxPairs /\ pairs' = pairs + 1 /\ rotated' = rotated \cup {flight[t].tok}
           \/ fl.new = pairs + 1 /\ pairs < MaxPairs /\ pairs' = pairs + 1 /\ rotated' = rotated \cup {flight[t].tok}
  <2>1. flight[t] \in Flights
    BY BrowserTypes DEF BrowserInv
  <2>2. pairs < MaxPairs => pairs + 1 \in Browser!Ids /\ 0 \in Browser!Ids
    BY CountsAssumption DEF BrowserInv, Browser!TypeOK, Browser!Ids
  <2>3. CASE flight' = [flight EXCEPT ![t].at = "answered"] /\ UNCHANGED <<pairs, rotated>>
    <3> DEFINE f == [flight[t] EXCEPT !.at = "answered"]
    <3>1. f \in Flights /\ f.at = "answered" /\ f.new = flight[t].new
      BY <2>1 DEF Flights
    <3>2. flight' = [flight EXCEPT ![t] = f]
      BY <2>3
    <3> QED
      BY <2>3, <3>1, <3>2
  <2>4. ASSUME NEW new \in {0, pairs + 1}, pairs < MaxPairs,
               flight' = [flight EXCEPT ![t].at = "answered", ![t].new = new],
               pairs' = pairs + 1, rotated' = rotated \cup {flight[t].tok}
        PROVE  \E fl \in Flights :
                 /\ flight' = [flight EXCEPT ![t] = fl] /\ fl.at = "answered"
                 /\ \/ fl.new = flight[t].new /\ UNCHANGED <<pairs, rotated>>
                    \/ fl.new = 0 /\ pairs < MaxPairs /\ pairs' = pairs + 1 /\ rotated' = rotated \cup {flight[t].tok}
                    \/ fl.new = pairs + 1 /\ pairs < MaxPairs /\ pairs' = pairs + 1 /\ rotated' = rotated \cup {flight[t].tok}
    <3> DEFINE f == [[flight[t] EXCEPT !.at = "answered"] EXCEPT !.new = new]
    <3>1. f \in Flights /\ f.at = "answered" /\ f.new = new
      BY <2>1, <2>2, <2>4 DEF Flights
    <3>2. flight' = [flight EXCEPT ![t] = f]
      BY <2>4, BrowserTypes DEF BrowserInv
    <3> QED
      BY <2>4, <3>1, <3>2
  <2> QED
    BY <2>3, <2>4 DEF Browser!Rotate
<1>2. UNCHANGED <<ref, stored, call, expired, shown>> /\ pairs \in Nat /\ MaxPairs \in Nat
  BY CountsAssumption DEF Browser!Rotate, BrowserInv, Browser!TypeOK, Browser!Ids
<1>3. ended' \subseteq Browser!Ids
  <2>1. ended' = ended \/ ended' = 1..pairs
    BY DEF Browser!Rotate
  <2>2. 1..pairs \subseteq Browser!Ids
    BY CountsAssumption DEF BrowserInv, Browser!TypeOK, Browser!Ids
  <2> QED
    BY <2>1, <2>2 DEF BrowserInv, Browser!TypeOK
<1>4. pairs <= pairs' /\ pairs' \in Browser!Ids /\ flight[t].tok \in Browser!Ids
  BY <1>1, CountsAssumption DEF BrowserInv, Browser!TypeOK, Browser!Ids
<1>5. Browser!TypeOK'
  <2>1. flight' \in [Tabs -> Flights] /\ rotated' \subseteq Browser!Ids
    BY <1>1, <1>4, BrowserTypes DEF BrowserInv
  <2> QED
    BY <1>2, <1>3, <1>4, <2>1 DEF BrowserInv, Browser!TypeOK, Flights
<1>6. flight'[t] = fl /\ \A u \in Tabs \ {t} : flight'[u] = flight[u]
  BY <1>1 DEF BrowserInv, Browser!TypeOK
<1>7. /\ \A i \in 1..MaxPairs : shown[t][i] <= 1 /\ (i > pairs => shown[t][i] = 0)
      /\ flight[t].new <= pairs /\ ref[t] <= pairs /\ ref[t] \in Nat /\ flight[t].new \in Nat
      /\ flight[t].new # 0 => shown[t][flight[t].new] = 0
  BY CountsAssumption DEF BrowserInv, TabIsSound, Browser!TypeOK, Browser!Ids
<1>8. fl.new <= pairs' /\ (fl.new # 0 => shown[t][fl.new] = 0)
  BY <1>1, <1>2, <1>7
<1>9. \A i \in 1..MaxPairs : shown[t][i] <= 1 /\ (i > pairs' => shown[t][i] = 0)
  BY <1>2, <1>4, <1>7 DEF Browser!Ids
<1>10. ref[t] <= pairs' /\ stored <= pairs'
  BY <1>2, <1>4, <1>7, CountsAssumption DEF BrowserInv, Browser!TypeOK, Browser!Ids
<1>11. TabIsSound(t)'
  BY <1>1, <1>2, <1>6, <1>8, <1>9, <1>10 DEF TabIsSound
<1> QED
  BY <1>2, <1>4, <1>5, <1>6, <1>10, <1>11, OneTabMoves

\* The refresh settles: its tab goes on with a token it has not presented.
LEMMA SettleStep ==
  ASSUME BrowserInv, NEW t \in Tabs, Browser!Settle(t)
  PROVE  BrowserInv'
<1>1. UNCHANGED <<shown, pairs, rotated, ended, expired>>
  BY DEF Browser!Settle, Browser!server
<1>2. CASE flight[t].new = 0 /\ Browser!SignedOut(t)
  BY <1>1, <1>2, SignedOutIsSound
<1>3. CASE /\ flight[t].new # 0 /\ Browser!SetTokens(t, flight[t].new)
           /\ flight' = [flight EXCEPT ![t] = Browser!NoRefresh]
           /\ call' = [call EXCEPT ![t] =
                [c \in Calls |-> IF @[c].at = "waiting" THEN [at |-> "retried", tok |-> flight[t].new] ELSE @[c]]]
  <2>1. flight[t].new \in Browser!Ids /\ flight[t].new <= pairs /\ shown[t][flight[t].new] = 0
    BY <1>3 DEF BrowserInv, TabIsSound, Browser!TypeOK
  <2>2. /\ ref' = [ref EXCEPT ![t] = flight[t].new] /\ stored' = flight[t].new
        /\ flight'[t] = Browser!NoRefresh /\ ref'[t] = flight[t].new
        /\ \A u \in Tabs \ {t} : ref'[u] = ref[u] /\ flight'[u] = flight[u] /\ shown'[u] = shown[u]
    BY <1>1, <1>3 DEF Browser!SetTokens, BrowserInv, Browser!TypeOK
  <2>3. call' \in [Tabs -> [Calls -> CallRows]]
    <3> DEFINE entry == [c \in Calls |-> IF call[t][c].at = "waiting" THEN [at |-> "retried", tok |-> flight[t].new]
                                       ELSE call[t][c]]
    <3>1. call' = [call EXCEPT ![t] = entry]
      BY <1>3
    <3>2. [at |-> "retried", tok |-> flight[t].new] \in CallRows /\ call[t] \in [Calls -> CallRows]
      BY <2>1, BrowserTypes DEF CallRows, BrowserInv
    <3>3. entry \in [Calls -> CallRows]
      BY <3>2
    <3> QED
      BY <3>1, <3>3, CallsTyped DEF BrowserInv
  <2>4. Browser!TypeOK'
    <3>1. ref' \in [Tabs -> Browser!Ids] /\ stored' \in Browser!Ids /\ flight' \in [Tabs -> Flights]
      BY <1>3, <2>1, <2>2, BrowserTypes DEF BrowserInv
    <3> QED
      BY <1>1, <2>3, <3>1 DEF BrowserInv, Browser!TypeOK, CallRows, Flights
  <2>5. TabIsSound(t)'
    BY <1>1, <2>1, <2>2, CountsAssumption DEF BrowserInv, TabIsSound, Browser!NoRefresh, Browser!TypeOK, Browser!Ids
  <2>6. pairs <= pairs' /\ stored' <= pairs'
    BY <1>1, <2>1, <2>2 DEF BrowserInv, Browser!TypeOK, Browser!Ids
  <2> QED
    BY <2>2, <2>4, <2>5, <2>6, OneTabMoves
<1> QED
  BY <1>2, <1>3 DEF Browser!Settle

\* Signing in, loading the page and logging out.
LEMMA PageStep ==
  ASSUME BrowserInv, NEW t \in Tabs, Browser!SignIn(t) \/ Browser!Load(t) \/ Browser!Logout(t)
  PROVE  BrowserInv'
<1>1. CASE Browser!SignIn(t)
  <2>1. /\ ref[t] = 0 /\ pairs < MaxPairs /\ pairs' = pairs + 1
        /\ ref' = [ref EXCEPT ![t] = pairs + 1] /\ stored' = pairs + 1
        /\ UNCHANGED <<call, flight, rotated, ended, expired, shown>>
        /\ pairs \in Nat /\ MaxPairs \in Nat
    BY <1>1, CountsAssumption DEF Browser!SignIn, Browser!SetTokens, BrowserInv, Browser!TypeOK, Browser!Ids
  <2>2. Browser!TypeOK'
    <3>1. pairs + 1 \in Browser!Ids
      BY <2>1 DEF Browser!Ids
    <3>2. ref' \in [Tabs -> Browser!Ids]
      BY <2>1, <3>1 DEF BrowserInv, Browser!TypeOK
    <3> QED
      BY <2>1, <3>1, <3>2 DEF BrowserInv, Browser!TypeOK
  <2>3. ref'[t] = pairs + 1 /\ \A u \in Tabs \ {t} : ref'[u] = ref[u]
    BY <2>1 DEF BrowserInv, Browser!TypeOK
  <2>4. /\ flight[t].new <= pairs /\ flight[t].new \in Nat
        /\ \A i \in 1..MaxPairs : shown[t][i] <= 1 /\ (i > pairs => shown[t][i] = 0)
        /\ flight[t].new # 0 => shown[t][flight[t].new] = 0
    BY CountsAssumption DEF BrowserInv, TabIsSound, Browser!TypeOK, Browser!Ids
  <2>5. shown[t][pairs + 1] = 0
    BY <2>1, <2>4
  <2>6. TabIsSound(t)'
    BY <2>1, <2>3, <2>4, <2>5 DEF TabIsSound
  <2>7. pairs <= pairs' /\ stored' <= pairs'
    BY <2>1
  <2> QED
    BY <2>1, <2>2, <2>3, <2>6, <2>7, OneTabMoves
<1>2. CASE Browser!Load(t)
  <2>1. /\ ref' = [ref EXCEPT ![t] = stored] /\ UNCHANGED <<stored, pairs, rotated, ended, expired>>
        /\ call' = [call EXCEPT ![t] = [c \in Calls |-> [at |-> "idle", tok |-> 0]]]
        /\ flight' = [flight EXCEPT ![t] = Browser!NoRefresh]
        /\ shown' = [shown EXCEPT ![t] = [i \in Browser!Ids |-> 0]]
    BY <1>2 DEF Browser!Load, Browser!server
  <2>2. Browser!TypeOK'
    <3>1. [c \in Calls |-> [at |-> "idle", tok |-> 0]] \in [Calls -> CallRows]
      BY BrowserTypes
    <3>2. call' \in [Tabs -> [Calls -> CallRows]]
      BY <2>1, <3>1, CallsTyped DEF BrowserInv
    <3>3. [i \in Browser!Ids |-> 0] \in [Browser!Ids -> Nat]
      OBVIOUS
    <3>4. ref' \in [Tabs -> Browser!Ids] /\ flight' \in [Tabs -> Flights] /\ shown' \in [Tabs -> [Browser!Ids -> Nat]]
      BY <2>1, <3>3, BrowserTypes DEF BrowserInv
    <3> QED
      BY <2>1, <3>2, <3>4 DEF BrowserInv, Browser!TypeOK, CallRows, Flights
  <2>3. /\ ref'[t] = stored /\ flight'[t] = Browser!NoRefresh /\ shown'[t] = [i \in Browser!Ids |-> 0]
        /\ \A u \in Tabs \ {t} : ref'[u] = ref[u] /\ flight'[u] = flight[u] /\ shown'[u] = shown[u]
        /\ stored <= pairs /\ pairs \in Nat /\ stored \in Browser!Ids /\ pairs <= pairs
    BY <2>1, CountsAssumption DEF BrowserInv, Browser!TypeOK, Browser!Ids
  <2>4. TabIsSound(t)'
    BY <2>1, <2>3, CountsAssumption DEF TabIsSound, Browser!NoRefresh, Browser!Ids
  <2> QED
    BY <2>1, <2>2, <2>3, <2>4, OneTabMoves
<1>3. CASE Browser!Logout(t)
  <2>1. /\ ref' = [ref EXCEPT ![t] = 0] /\ stored' = 0 /\ UNCHANGED <<call, flight, pairs, ended, expired, shown>>
    BY <1>3 DEF Browser!Logout, Browser!SetTokens
  <2>0. rotated' \subseteq Browser!Ids /\ pairs \in Nat
    <3>1. rotated' \subseteq rotated \cup {ref[t]}
      BY <1>3 DEF Browser!Logout
    <3> QED
      BY <3>1, CountsAssumption DEF BrowserInv, Browser!TypeOK, Browser!Ids
  <2>2. Browser!TypeOK'
    <3>1. ref' \in [Tabs -> Browser!Ids] /\ 0 \in Browser!Ids
      BY <2>1, BrowserTypes DEF BrowserInv
    <3> QED
      BY <2>0, <2>1, <3>1 DEF BrowserInv, Browser!TypeOK
  <2>3. ref'[t] = 0 /\ \A u \in Tabs \ {t} : ref'[u] = ref[u]
    BY <2>1 DEF BrowserInv, Browser!TypeOK
  <2>4. TabIsSound(t)'
    BY <2>0, <2>1, <2>3 DEF BrowserInv, TabIsSound
  <2>5. pairs <= pairs' /\ stored' <= pairs'
    BY <2>0, <2>1
  <2> QED
    BY <2>1, <2>2, <2>3, <2>4, <2>5, OneTabMoves
<1> QED
  BY <1>1, <1>2, <1>3

\* Every step of the browser keeps the invariant.
LEMMA NextBrowser == BrowserInv /\ [Browser!Next]_browserVars => BrowserInv'
<1> SUFFICES ASSUME BrowserInv, [Browser!Next]_browserVars PROVE BrowserInv'
  OBVIOUS
<1>1. CASE UNCHANGED browserVars
  BY <1>1 DEF browserVars, BrowserInv, Browser!TypeOK, TabIsSound
<1>2. ASSUME NEW i \in 1..MaxPairs, Browser!Expire(i) PROVE BrowserInv'
  <2>1. UNCHANGED <<ref, stored, call, flight, pairs, rotated, ended, shown>> /\ expired' = expired \cup {i}
    BY <1>2 DEF Browser!Expire
  <2>2. Browser!TypeOK'
    BY <2>1, BrowserTypes DEF BrowserInv, Browser!TypeOK
  <2> QED
    BY <2>1, <2>2 DEF BrowserInv, TabIsSound
<1> QED
  BY <1>1, <1>2, CallsMove, UnauthorizedStep, RotateStep, SettleStep, PageStep DEF Browser!Next

-----------------------------------------------------------------------------
(***************************************************************************)
(* The roles of two organizations (Roles).  Beyond what the property says, *)
(* a system role grants for ever what it was seeded with.                  *)
(***************************************************************************)
SystemRolesAreSeeded == \A r \in DOMAIN SystemGrants : grants[r] = SystemGrants[r]

RolesInv == Authority!TypeOK /\ Authority!RolesStayInTheirOrganization /\ SystemRolesAreSeeded

\* The names of the two organizations and of the roles.
LEMMA RoleNames ==
  /\ \A u \in People : OrgOf[u] \in {"A", "B"} /\ OrgOf[u] # "none"
  /\ "Super Admin" \in DOMAIN SystemGrants
  /\ DOMAIN SystemGrants \cap {"custom"} = {}
  /\ \A r \in DOMAIN SystemGrants : SystemGrants[r] \subseteq {"users.write", "roles.write", "ai.chat"}
  /\ \A u \in People : Seeded[u] \subseteq DOMAIN SystemGrants
<1>1. \A u \in People : OrgOf[u] \in {"A", "B"} /\ OrgOf[u] # "none"
  BY DEF OrgOf
<1>2. DOMAIN SystemGrants = {"Super Admin", "Admin", "Analyst"}
  BY DEF SystemGrants
<1>3. \A r \in DOMAIN SystemGrants : SystemGrants[r] \subseteq {"users.write", "roles.write", "ai.chat"}
  BY DEF SystemGrants
<1>4. \A u \in People : Seeded[u] \subseteq DOMAIN SystemGrants
  BY <1>2 DEF Seeded, People
<1> QED
  BY <1>1, <1>2, <1>3, <1>4

\* What the property asks of every state.
LEMMA PowerStaysLocal == RolesInv => Authority!PowerIsLocal
<1> SUFFICES ASSUME RolesInv, NEW u \in People, NEW p \in {"users.write", "roles.write", "ai.chat"},
                    Authority!Permitted(u, p)
             PROVE  \E r \in held[u] : r \in {"custom"} \/ p \in SystemGrants[r]
  BY DEF Authority!PowerIsLocal
<1>1. Authority!Granting(u, p) # {}
  <2>1. Cardinality({}) = 0
    BY FS_EmptySet
  <2>2. Authority!Cardinality({}) = Cardinality({})
    BY DEF Authority!Cardinality, Cardinality
  <2> QED
    BY <2>1, <2>2 DEF Authority!Permitted
<1>2. PICK r \in held[u] : p \in grants[r]
  BY <1>1 DEF Authority!Granting
<1>3. r \in DOMAIN SystemGrants \/ r \in {"custom"}
  BY <1>2 DEF RolesInv, Authority!TypeOK, Authority!MemberRows, Authority!AllRoles
<1> QED
  BY <1>2, <1>3 DEF RolesInv, SystemRolesAreSeeded

\* What registration seeds satisfies the invariant.
LEMMA InitRoles == Authority!Init => RolesInv
<1> SUFFICES ASSUME Authority!Init PROVE RolesInv
  OBVIOUS
<1>1. owner \in Authority!RoleRows
  BY DEF Authority!Init, Authority!RoleRows
<1>2. grants \in Authority!GrantRows /\ SystemRolesAreSeeded
  BY RoleNames DEF Authority!Init, Authority!GrantRows, Authority!AllRoles, SystemRolesAreSeeded
<1>3. held = Seeded /\ Seeded \in [People -> SUBSET Authority!AllRoles]
  BY RoleNames DEF Authority!Init, Seeded, Authority!AllRoles
<1> QED
  BY <1>1, <1>2, <1>3, RoleNames
  DEF RolesInv, Authority!TypeOK, Authority!MemberRows, Authority!RolesStayInTheirOrganization

\* A role that is made is held by nobody yet, whoever held the one before it.
LEMMA CreateRoleStep ==
  ASSUME RolesInv, NEW c \in People, NEW r \in Authority!AllRoles, Authority!CreateRole(c, r)
  PROVE  RolesInv' /\ Authority!SuperAdminsChooseSuperAdmins
<1>1. /\ r \in {"custom"} /\ owner[r] = "none" /\ owner' = [owner EXCEPT ![r] = OrgOf[c]]
      /\ UNCHANGED <<grants, held>>
  BY DEF Authority!CreateRole
<1>2. owner' \in Authority!RoleRows
  BY <1>1, RoleNames DEF RolesInv, Authority!TypeOK, Authority!RoleRows
<1>3. \A u \in People : r \notin held[u]
  BY <1>1, RoleNames DEF RolesInv, Authority!RolesStayInTheirOrganization
<1>4. \A u \in People : \A x \in held'[u] \ DOMAIN SystemGrants : owner'[x] = OrgOf[u]
  BY <1>1, <1>3 DEF RolesInv, Authority!RolesStayInTheirOrganization, Authority!TypeOK, Authority!RoleRows,
                    Authority!MemberRows, Authority!AllRoles
<1> QED
  BY <1>1, <1>2, <1>4
  DEF RolesInv, Authority!TypeOK, Authority!RolesStayInTheirOrganization, SystemRolesAreSeeded,
      Authority!SuperAdminsChooseSuperAdmins, Authority!IsSuperAdmin

\* A role goes with its grants and its assignments.
LEMMA DeleteRoleStep ==
  ASSUME RolesInv, NEW c \in People, NEW r \in Authority!AllRoles, Authority!DeleteRole(c, r)
  PROVE  RolesInv' /\ Authority!SuperAdminsChooseSuperAdmins
<1>1. /\ r \in {"custom"} /\ r \notin DOMAIN SystemGrants
      /\ owner' = [owner EXCEPT ![r] = "none"] /\ grants' = [grants EXCEPT ![r] = {}]
      /\ held' = [u \in People |-> held[u] \ {r}]
  BY DEF Authority!DeleteRole, Authority!Changeable, Authority!AllRoles
<1>2. Authority!TypeOK'
  BY <1>1 DEF RolesInv, Authority!TypeOK, Authority!RoleRows, Authority!GrantRows, Authority!MemberRows
<1>3. SystemRolesAreSeeded'
  BY <1>1, RoleNames DEF RolesInv, SystemRolesAreSeeded, Authority!TypeOK, Authority!GrantRows, Authority!AllRoles
<1>4. \A u \in People : \A x \in held'[u] \ DOMAIN SystemGrants : owner'[x] = OrgOf[u]
  BY <1>1 DEF RolesInv, Authority!RolesStayInTheirOrganization, Authority!TypeOK, Authority!RoleRows,
                    Authority!MemberRows, Authority!AllRoles
<1>5. \A u \in People : "Super Admin" \in held'[u] <=> "Super Admin" \in held[u]
  BY <1>1, RoleNames
<1> QED
  BY <1>2, <1>3, <1>4, <1>5
  DEF RolesInv, Authority!RolesStayInTheirOrganization, Authority!SuperAdminsChooseSuperAdmins,
      Authority!IsSuperAdmin

\* Only a role of one's own organization is given or loses a permission.
LEMMA GrantStep ==
  ASSUME RolesInv, NEW c \in People, NEW r \in Authority!AllRoles, Authority!GrantRequest(c, r)
  PROVE  RolesInv' /\ Authority!SuperAdminsChooseSuperAdmins
<1>1. PICK p \in {"users.write", "roles.write", "ai.chat"} :
        Authority!AssignPermission(c, r, p) \/ Authority!RemovePermission(c, r, p)
  BY DEF Authority!GrantRequest
<1>2. /\ r \notin DOMAIN SystemGrants /\ UNCHANGED <<owner, held>>
      /\ grants' = [grants EXCEPT ![r] = @ \cup {p}] \/ grants' = [grants EXCEPT ![r] = @ \ {p}]
  BY <1>1 DEF Authority!AssignPermission, Authority!RemovePermission, Authority!Changeable
<1>3. Authority!TypeOK' /\ SystemRolesAreSeeded'
  BY <1>2 DEF RolesInv, Authority!TypeOK, Authority!GrantRows, SystemRolesAreSeeded, Authority!AllRoles
<1> QED
  BY <1>2, <1>3
  DEF RolesInv, Authority!RolesStayInTheirOrganization, Authority!SuperAdminsChooseSuperAdmins,
      Authority!IsSuperAdmin

\* RoleService.assign_role and its counterpart.
LEMMA MemberStep ==
  ASSUME RolesInv, NEW c \in People, NEW r \in Authority!AllRoles, Authority!MemberRequest(c, r)
  PROVE  RolesInv' /\ Authority!SuperAdminsChooseSuperAdmins
<1>1. PICK u \in People : Authority!AssignRole(c, u, r) \/ Authority!RemoveRole(c, u, r)
  BY DEF Authority!MemberRequest
<1>2. /\ UNCHANGED <<owner, grants>> /\ OrgOf[u] = OrgOf[c]
      /\ r = "Super Admin" => Authority!IsSuperAdmin(c)
      /\ \/ held' = [held EXCEPT ![u] = @ \cup {r}] /\ Authority!Visible(c, r)
         \/ held' = [held EXCEPT ![u] = @ \ {r}]
  BY <1>1 DEF Authority!AssignRole, Authority!RemoveRole
<1>3. Authority!TypeOK'
  BY <1>2 DEF RolesInv, Authority!TypeOK, Authority!MemberRows
<1>0. /\ \/ held'[u] = held[u] \cup {r} /\ Authority!Visible(c, r)
         \/ held'[u] = held[u] \ {r}
      /\ \A v \in People \ {u} : held'[v] = held[v]
  BY <1>2 DEF RolesInv, Authority!TypeOK, Authority!MemberRows
<1>4. ASSUME NEW v \in People, NEW x \in held'[v] \ DOMAIN SystemGrants PROVE owner'[x] = OrgOf[v]
  <2>1. CASE x \in held[v]
    BY <1>2, <1>4, <2>1 DEF RolesInv, Authority!RolesStayInTheirOrganization
  <2>2. CASE x \notin held[v]
    <3>1. v = u /\ x = r /\ Authority!Visible(c, r)
      BY <1>0, <1>4, <2>2
    <3> QED
      BY <1>2, <1>4, <3>1 DEF Authority!Visible
  <2> QED
    BY <2>1, <2>2
<1>5. r = "Super Admin" \/ \A v \in People : "Super Admin" \in held'[v] <=> "Super Admin" \in held[v]
  BY <1>0
<1>6. Authority!SuperAdminsChooseSuperAdmins
  BY <1>2, <1>5 DEF Authority!SuperAdminsChooseSuperAdmins, Authority!IsSuperAdmin
<1>7. SystemRolesAreSeeded'
  BY <1>2 DEF RolesInv, SystemRolesAreSeeded
<1> QED
  BY <1>3, <1>4, <1>6, <1>7 DEF RolesInv, Authority!RolesStayInTheirOrganization

\* Every step of the roles keeps the invariant, and the platform's rank with those who have it.
LEMMA NextRoles ==
  ASSUME RolesInv, [Authority!Next]_rolesVars
  PROVE  RolesInv' /\ Authority!SuperAdminsChooseSuperAdmins
<1>1. CASE UNCHANGED rolesVars
  BY <1>1 DEF rolesVars, RolesInv, Authority!TypeOK, Authority!RolesStayInTheirOrganization,
              SystemRolesAreSeeded, Authority!SuperAdminsChooseSuperAdmins, Authority!IsSuperAdmin
<1>2. CASE Authority!Next
  <2>1. PICK c \in People, r \in Authority!AllRoles :
          Authority!RoleRequest(c, r) \/ Authority!GrantRequest(c, r) \/ Authority!MemberRequest(c, r)
    BY <1>2 DEF Authority!Next
  <2> QED
    BY <2>1, CreateRoleStep, DeleteRoleStep, GrantStep, MemberStep DEF Authority!RoleRequest
<1> QED
  BY <1>1, <1>2

-----------------------------------------------------------------------------
(* The hands-free conversation.                                          *)

\* The values of the fields of a page, named: they are expanded only where they are needed.
Turns == {"idle", "listening", "processing", "speaking", "restarting", "paused", "error"}
Mics == {"off", "starting", "on", "ending"}
Labels == {"idle", "requesting", "listening", "speaking", "error"}
Heard == Voice!Words \cup {Voice!NoWords}
Silences == 0..SilentLimit
Errors == 0..(ErrorRetries + 1)
Sentences == 0..MaxQueued
Taps == 0..MaxTaps
Pages ==
  [on : BOOLEAN, timer : BOOLEAN, watchdog : BOOLEAN, answering : BOOLEAN, sent : BOOLEAN,
   turn : Turns, silent : Silences, errors : Errors, failed : Errors,
   mic : Mics, heard : Heard, errored : BOOLEAN, mine : BOOLEAN,
   queued : Sentences, dropped : BOOLEAN, muted : BOOLEAN, voice : Labels, seen : Labels,
   streaming : BOOLEAN, shown : BOOLEAN, aloud : BOOLEAN, dictated : BOOLEAN,
   stopped : BOOLEAN, reading : BOOLEAN, gone : BOOLEAN, taps : Taps]

\* The page is such a record, and each field can take what the handlers put into it.
LEMMA PagesTyped ==
  /\ Voice!Page = Pages
  /\ 0 \in Silences /\ 0 \in Errors /\ 0 \in Sentences /\ 1 \in Sentences
  /\ "off" \in Mics /\ "starting" \in Mics /\ "on" \in Mics /\ "ending" \in Mics
  /\ "idle" \in Labels /\ "requesting" \in Labels /\ "listening" \in Labels
  /\ "speaking" \in Labels /\ "error" \in Labels
  /\ Voice!NoWords \in Heard /\ \A w \in Voice!Words : w \in Heard
  /\ \A n \in Silences : Voice!OneMore(n, SilentLimit) \in Silences
  /\ \A n \in Errors : Voice!OneMore(n, ErrorRetries + 1) \in Errors
  BY CountsAssumption DEF Voice!Page, Pages, Turns, Mics, Labels, Heard, Silences, Errors, Sentences, Taps, Voice!OneMore

\* The small steps lead from a page to a page.
LEMMA SmallSteps ==
  ASSUME NEW p \in Pages
  PROVE  /\ Voice!ClearTimer(p) \in Pages
         /\ Voice!StopMic(p) \in Pages
         /\ Voice!CancelSpeech(p) \in Pages
         /\ Voice!StopSpeaking(p) \in Pages
         /\ Voice!Speak(p) \in Pages
         /\ Voice!Fresh(p) \in Pages
         /\ \A t \in Turns : Voice!SetTurn(p, t) \in Pages
         /\ \A m \in BOOLEAN : Voice!StartMic(p, m) \in Pages
<1> USE PagesTyped DEF Pages
<1>1. Voice!ClearTimer(p) \in Pages
  BY DEF Voice!ClearTimer
<1>2. Voice!StopMic(p) \in Pages
  BY DEF Voice!StopMic
<1>3. Voice!CancelSpeech(p) \in Pages
  BY DEF Voice!CancelSpeech
<1>4. Voice!StopSpeaking(p) \in Pages
  BY DEF Voice!StopSpeaking, Voice!CancelSpeech
<1>5. Voice!Speak(p) \in Pages
  <2>1. Voice!CancelSpeech(p) \in Pages /\ Voice!CancelSpeech(p).queued = 0
    BY <1>3 DEF Voice!CancelSpeech
  <2>2. ASSUME NEW q \in Pages, q.queued = 0 PROVE Voice!Play(q) \in Pages
    <3>1. q.queued + 1 \in Sentences
      BY <2>2
    <3> QED
      BY <3>1 DEF Voice!Play
  <2> QED
    BY <2>1, <2>2 DEF Voice!Speak
<1>6. Voice!Fresh(p) \in Pages
  BY DEF Voice!Fresh
<1>7. \A t \in Turns : Voice!SetTurn(p, t) \in Pages
  BY DEF Voice!SetTurn
<1>8. \A m \in BOOLEAN : Voice!StartMic(p, m) \in Pages
  <2>1. ASSUME NEW q \in Pages, NEW m \in BOOLEAN PROVE [q EXCEPT !.voice = "requesting", !.mic = "starting",
          !.mine = m, !.heard = Voice!NoWords, !.errored = FALSE] \in Pages
    OBVIOUS
  <2>2. ASSUME NEW q \in Pages PROVE [q EXCEPT !.voice = "idle", !.mic = q.mic,
          !.mine = q.mine, !.heard = Voice!NoWords, !.errored = FALSE] \in Pages
    OBVIOUS
  <2>3. ASSUME NEW m \in BOOLEAN
        PROVE  Voice!StartMic(p, m) =
          IF Voice!Accepts(p)
          THEN [Voice!CancelSpeech(p) EXCEPT !.voice = "requesting", !.mic = "starting",
                  !.mine = m, !.heard = Voice!NoWords, !.errored = FALSE]
          ELSE [Voice!CancelSpeech(p) EXCEPT !.voice = "idle", !.mic = Voice!CancelSpeech(p).mic,
                  !.mine = Voice!CancelSpeech(p).mine, !.heard = Voice!NoWords, !.errored = FALSE]
    <3> HIDE DEF Pages
    <3> QED
      BY Zenon DEF Voice!StartMic
  <2> HIDE DEF Pages
  <2> QED
    BY <1>3, <2>1, <2>2, <2>3
<1> QED
  BY <1>1, <1>2, <1>3, <1>4, <1>5, <1>6, <1>7, <1>8

\* What holds of the page after every event.  Four parts are of the properties; Before: an answer
\* that is over is rendered before a turn is taken up, so that what is heard is sent; Closed:
\* while a session of the controller is open, nothing plays and nothing is to be played.
Running(p) == p.mic \in {"starting", "on"}
Agreed(p) == p.answering = p.streaming
Still(p) == ~p.on \/ p.turn = "paused" => ~p.timer /\ ~p.watchdog
Watched(p) == Voice!Hears(p) => p.watchdog
Own(p) == Voice!Hears(p) => p.mic # "ending" /\ (p.mic = "off" \/ p.mine)
Before(p) == Voice!Hears(p) /\ ~p.streaming => ~p.shown
Closed(p) ==
  p.mine /\ Running(p) =>
    p.on /\ p.turn # "paused" /\ p.queued = 0 /\ p.voice # "speaking" /\ (p.streaming => p.dropped)
Sound(p) == p \in Pages /\ Agreed(p) /\ Still(p) /\ Watched(p) /\ Own(p) /\ Before(p) /\ Closed(p)

\* A pause closes the microphone and stops the timers.
LEMMA PauseIsSound == ASSUME NEW p \in Pages, Agreed(p) PROVE Sound(Voice!Pause(p))
<1>1. Voice!Pause(p) \in Pages
  BY SmallSteps, PagesTyped DEF Voice!Pause, Turns
<1>2. Agreed(Voice!Pause(p)) /\ Still(Voice!Pause(p)) /\ Watched(Voice!Pause(p)) /\ Own(Voice!Pause(p))
   /\ Before(Voice!Pause(p)) /\ Closed(Voice!Pause(p))
  BY DEF Voice!Pause, Voice!StopMic, Voice!SetTurn, Voice!ClearTimer, Pages, 
     Agreed, Still, Watched, Own, Before, Closed, Running, Voice!Hears
<1> QED
  BY <1>1, <1>2 DEF Sound

\* Hands-free moves on to a pending restart, one more failure or one more silence.
LEMMA GoesOn ==
  ASSUME NEW p \in Pages, Agreed(p), p.on, Closed(p)
  PROVE  /\ Sound(Voice!ListenAfter(p)) /\ Sound(Voice!RetryAfterError(p)) /\ Sound(Voice!CountSilence(p))
         /\ ~Voice!Hears(Voice!CountSilence(p))
<1>1. ASSUME NEW q \in Pages, Agreed(q), q.on, Closed(q)
      PROVE  Sound(Voice!ListenAfter(q)) /\ ~Voice!Hears(Voice!ListenAfter(q))
  <2>1. Voice!SetTurn(Voice!ClearTimer(q), "restarting") \in Pages
    BY <1>1, SmallSteps DEF Turns
  <2>2. Voice!ListenAfter(q) \in Pages
    BY <2>1 DEF Voice!ListenAfter, Pages
  <2>3. /\ Agreed(Voice!ListenAfter(q)) /\ Still(Voice!ListenAfter(q)) /\ Watched(Voice!ListenAfter(q))
        /\ Own(Voice!ListenAfter(q)) /\ Before(Voice!ListenAfter(q)) /\ Closed(Voice!ListenAfter(q))
        /\ ~Voice!Hears(Voice!ListenAfter(q))
    BY <1>1 DEF Voice!ListenAfter, Voice!SetTurn, Voice!ClearTimer, Pages,
                Agreed, Still, Watched, Own, Before, Closed, Running, Voice!Hears
  <2> QED
    BY <2>2, <2>3 DEF Sound
<1>2. ASSUME NEW q \in Pages
      PROVE  ~Voice!Hears(Voice!Pause(q))
  BY <1>2 DEF Voice!Pause, Voice!StopMic, Voice!SetTurn, Voice!ClearTimer, Pages, Voice!Hears
<1>3. Sound(Voice!RetryAfterError(p))
  <2> DEFINE counted == [p EXCEPT !.errors = Voice!OneMore(@, ErrorRetries + 1)]
  <2>1. counted \in Pages
    BY PagesTyped DEF Pages
  <2>2. Agreed(counted) /\ counted.on /\ Closed(counted)
    BY DEF Agreed, Closed, Running, Pages
  <2>3. Voice!RetryAfterError(p) = IF p.errors < ErrorRetries THEN Voice!ListenAfter(counted) ELSE Voice!Pause(counted)
    BY DEF Voice!RetryAfterError
  <2> HIDE DEF counted
  <2> QED
    BY <2>1, <2>2, <2>3, <1>1, PauseIsSound
<1>4. Sound(Voice!CountSilence(p)) /\ ~Voice!Hears(Voice!CountSilence(p))
  <2> DEFINE counted == [p EXCEPT !.silent = Voice!OneMore(@, SilentLimit)]
  <2>1. counted \in Pages
    BY PagesTyped DEF Pages
  <2>2. Agreed(counted) /\ counted.on /\ Closed(counted)
    BY DEF Agreed, Closed, Running, Pages
  <2>3. Voice!CountSilence(p) = IF counted.silent >= SilentLimit THEN Voice!Pause(counted) ELSE Voice!ListenAfter(counted)
    BY DEF Voice!CountSilence
  <2> HIDE DEF counted
  <2> QED
    BY <2>1, <2>2, <2>3, <1>1, <1>2, PauseIsSound
<1> QED
  BY <1>1, <1>3, <1>4

\* The microphone opens for a turn: only when nothing is to be spoken of the answer in
\* production, and no rendered answer is still to go.
LEMMA ListenIsSound ==
  ASSUME NEW p \in Pages, Agreed(p), p.on, Closed(p), p.streaming => p.dropped, p.shown => p.streaming
  PROVE  Sound(Voice!Listen(p))
<1>1. CASE Voice!Accepts(p)
  <2>1. Voice!StartMic(Voice!SetTurn(p, "listening"), TRUE) \in Pages
    BY SmallSteps DEF Turns
  <2>2. Voice!Listen(p) = [Voice!StartMic(Voice!SetTurn(p, "listening"), TRUE) EXCEPT !.watchdog = TRUE]
    BY <1>1 DEF Voice!Listen
  <2>3. Voice!Listen(p) \in Pages
    BY <2>1, <2>2 DEF Pages
  <2>4. /\ Agreed(Voice!Listen(p)) /\ Still(Voice!Listen(p)) /\ Watched(Voice!Listen(p))
        /\ Own(Voice!Listen(p)) /\ Before(Voice!Listen(p)) /\ Closed(Voice!Listen(p))
    BY <1>1, <2>2 DEF Voice!StartMic, Voice!Accepts, Voice!CancelSpeech, Voice!SetTurn, Pages,
                Agreed, Still, Watched, Own, Before, Closed, Running, Voice!Hears
  <2> QED
    BY <2>3, <2>4 DEF Sound
<1>2. CASE ~Voice!Accepts(p)
  <2> DEFINE refused == Voice!SetTurn(Voice!StartMic(p, TRUE), "error")
  <2>1. refused \in Pages
    BY SmallSteps DEF Turns
  <2>2. Agreed(refused) /\ refused.on /\ Closed(refused)
    BY <1>2 DEF Voice!StartMic, Voice!Accepts, Voice!CancelSpeech, Voice!SetTurn, Pages, Agreed, Closed, Running
  <2>3. Voice!Listen(p) = Voice!RetryAfterError(refused)
    BY <1>2 DEF Voice!Listen
  <2> HIDE DEF refused
  <2> QED
    BY <2>1, <2>2, <2>3, GoesOn
<1> QED
  BY <1>1, <1>2

\* Speech begins: whatever was open is closed.
LEMMA SpeakingIsSound ==
  ASSUME NEW p \in Pages, Agreed(p), Still(p), (p.on /\ p.turn # "paused") \/ Closed(p)
  PROVE  Sound(Voice!OnSpeaking(p))
<1>1. CASE p.on /\ p.turn # "paused"
  <2>1. Voice!OnSpeaking(p) = Voice!StopMic(Voice!SetTurn(Voice!ClearTimer(p), "speaking"))
    BY <1>1 DEF Voice!OnSpeaking
  <2>2. Voice!OnSpeaking(p) \in Pages
    BY <2>1, SmallSteps DEF Turns
  <2>3. /\ Agreed(Voice!OnSpeaking(p)) /\ Still(Voice!OnSpeaking(p)) /\ Watched(Voice!OnSpeaking(p))
        /\ Own(Voice!OnSpeaking(p)) /\ Before(Voice!OnSpeaking(p)) /\ Closed(Voice!OnSpeaking(p))
    BY <1>1, <2>1 DEF Voice!StopMic, Voice!SetTurn, Voice!ClearTimer, Pages,
                Agreed, Still, Watched, Own, Before, Closed, Running, Voice!Hears
  <2> QED
    BY <2>2, <2>3 DEF Sound
<1>2. CASE ~(p.on /\ p.turn # "paused")
  BY <1>2 DEF Voice!OnSpeaking, Sound, Watched, Own, Before, Voice!Hears
<1> QED
  BY <1>1, <1>2

\* The last sentence has been played.
LEMMA SpeechDoneIsSound == ASSUME NEW p, Sound(p) PROVE Sound(Voice!OnSpeechDone(p))
  BY GoesOn DEF Voice!OnSpeechDone, Sound

\* The page renders.
LEMMA RenderedIsSound ==
  ASSUME NEW p \in Pages, Agreed(p), Still(p), Watched(p), Own(p),
         Closed(p) \/ (p.voice # p.seen /\ p.voice = "speaking" /\ p.on /\ p.turn # "paused")
  PROVE  Sound(Voice!Rendered(p))
<1> DEFINE drawn == [p EXCEPT !.seen = p.voice, !.shown = p.streaming]
<1>1. drawn \in Pages
  BY DEF Pages
<1>2. /\ Agreed(drawn) /\ Still(drawn) /\ Watched(drawn) /\ Own(drawn) /\ Before(drawn)
      /\ Closed(p) => Closed(drawn)
      /\ drawn.on = p.on /\ drawn.turn = p.turn
  BY DEF Agreed, Still, Watched, Own, Before, Closed, Running, Voice!Hears, Pages
<1>3. Voice!Rendered(p) = IF p.voice = p.seen THEN drawn
                          ELSE IF p.voice = "speaking" THEN Voice!OnSpeaking(drawn) ELSE Voice!OnSpeechDone(drawn)
  BY DEF Voice!Rendered
<1> HIDE DEF drawn
<1>4. CASE p.voice # p.seen /\ p.voice = "speaking"
  BY <1>1, <1>2, <1>3, <1>4, SpeakingIsSound
<1>5. CASE ~(p.voice # p.seen /\ p.voice = "speaking")
  <2>1. Sound(drawn)
    BY <1>1, <1>2, <1>5 DEF Sound
  <2> QED
    BY <1>3, <1>5, <2>1, SpeechDoneIsSound
<1> QED
  BY <1>4, <1>5

\* A request begins, from a page that shows none.
LEMMA SendIsSound ==
  ASSUME NEW p \in Pages, ~p.shown, Closed(p)
  PROVE  Sound(Voice!Send(p))
<1> DEFINE begun == Voice!OnAnswerStarted(p)
           sent(aloud) == [begun EXCEPT !.streaming = TRUE, !.stopped = FALSE, !.dropped = FALSE, !.aloud = aloud]
<1>1. begun \in Pages
  <2>1. [p EXCEPT !.answering = TRUE] \in Pages
    BY DEF Pages
  <2> QED
    BY <2>1, SmallSteps DEF Voice!OnAnswerStarted, Turns
<1>2. Voice!Send(p) = sent(p.dictated \/ p.on)
  BY DEF Voice!Send
<1>3. begun.answering /\ Still(begun) /\ ~Voice!Hears(begun) /\ ~(begun.mine /\ Running(begun))
  BY DEF Voice!OnAnswerStarted, Voice!ClearTimer, Voice!SetTurn, Voice!StopMic, Pages, Still, Voice!Hears, Running, Closed
<1> HIDE DEF begun
<1>4. ASSUME NEW aloud \in BOOLEAN PROVE Sound(sent(aloud))
  <2>1. sent(aloud) \in Pages
    BY <1>1 DEF Pages
  <2>2. Agreed(sent(aloud)) /\ Still(sent(aloud)) /\ ~Voice!Hears(sent(aloud)) /\ Closed(sent(aloud))
    BY <1>1, <1>3 DEF Agreed, Still, Closed, Running, Voice!Hears, Pages
  <2> QED
    BY <2>1, <2>2 DEF Sound, Watched, Own, Before
<1>5. (p.dictated \/ p.on) \in BOOLEAN
  OBVIOUS
<1> HIDE DEF sent
<1> QED
  BY <1>2, <1>4, <1>5

\* Hands-free is switched off.
LEMMA DisableIsSound == ASSUME NEW p \in Pages, Agreed(p) PROVE Sound(Voice!Disable(p)) /\ ~Voice!Disable(p).on
<1>1. Voice!Disable(p) \in Pages
  <2>1. [p EXCEPT !.on = FALSE] \in Pages
    BY DEF Pages
  <2> QED
    BY <2>1, SmallSteps DEF Voice!Disable, Turns
<1>2. /\ Agreed(Voice!Disable(p)) /\ Still(Voice!Disable(p)) /\ ~Voice!Disable(p).on /\ Closed(Voice!Disable(p))
  BY DEF Voice!Disable, Voice!SetTurn, Voice!StopSpeaking, Voice!CancelSpeech, Voice!StopMic, Voice!ClearTimer,
         Pages, Agreed, Still, Closed, Running
<1> QED
  BY <1>1, <1>2 DEF Sound, Watched, Own, Before, Voice!Hears

\* The microphone has ended with words.
LEMMA FinalIsSound ==
  ASSUME NEW p, Sound(p), p.mic = "off", NEW said \in Voice!Words
  PROVE  Sound(Voice!OnFinal(p, said))
<1> DEFINE told == [p EXCEPT !.silent = 0, !.errors = 0]
           asked == [Voice!SetTurn(told, "processing") EXCEPT !.watchdog = FALSE, !.sent = TRUE, !.answering = TRUE]
<1>1. told \in Pages
  BY PagesTyped DEF Pages, Sound
<1>2. Sound(told) /\ told.on = p.on /\ told.turn = p.turn /\ told.mic = p.mic
  BY <1>1 DEF Sound, Agreed, Still, Watched, Own, Before, Closed, Running, Voice!Hears, Pages
<1>3. Voice!Hears(p) /\ ~p.answering => asked \in Pages /\ ~asked.shown /\ Closed(asked)
  <2>1. Voice!SetTurn(told, "processing") \in Pages
    BY <1>1, SmallSteps DEF Turns
  <2>2. asked \in Pages
    BY <2>1 DEF Pages
  <2>3. asked.mic = "off" /\ asked.shown = p.shown
    BY <1>1 DEF Voice!SetTurn, Pages, Sound
  <2> QED
    BY <2>2, <2>3 DEF Closed, Running, Sound, Before, Agreed, Pages
<1>4. \/ Voice!OnFinal(p, said) = p
      \/ Voice!OnFinal(p, said) = Voice!Disable(told)
      \/ Voice!OnFinal(p, said) = told
      \/ Voice!OnFinal(p, said) = Voice!ListenAfter(told) /\ Voice!Hears(p)
      \/ Voice!OnFinal(p, said) = Voice!Send(asked) /\ Voice!Hears(p) /\ ~p.answering
  BY DEF Voice!OnFinal
<1> HIDE DEF told, asked
<1>5. Agreed(told) /\ Closed(told) /\ (Voice!Hears(p) => told.on)
  BY <1>2 DEF Sound, Voice!Hears
<1> QED
  BY <1>1, <1>2, <1>3, <1>4, <1>5, DisableIsSound, SendIsSound, GoesOn

\* A session that heard nothing, and one that failed.
LEMMA NoSpeechIsSound == ASSUME NEW p, Sound(p) PROVE Sound(Voice!OnNoSpeech(p))
  BY GoesOn DEF Voice!OnNoSpeech, Sound, Voice!Hears

LEMMA ErrorIsSound == ASSUME NEW p, Sound(p), NEW code PROVE Sound(Voice!OnError(p, code))
<1>1. \/ Voice!OnError(p, code) = p
      \/ Voice!OnError(p, code) = Voice!Pause(p)
      \/ Voice!OnError(p, code) = Voice!RetryAfterError(p) /\ p.on
  BY DEF Voice!OnError, Sound, Pages
<1> QED
  BY <1>1, GoesOn, PauseIsSound DEF Sound

\* The answer is over.
LEMMA AnswerDoneIsSound ==
  ASSUME NEW p \in Pages, ~p.streaming, Still(p), Watched(p), Own(p), Closed(p), NEW failed \in BOOLEAN
  PROVE  Sound(Voice!OnAnswerDone(p, failed))
<1> DEFINE over == [p EXCEPT !.answering = FALSE]
           counted == [over EXCEPT !.failed = IF failed THEN Voice!OneMore(@, ErrorRetries + 1) ELSE 0]
<1>1. over \in Pages /\ counted \in Pages
  <2>1. over \in Pages
    BY DEF Pages
  <2> HIDE DEF over
  <2>2. (IF failed THEN Voice!OneMore(over.failed, ErrorRetries + 1) ELSE 0) \in Errors
    BY <2>1, PagesTyped DEF Pages
  <2> QED
    BY <2>1, <2>2 DEF Pages
<1>2. /\ Agreed(over) /\ Still(over) /\ Watched(over) /\ Own(over) /\ Closed(over)
      /\ ~over.on \/ over.turn = "paused" <=> ~p.on \/ p.turn = "paused"
  BY DEF Agreed, Still, Watched, Own, Closed, Running, Voice!Hears, Pages
<1>3. Agreed(counted) /\ Still(counted) /\ Closed(counted) /\ counted.on = p.on
  BY <1>1, <1>2 DEF Agreed, Still, Closed, Running, Pages
<1>4. \/ Voice!OnAnswerDone(p, failed) = over /\ (~p.on \/ p.turn = "paused")
      \/ /\ Voice!OnAnswerDone(p, failed) \in {Voice!Pause(counted), Voice!SetTurn(counted, "speaking"), Voice!ListenAfter(counted)}
         /\ p.on /\ p.turn # "paused"
  BY DEF Voice!OnAnswerDone, Pages
<1> HIDE DEF over, counted
<1>5. ASSUME p.on, p.turn # "paused" PROVE Sound(Voice!SetTurn(counted, "speaking"))
  <2>1. Voice!SetTurn(counted, "speaking") \in Pages
    BY <1>1, SmallSteps DEF Turns
  <2> QED
    BY <1>1, <1>3, <1>5, <2>1
    DEF Sound, Voice!SetTurn, Agreed, Still, Watched, Own, Before, Closed, Running, Voice!Hears, Pages
<1>6. ASSUME ~p.on \/ p.turn = "paused" PROVE Sound(over)
  BY <1>1, <1>2, <1>6 DEF Sound, Before, Voice!Hears
<1> QED
  BY <1>1, <1>3, <1>4, <1>5, <1>6, GoesOn, PauseIsSound

\* The inductive invariant of the page.
VoiceInv == Sound(ui)

LEMMA InitVoice == Voice!Init => VoiceInv
  BY CountsAssumption
  DEF Voice!Init, VoiceInv, Sound, Pages, Turns, Mics, Labels, Heard, Silences, Errors, Sentences, Taps,
      Voice!NoWords, Agreed, Still, Watched, Own, Before, Closed, Running, Voice!Hears

\* A tap: what is done with the page, and the page rendered.
LEMMA TapKeeps ==
  ASSUME NEW p \in Pages, Agreed(p), Still(p), Watched(p), Own(p), p.taps = ui.taps,
         Closed(p) \/ (p.voice # p.seen /\ p.voice = "speaking" /\ p.on /\ p.turn # "paused"),
         Voice!Tap(p)
  PROVE  VoiceInv'
<1> DEFINE tapped == [p EXCEPT !.taps = @ + 1]
<1>1. ui' = Voice!Rendered(tapped) /\ p.taps < MaxTaps
  BY DEF Voice!Tap
<1>2. tapped \in Pages
  <2>1. p.taps + 1 \in Taps
    BY <1>1, CountsAssumption DEF Taps, Pages
  <2> QED
    BY <2>1 DEF Pages
<1>3. /\ Agreed(tapped) /\ Still(tapped) /\ Watched(tapped) /\ Own(tapped) /\ (Closed(p) => Closed(tapped))
      /\ tapped.voice = p.voice /\ tapped.seen = p.seen /\ tapped.on = p.on /\ tapped.turn = p.turn
  BY DEF Agreed, Still, Watched, Own, Closed, Running, Voice!Hears, Pages
<1> HIDE DEF tapped
<1> QED
  BY <1>1, <1>2, <1>3, RenderedIsSound DEF VoiceInv

LEMMA SoundTapKeeps == ASSUME NEW p, Sound(p), p.taps = ui.taps, Voice!Tap(p) PROVE VoiceInv'
<1>1. p \in Pages /\ Agreed(p) /\ Still(p) /\ Watched(p) /\ Own(p) /\ Closed(p)
  BY DEF Sound
<1> QED
  BY <1>1, TapKeeps

\* The browser's part: the microphone.
LEMMA MicKeeps ==
  ASSUME VoiceInv, \/ Voice!MicStarts \/ Voice!MicEnds \/ \E words \in Voice!Words : Voice!MicHears(words)
                   \/ \E code \in Voice!ErrorCodes : Voice!MicFails(code)
  PROVE  VoiceInv'
<1> USE DEF VoiceInv
<1>1. CASE Voice!MicStarts
  <2>1. ui'\in Pages
    BY <1>1, PagesTyped DEF Voice!MicStarts, Sound, Pages
  <2> QED
    BY <1>1, <2>1 DEF Voice!MicStarts, Sound, Pages, Agreed, Still, Watched, Own, Before, Closed, Running, Voice!Hears
<1>2. CASE Voice!MicEnds
  <2> DEFINE finished == [ui EXCEPT !.mic = "off", !.heard = Voice!NoWords, !.errored = FALSE,
                             !.voice = IF @ \in {"requesting", "listening"} THEN "idle" ELSE @]
  <2>1. finished \in Pages
    BY PagesTyped DEF Sound, Pages
  <2>2. Sound(finished) /\ finished.mic = "off"
    BY <2>1 DEF Sound, Pages, Agreed, Still, Watched, Own, Before, Closed, Running, Voice!Hears
  <2>3. ui.heard # Voice!NoWords => ui.heard \in Voice!Words
    BY DEF Sound, Pages, Heard
  <2>4. ui' = CASE ui.heard # Voice!NoWords -> Voice!OnFinal(finished, ui.heard)
                [] ui.heard = Voice!NoWords /\ ~ui.errored -> Voice!OnNoSpeech(finished)
                [] OTHER -> finished
    BY <1>2 DEF Voice!MicEnds
  <2> HIDE DEF finished
  <2>5. \/ ui' = Voice!OnFinal(finished, ui.heard) /\ ui.heard # Voice!NoWords
        \/ ui' = Voice!OnNoSpeech(finished) \/ ui' = finished
    BY <2>4
  <2> QED
    BY <2>2, <2>3, <2>5, FinalIsSound, NoSpeechIsSound
<1>3. CASE \E words \in Voice!Words : Voice!MicHears(words)
  <2>1. PICK words \in Voice!Words : Voice!MicHears(words)
    BY <1>3
  <2> DEFINE hearing == [ui EXCEPT !.heard = words, !.dictated = TRUE]
  <2>2. hearing \in Pages
    BY PagesTyped DEF Sound, Pages
  <2>3. Sound(hearing)
    BY <2>2 DEF Sound, Pages, Agreed, Still, Watched, Own, Before, Closed, Running, Voice!Hears
  <2>4. ui' = Voice!OnHeard(hearing)
    BY <2>1 DEF Voice!MicHears
  <2> HIDE DEF hearing
  <2>5. ASSUME Voice!Hears(hearing) PROVE Sound([hearing EXCEPT !.watchdog = TRUE])
    <3>1. [hearing EXCEPT !.watchdog = TRUE] \in Pages
      BY <2>2 DEF Pages
    <3> QED
      BY <2>3, <2>5, <3>1 DEF Sound, Pages, Agreed, Still, Watched, Own, Before, Closed, Running, Voice!Hears
  <2> QED
    BY <2>3, <2>4, <2>5 DEF Voice!OnHeard
<1>4. CASE \E code \in Voice!ErrorCodes : Voice!MicFails(code)
  <2>1. PICK code \in Voice!ErrorCodes : Voice!MicFails(code)
    BY <1>4
  <2> DEFINE failed == [ui EXCEPT !.errored = TRUE, !.voice = "error"]
  <2>2. failed \in Pages
    BY PagesTyped DEF Sound, Pages
  <2>3. Sound(failed)
    BY <2>2 DEF Sound, Pages, Agreed, Still, Watched, Own, Before, Closed, Running, Voice!Hears
  <2>4. ui' = IF code = "no-speech" THEN Voice!OnNoSpeech(failed) ELSE Voice!OnError(failed, code)
    BY <2>1 DEF Voice!MicFails
  <2> HIDE DEF failed
  <2> QED
    BY <2>3, <2>4, NoSpeechIsSound, ErrorIsSound
<1> QED
  BY <1>1, <1>2, <1>3, <1>4

\* The speech, the request and the clock.
LEMMA PlayKeeps ==
  ASSUME VoiceInv, \/ Voice!Render \/ Voice!SentenceEnds \/ Voice!SentenceArrives
                   \/ \E how \in {"done", "error", "dropped", "aborted"} : Voice!AnswerEnds(how)
                   \/ Voice!TimerFires \/ Voice!WatchdogFires
  PROVE  VoiceInv'
<1> USE DEF VoiceInv
<1>0. ui \in Pages /\ Agreed(ui) /\ Still(ui) /\ Watched(ui) /\ Own(ui) /\ Before(ui) /\ Closed(ui)
  BY DEF Sound
<1>1. CASE Voice!Render
  BY <1>0, <1>1, RenderedIsSound DEF Voice!Render
<1>2. CASE Voice!SentenceEnds
  <2> DEFINE played == [ui EXCEPT !.queued = @ - 1]
             last == [played EXCEPT !.voice = IF @ = "speaking" THEN "idle" ELSE @]
  <2>1. played \in Pages /\ last \in Pages
    <3>1. ui.queued - 1 \in Sentences
      BY <1>0, <1>2, CountsAssumption DEF Voice!SentenceEnds, Pages, Sentences
    <3>2. played \in Pages
      BY <1>0, <3>1 DEF Pages
    <3> HIDE DEF played
    <3> QED
      BY <3>2, PagesTyped DEF Pages
  <2>2. ui.queued # 0
    BY <1>2 DEF Voice!SentenceEnds
  <2>3. Sound(played) /\ Sound(last)
    BY <1>0, <2>1, <2>2 DEF Sound, Pages, Agreed, Still, Watched, Own, Before, Closed, Running, Voice!Hears
  <2>4. ui' = IF ui.queued > 1 THEN played ELSE Voice!OnSpeechDone(last)
    BY <1>2 DEF Voice!SentenceEnds
  <2> HIDE DEF played, last
  <2> QED
    BY <2>3, <2>4, SpeechDoneIsSound
<1>3. CASE Voice!SentenceArrives
  <2>1. ui.streaming /\ ~ui.dropped /\ ui' = [ui EXCEPT !.queued = @ + 1, !.voice = "speaking"]
    BY <1>3 DEF Voice!SentenceArrives, Voice!Play
  <2>2. ui' \in Pages
    <3>1. ui.queued + 1 \in Sentences
      BY <1>0, <1>3, CountsAssumption DEF Voice!SentenceArrives, Pages, Sentences
    <3> QED
      BY <1>0, <2>1, <3>1, PagesTyped DEF Pages
  <2> QED
    BY <1>0, <2>1, <2>2 DEF Sound, Pages, Agreed, Still, Watched, Own, Before, Closed, Running, Voice!Hears
<1>4. CASE \E how \in {"done", "error", "dropped", "aborted"} : Voice!AnswerEnds(how)
  <2>1. PICK how \in {"done", "error", "dropped", "aborted"} : Voice!AnswerEnds(how)
    BY <1>4
  <2> DEFINE over == [ui EXCEPT !.streaming = FALSE,
                            !.dictated = IF how = "done" /\ ui.aloud THEN FALSE ELSE @]
  <2>2. over \in Pages
    BY <1>0 DEF Pages
  <2>3. ~over.streaming /\ Still(over) /\ Watched(over) /\ Own(over) /\ Closed(over)
    BY <1>0 DEF Pages, Still, Watched, Own, Closed, Running, Voice!Hears
  <2>4. ui' = Voice!OnAnswerDone(over, how = "dropped" /\ ~ui.stopped)
    BY <2>1 DEF Voice!AnswerEnds
  <2>5. (how = "dropped" /\ ~ui.stopped) \in BOOLEAN
    OBVIOUS
  <2> HIDE DEF over
  <2> QED
    BY <2>2, <2>3, <2>4, <2>5, AnswerDoneIsSound
<1>5. CASE Voice!TimerFires
  <2> DEFINE due == [ui EXCEPT !.timer = FALSE]
  <2>1. due \in Pages
    BY <1>0 DEF Pages
  <2>2. /\ Sound(due) /\ due.on = ui.on
        /\ ~ui.answering => ~due.streaming /\ ~due.shown
    BY <1>0, <1>5, <2>1
    DEF Voice!TimerFires, Voice!UpToDate, Sound, Pages, Agreed, Still, Watched, Own, Before, Closed, Running, Voice!Hears
  <2>3. ui' = IF ui.on /\ ~ui.answering /\ ui.turn # "paused" THEN Voice!Listen(due) ELSE due
    BY <1>5 DEF Voice!TimerFires
  <2> HIDE DEF due
  <2> QED
    BY <2>1, <2>2, <2>3, ListenIsSound DEF Sound
<1>6. CASE Voice!WatchdogFires
  <2> DEFINE due == [ui EXCEPT !.watchdog = FALSE]
  <2>1. due \in Pages
    BY <1>0 DEF Pages
  <2>2. /\ Agreed(due) /\ Closed(due) /\ due.on = ui.on
        /\ ~Voice!Hears(ui) => Sound(due)
    BY <1>0, <2>1 DEF Sound, Pages, Agreed, Still, Watched, Own, Before, Closed, Running, Voice!Hears
  <2>3. ui' = IF Voice!Hears(ui) THEN Voice!StopMic(Voice!CountSilence(due)) ELSE due
    BY <1>6 DEF Voice!WatchdogFires
  <2> HIDE DEF due
  <2>4. ASSUME NEW q, Sound(q), ~Voice!Hears(q) PROVE Sound(Voice!StopMic(q))
    <3>1. Voice!StopMic(q) \in Pages
      BY <2>4, SmallSteps DEF Sound
    <3> QED
      BY <2>4, <3>1 DEF Voice!StopMic, Sound, Pages, Agreed, Still, Watched, Own, Before, Closed, Running, Voice!Hears
  <2> QED
    BY <2>1, <2>2, <2>3, <2>4, GoesOn DEF Voice!Hears
<1> QED
  BY <1>1, <1>2, <1>3, <1>4, <1>5, <1>6

\* What the page does with itself is not the person's doing.
LEMMA TapsKept ==
  ASSUME NEW p \in Pages
  PROVE  /\ Voice!ClearTimer(p).taps = p.taps /\ Voice!StopMic(p).taps = p.taps
         /\ Voice!CancelSpeech(p).taps = p.taps /\ Voice!StopSpeaking(p).taps = p.taps
         /\ Voice!Speak(p).taps = p.taps /\ Voice!Fresh(p).taps = p.taps
         /\ \A t \in Turns : Voice!SetTurn(p, t).taps = p.taps
         /\ \A m \in BOOLEAN : Voice!StartMic(p, m).taps = p.taps
         /\ Voice!Pause(p).taps = p.taps /\ Voice!ListenAfter(p).taps = p.taps
         /\ Voice!RetryAfterError(p).taps = p.taps
         /\ Voice!Send(p).taps = p.taps
<1> USE DEF Pages
<1>1. Voice!ClearTimer(p).taps = p.taps /\ Voice!StopMic(p).taps = p.taps /\ Voice!CancelSpeech(p).taps = p.taps
  BY DEF Voice!ClearTimer, Voice!StopMic, Voice!CancelSpeech
<1>2. Voice!StopSpeaking(p).taps = p.taps /\ Voice!Speak(p).taps = p.taps /\ Voice!Fresh(p).taps = p.taps
  BY DEF Voice!StopSpeaking, Voice!CancelSpeech, Voice!Speak, Voice!Play, Voice!Fresh
<1>3. /\ \A t \in Turns : Voice!SetTurn(p, t).taps = p.taps
      /\ \A m \in BOOLEAN : Voice!StartMic(p, m).taps = p.taps
  BY DEF Voice!SetTurn, Voice!StartMic, Voice!CancelSpeech
<1>4. ASSUME NEW q \in Pages PROVE Voice!Pause(q).taps = q.taps /\ Voice!ListenAfter(q).taps = q.taps
  BY <1>4 DEF Voice!Pause, Voice!StopMic, Voice!SetTurn, Voice!ClearTimer, Voice!ListenAfter
<1>5. Voice!RetryAfterError(p).taps = p.taps
  <2> DEFINE counted == [p EXCEPT !.errors = Voice!OneMore(@, ErrorRetries + 1)]
  <2>1. counted \in Pages /\ counted.taps = p.taps
    BY PagesTyped
  <2>2. Voice!RetryAfterError(p) = IF p.errors < ErrorRetries THEN Voice!ListenAfter(counted) ELSE Voice!Pause(counted)
    BY DEF Voice!RetryAfterError
  <2> HIDE DEF counted
  <2> QED
    BY <1>4, <2>1, <2>2
<1>6. Voice!Send(p).taps = p.taps
  BY DEF Voice!Send, Voice!OnAnswerStarted, Voice!StopMic, Voice!SetTurn, Voice!ClearTimer
<1> QED
  BY <1>1, <1>2, <1>3, <1>4, <1>5, <1>6

LEMMA ListenKeepsTaps == ASSUME NEW p \in Pages PROVE Voice!Listen(p).taps = p.taps
<1>1. CASE Voice!Accepts(p)
  BY <1>1 DEF Voice!Listen, Voice!StartMic, Voice!CancelSpeech, Voice!SetTurn, Pages
<1>2. CASE ~Voice!Accepts(p)
  <2>1. Voice!StartMic(p, TRUE) \in Pages /\ Voice!StartMic(p, TRUE).taps = p.taps
    BY SmallSteps, TapsKept
  <2>2. /\ Voice!SetTurn(Voice!StartMic(p, TRUE), "error") \in Pages
        /\ Voice!SetTurn(Voice!StartMic(p, TRUE), "error").taps = p.taps
    BY <2>1, SmallSteps, TapsKept DEF Turns
  <2> QED
    BY <1>2, <2>2, TapsKept DEF Voice!Listen
<1> QED
  BY <1>1, <1>2

\* A page that takes a turn up: no session of the controller is open on it.
Ready(p) ==
  /\ p \in Pages /\ p.on /\ Agreed(p) /\ ~(p.mine /\ Running(p)) /\ p.shown = p.streaming
  /\ p.taps = ui.taps /\ p.streaming = ui.streaming

\* Hands-free is switched on or taken up again.
LEMMA FreshIsReady ==
  ASSUME VoiceInv, Voice!UpToDate, ~ui.on \/ ui.turn = "paused"
  PROVE  Ready(Voice!Fresh(ui)) /\ ui.answering = ui.streaming
<1>1. ui \in Pages /\ ui.answering = ui.streaming /\ ~(ui.mine /\ Running(ui)) /\ ui.shown = ui.streaming
  BY DEF VoiceInv, Sound, Voice!UpToDate, Closed, Agreed
<1>2. Voice!Fresh(ui) \in Pages /\ Voice!Fresh(ui).taps = ui.taps
  BY <1>1, SmallSteps, TapsKept
<1>3. /\ Voice!Fresh(ui).on /\ Voice!Fresh(ui).answering = ui.answering /\ Voice!Fresh(ui).streaming = ui.streaming
      /\ Voice!Fresh(ui).mine = ui.mine /\ Voice!Fresh(ui).mic = ui.mic /\ Voice!Fresh(ui).shown = ui.shown
  BY <1>1 DEF Voice!Fresh, Pages
<1> QED
  BY <1>1, <1>2, <1>3 DEF Ready, Agreed, Running

LEMMA ReadyTurns ==
  ASSUME NEW p, Ready(p)
  PROVE  /\ \A t \in {"processing", "speaking"} : Sound(Voice!SetTurn(p, t)) /\ Voice!SetTurn(p, t).taps = ui.taps
         /\ Ready(Voice!ClearTimer(p)) /\ Ready(Voice!StopMic(p)) /\ Ready(Voice!Speak(p))
         /\ ~ui.streaming => Sound(Voice!Listen(p)) /\ Voice!Listen(p).taps = ui.taps
<1>1. p \in Pages
  BY DEF Ready
<1>2. ASSUME NEW t \in {"processing", "speaking"}
      PROVE  Sound(Voice!SetTurn(p, t)) /\ Voice!SetTurn(p, t).taps = ui.taps
  <2>1. Voice!SetTurn(p, t) \in Pages /\ Voice!SetTurn(p, t).taps = p.taps
    BY <1>1, SmallSteps, TapsKept DEF Turns
  <2>2. /\ Agreed(Voice!SetTurn(p, t)) /\ Still(Voice!SetTurn(p, t)) /\ ~Voice!Hears(Voice!SetTurn(p, t))
        /\ Closed(Voice!SetTurn(p, t))
    BY <1>1 DEF Ready, Voice!SetTurn, Agreed, Still, Closed, Running, Voice!Hears, Pages
  <2> QED
    BY <2>1, <2>2 DEF Ready, Sound, Watched, Own, Before
<1>3. Ready(Voice!ClearTimer(p))
  <2>1. Voice!ClearTimer(p) \in Pages /\ Voice!ClearTimer(p).taps = p.taps
    BY <1>1, SmallSteps, TapsKept
  <2> QED
    BY <1>1, <2>1 DEF Ready, Voice!ClearTimer, Agreed, Running, Pages
<1>4. Ready(Voice!StopMic(p))
  <2>1. Voice!StopMic(p) \in Pages /\ Voice!StopMic(p).taps = p.taps
    BY <1>1, SmallSteps, TapsKept
  <2> QED
    BY <1>1, <2>1 DEF Ready, Voice!StopMic, Agreed, Running, Pages
<1>5. Ready(Voice!Speak(p))
  <2>1. Voice!Speak(p) \in Pages /\ Voice!Speak(p).taps = p.taps
    BY <1>1, SmallSteps, TapsKept
  <2>2. /\ Voice!Speak(p).on = p.on /\ Voice!Speak(p).answering = p.answering /\ Voice!Speak(p).streaming = p.streaming
        /\ Voice!Speak(p).mine = p.mine /\ Voice!Speak(p).mic = p.mic /\ Voice!Speak(p).shown = p.shown
    BY <1>1 DEF Voice!Speak, Voice!Play, Voice!CancelSpeech, Pages
  <2> QED
    BY <2>1, <2>2 DEF Ready, Agreed, Running
<1>6. ~ui.streaming => Sound(Voice!Listen(p)) /\ Voice!Listen(p).taps = ui.taps
  BY <1>1, ListenIsSound, ListenKeepsTaps DEF Ready, Closed
<1> QED
  BY <1>2, <1>3, <1>4, <1>5, <1>6

LEMMA EnableIsSound ==
  ASSUME VoiceInv, Voice!UpToDate, ~ui.on
  PROVE  Sound(Voice!Enable(ui)) /\ Voice!Enable(ui).taps = ui.taps
<1> DEFINE quiet == Voice!StopMic(Voice!ClearTimer(Voice!Fresh(ui)))
<1>1. Ready(Voice!Fresh(ui)) /\ Ready(quiet) /\ ui.answering = ui.streaming
  BY FreshIsReady, ReadyTurns
<1>2. \/ Voice!Enable(ui) = Voice!SetTurn(Voice!Fresh(ui), "processing")
      \/ Voice!Enable(ui) = Voice!SetTurn(Voice!Speak(quiet), "speaking")
      \/ Voice!Enable(ui) = Voice!Listen(quiet) /\ ~ui.answering
  BY DEF Voice!Enable
<1> HIDE DEF quiet
<1> QED
  BY <1>1, <1>2, ReadyTurns

LEMMA ResumeIsSound ==
  ASSUME VoiceInv, Voice!UpToDate, ui.turn = "paused"
  PROVE  Sound(Voice!Resume(ui)) /\ Voice!Resume(ui).taps = ui.taps
<1>1. Ready(Voice!Fresh(ui)) /\ Ready(Voice!ClearTimer(Voice!Fresh(ui))) /\ ui.answering = ui.streaming
  BY FreshIsReady, ReadyTurns
<1> QED
  BY <1>1, ReadyTurns DEF Voice!Resume

LEMMA InterruptIsSound ==
  ASSUME VoiceInv, Voice!UpToDate, ui.on
  PROVE  Sound(Voice!Interrupt(ui)) /\ Voice!Interrupt(ui).taps = ui.taps
<1>0. ui \in Pages /\ Agreed(ui) /\ Closed(ui) /\ ui.shown = ui.streaming
  BY DEF VoiceInv, Sound, Voice!UpToDate
<1> DEFINE quiet == Voice!ClearTimer(Voice!StopSpeaking(ui))
<1>1. quiet \in Pages /\ quiet.taps = ui.taps
  BY <1>0, SmallSteps, TapsKept
<1>2. quiet.on /\ Agreed(quiet) /\ Closed(quiet) /\ quiet.dropped /\ quiet.shown = quiet.streaming
  BY <1>0 DEF Voice!ClearTimer, Voice!StopSpeaking, Voice!CancelSpeech, Agreed, Closed, Running, Pages
<1>3. Voice!Interrupt(ui) = Voice!Listen(quiet)
  BY DEF Voice!Interrupt
<1> HIDE DEF quiet
<1> QED
  BY <1>1, <1>2, <1>3, ListenIsSound, ListenKeepsTaps

\* What a person does to the speech, the microphone or the request of a sound page leaves it
\* sound.
LEMMA TouchIsSound ==
  ASSUME VoiceInv
  PROVE  /\ Sound(Voice!StopSpeaking(ui)) /\ Sound(Voice!CancelSpeech(ui))
         /\ Sound(Voice!Pause(ui)) /\ Sound(Voice!Pause(Voice!StopSpeaking(ui))) /\ Sound(Voice!Disable(ui))
         /\ ~ui.on => Sound(Voice!StopMic(ui)) /\ Sound(Voice!StartMic(ui, FALSE))
         /\ Voice!UpToDate /\ ~ui.streaming => Sound(Voice!Send(ui))
<1>0. ui \in Pages /\ Agreed(ui) /\ Still(ui) /\ Watched(ui) /\ Own(ui) /\ Before(ui) /\ Closed(ui)
  BY DEF VoiceInv, Sound
<1>1. Sound(Voice!StopSpeaking(ui)) /\ Sound(Voice!CancelSpeech(ui))
  <2>1. Voice!StopSpeaking(ui) \in Pages /\ Voice!CancelSpeech(ui) \in Pages
    BY <1>0, SmallSteps
  <2> QED
    BY <1>0, <2>1 DEF Voice!StopSpeaking, Voice!CancelSpeech,
      Sound, Agreed, Still, Watched, Own, Before, Closed, Running, Voice!Hears, Pages
<1>2. Sound(Voice!Pause(ui)) /\ Sound(Voice!Pause(Voice!StopSpeaking(ui))) /\ Sound(Voice!Disable(ui))
  BY <1>0, <1>1, PauseIsSound, DisableIsSound DEF Sound
<1>3. ASSUME ~ui.on PROVE Sound(Voice!StopMic(ui)) /\ Sound(Voice!StartMic(ui, FALSE))
  <2>1. Voice!StopMic(ui) \in Pages /\ Voice!StartMic(ui, FALSE) \in Pages
    BY <1>0, SmallSteps
  <2>2. Sound(Voice!StopMic(ui))
    BY <1>0, <1>3, <2>1 DEF Voice!StopMic,
      Sound, Agreed, Still, Watched, Own, Before, Closed, Running, Voice!Hears, Pages
  <2>3. Sound(Voice!StartMic(ui, FALSE))
    BY <1>0, <1>3, <2>1 DEF Voice!StartMic, Voice!Accepts, Voice!CancelSpeech,
      Sound, Agreed, Still, Watched, Own, Before, Closed, Running, Voice!Hears, Pages
  <2> QED
    BY <2>2, <2>3
<1>4. Voice!UpToDate /\ ~ui.streaming => Sound(Voice!Send(ui))
  BY <1>0, SendIsSound DEF Voice!UpToDate
<1> QED
  BY <1>1, <1>2, <1>3, <1>4

\* A sentence read aloud in hands-free: the microphone is open until the page is rendered.
LEMMA ReadAloudKeeps == ASSUME VoiceInv, Voice!ToggleReadAloud PROVE VoiceInv'
<1>0. ui \in Pages /\ Agreed(ui) /\ Still(ui) /\ Watched(ui) /\ Own(ui) /\ Before(ui) /\ Closed(ui)
  BY DEF VoiceInv, Sound
<1>1. CASE Voice!Tap([Voice!Speak(ui) EXCEPT !.reading = TRUE])
  <2> DEFINE read == [Voice!Speak(ui) EXCEPT !.reading = TRUE]
  <2>1. Voice!Speak(ui) \in Pages /\ Voice!Speak(ui).taps = ui.taps
    BY <1>0, SmallSteps, TapsKept
  <2>2. read \in Pages /\ read.taps = ui.taps
    BY <2>1 DEF Pages
  <2>3. /\ Voice!Speak(ui).on = ui.on /\ Voice!Speak(ui).turn = ui.turn
        /\ Voice!Speak(ui).timer = ui.timer /\ Voice!Speak(ui).watchdog = ui.watchdog
        /\ Voice!Speak(ui).answering = ui.answering /\ Voice!Speak(ui).streaming = ui.streaming
        /\ Voice!Speak(ui).mine = ui.mine /\ Voice!Speak(ui).mic = ui.mic
        /\ Voice!Speak(ui).seen = ui.seen /\ Voice!Speak(ui).voice = "speaking"
    BY <1>0 DEF Voice!Speak, Voice!Play, Voice!CancelSpeech, Pages
  <2>4. /\ read.on = ui.on /\ read.turn = ui.turn /\ read.timer = ui.timer /\ read.watchdog = ui.watchdog
        /\ read.answering = ui.answering /\ read.streaming = ui.streaming
        /\ read.mine = ui.mine /\ read.mic = ui.mic /\ read.seen = ui.seen /\ read.voice = "speaking"
    BY <2>1, <2>3 DEF Pages
  <2> HIDE DEF read
  <2>5. Agreed(read) /\ Still(read) /\ Watched(read) /\ Own(read)
    BY <1>0, <2>4 DEF Agreed, Still, Watched, Own, Voice!Hears
  <2>6. ui.seen = ui.voice
    BY <1>1 DEF Voice!Tap, Voice!UpToDate
  <2>7. Closed(read) \/ (read.voice # read.seen /\ read.voice = "speaking" /\ read.on /\ read.turn # "paused")
    BY <1>0, <2>4, <2>6 DEF Closed, Running
  <2>8. Voice!Tap(read)
    BY <1>1 DEF read
  <2> QED
    BY <2>2, <2>5, <2>7, <2>8, TapKeeps
<1>2. CASE ui.voice = "speaking" /\ ui.reading /\ Voice!Tap([Voice!StopSpeaking(ui) EXCEPT !.reading = FALSE])
  <2> DEFINE hushed == [Voice!StopSpeaking(ui) EXCEPT !.reading = FALSE]
  <2>1. Sound(Voice!StopSpeaking(ui)) /\ Voice!StopSpeaking(ui).taps = ui.taps
    BY <1>0, TouchIsSound, TapsKept
  <2>2. hushed \in Pages /\ hushed.taps = ui.taps
    BY <2>1 DEF Sound, Pages
  <2>3. Sound(hushed)
    BY <2>1, <2>2 DEF Sound, Agreed, Still, Watched, Own, Before, Closed, Running, Voice!Hears, Pages
  <2> HIDE DEF hushed
  <2>4. Voice!Tap(hushed)
    BY <1>2 DEF hushed
  <2> QED
    BY <2>2, <2>3, <2>4, SoundTapKeeps
<1> QED
  BY <1>1, <1>2 DEF Voice!ToggleReadAloud

\* The other things a person does.
LEMMA PersonKeeps == ASSUME VoiceInv, Voice!Person PROVE VoiceInv'
<1>0. ui \in Pages /\ Agreed(ui) /\ Still(ui) /\ Watched(ui) /\ Own(ui) /\ Before(ui) /\ Closed(ui)
  BY DEF VoiceInv, Sound
<1>1. /\ Voice!StopSpeaking(ui).taps = ui.taps /\ Voice!CancelSpeech(ui).taps = ui.taps
      /\ Voice!StopMic(ui).taps = ui.taps /\ Voice!StartMic(ui, FALSE).taps = ui.taps
      /\ Voice!Send(ui).taps = ui.taps /\ Voice!Pause(Voice!StopSpeaking(ui)).taps = ui.taps
  <2>1. Voice!StopSpeaking(ui) \in Pages
    BY <1>0, SmallSteps
  <2> QED
    BY <1>0, <2>1, TapsKept
<1>2. CASE Voice!ToggleHandsFree
  <2>1. Voice!Disable(ui).taps = ui.taps
    BY <1>0 DEF Voice!Disable, Voice!SetTurn, Voice!StopSpeaking, Voice!CancelSpeech, Voice!StopMic, Voice!ClearTimer, Pages
  <2>2. Voice!UpToDate
    BY <1>2 DEF Voice!ToggleHandsFree, Voice!Tap
  <2>3. PICK p : Voice!Tap(p) /\ p = CASE ui.turn = "paused" -> Voice!Resume(ui)
                                       [] ui.turn # "paused" /\ ui.on -> Voice!Disable(ui)
                                       [] OTHER -> Voice!Enable(ui)
    BY <1>2 DEF Voice!ToggleHandsFree
  <2>4. Sound(p) /\ p.taps = ui.taps
    <3>1. CASE ui.turn = "paused"
      BY <2>2, <2>3, <3>1, ResumeIsSound
    <3>2. CASE ui.turn # "paused" /\ ui.on
      BY <2>1, <2>3, <3>2, TouchIsSound
    <3>3. CASE ui.turn # "paused" /\ ~ui.on
      BY <2>2, <2>3, <3>3, EnableIsSound
    <3> QED
      BY <3>1, <3>2, <3>3
  <2> QED
    BY <2>3, <2>4, SoundTapKeeps
<1>3. CASE Voice!TapInterrupt
  BY <1>3, InterruptIsSound, SoundTapKeeps DEF Voice!TapInterrupt, Voice!Tap
<1>4. CASE Voice!PauseByUser \/ Voice!HideTab
  BY <1>1, <1>4, TouchIsSound, SoundTapKeeps DEF Voice!PauseByUser, Voice!HideTab
<1>5. CASE Voice!ToggleListening
  BY <1>1, <1>5, TouchIsSound, SoundTapKeeps DEF Voice!ToggleListening
<1>6. CASE Voice!TapStopSpeaking
  BY <1>1, <1>6, TouchIsSound, SoundTapKeeps DEF Voice!TapStopSpeaking
<1>7. CASE Voice!ToggleMuted
  <2> DEFINE p == IF ui.muted THEN ui ELSE Voice!CancelSpeech(ui)
             switched == [p EXCEPT !.muted = ~@]
  <2>1. Sound(p) /\ p.taps = ui.taps
    BY <1>0, <1>1, TouchIsSound DEF VoiceInv
  <2>2. Voice!Tap(switched)
    BY <1>7 DEF Voice!ToggleMuted
  <2> HIDE DEF p
  <2>3. switched \in Pages /\ switched.taps = ui.taps
    BY <2>1 DEF Sound, Pages
  <2>4. Sound(switched)
    BY <2>1, <2>3 DEF Sound, Agreed, Still, Watched, Own, Before, Closed, Running, Voice!Hears, Pages
  <2> HIDE DEF switched
  <2> QED
    BY <2>2, <2>3, <2>4, SoundTapKeeps
<1>8. CASE Voice!SendTyped
  BY <1>1, <1>8, TouchIsSound, SoundTapKeeps DEF Voice!SendTyped, Voice!Tap
<1>9. CASE Voice!StopAnswer
  <2> DEFINE aborted == [ui EXCEPT !.stopped = TRUE]
             hushed == Voice!StopSpeaking(aborted)
  <2>1. aborted \in Pages /\ aborted.taps = ui.taps
    BY <1>0 DEF Pages
  <2>2. Sound(aborted)
    BY <1>0, <2>1 DEF Sound, Agreed, Still, Watched, Own, Before, Closed, Running, Voice!Hears, Pages
  <2>3. Voice!Tap(hushed) \/ Voice!Tap(aborted)
    BY <1>9 DEF Voice!StopAnswer
  <2> HIDE DEF aborted
  <2>4. hushed \in Pages /\ hushed.taps = ui.taps
    BY <2>1, SmallSteps, TapsKept
  <2>5. Sound(hushed)
    BY <2>1, <2>2, <2>4 DEF Voice!StopSpeaking, Voice!CancelSpeech,
      Sound, Agreed, Still, Watched, Own, Before, Closed, Running, Voice!Hears, Pages
  <2> HIDE DEF hushed
  <2> QED
    BY <2>1, <2>2, <2>3, <2>4, <2>5, SoundTapKeeps
<1>10. CASE Voice!Leave
  <2>1. Voice!ClearTimer(ui) \in Pages /\ Voice!ClearTimer(ui).taps = ui.taps
    BY <1>0, SmallSteps, TapsKept
  <2>2. ui.taps + 1 \in Taps
    BY <1>0, <1>10, CountsAssumption DEF Voice!Leave, Pages, Taps
  <2>3. ui' \in Pages
    BY <1>10, <2>1, <2>2, PagesTyped DEF Voice!Leave, Pages
  <2>4. /\ ~ui'.on /\ ~ui'.timer /\ ~ui'.watchdog /\ ui'.mic = "off"
        /\ ui'.answering = ui.answering /\ ui'.streaming = ui.streaming
    BY <1>0, <1>10 DEF Voice!Leave, Voice!ClearTimer, Pages
  <2> QED
    BY <1>0, <2>3, <2>4 DEF VoiceInv, Sound, Agreed, Still, Watched, Own, Before, Closed, Running, Voice!Hears
<1> QED
  BY <1>2, <1>3, <1>4, <1>5, <1>6, <1>7, <1>8, <1>9, <1>10, ReadAloudKeeps DEF Voice!Person

\* Every event keeps the invariant.
LEMMA NextVoice == VoiceInv /\ [Voice!Next]_ui => VoiceInv'
<1>1. ASSUME VoiceInv, UNCHANGED ui PROVE VoiceInv'
  BY <1>1 DEF VoiceInv
<1> QED
  BY <1>1, MicKeeps, PlayKeeps, PersonKeeps DEF Voice!Next

\* It says what the properties say.
LEMMA SoundKeepsTurns == VoiceInv => VoiceKeepsTurns
<1>1. ASSUME VoiceInv PROVE Voice!MicClosedWhileSpeaking
  BY <1>1, PagesTyped DEF VoiceInv, Sound, Pages, Closed, Running, Voice!MicClosedWhileSpeaking, Mics, Sentences
<1>2. ASSUME VoiceInv PROVE Voice!TypeOK /\ Voice!OneRequest /\ Voice!QuietWhenPaused /\ Voice!ListeningIsWatched /\ Voice!ListensToItsOwn
  BY <1>2, PagesTyped DEF VoiceInv, Sound, Agreed, Still, Watched, Own, Voice!Hears,
     Voice!TypeOK, Voice!OneRequest, Voice!QuietWhenPaused, Voice!ListeningIsWatched, Voice!ListensToItsOwn
<1> QED
  BY <1>1, <1>2 DEF VoiceKeepsTurns

-----------------------------------------------------------------------------
(* The accounts together: a worker's identity beside a person's sessions.  *)

\* What holds of both, the worker's part while its requests do not overlap.
AccountsInv ==
  /\ SessionsInv
  /\ ~overlap => AloneInv /\ AccountAloneInv

LEMMA InitAccounts == MCInit => AccountsInv
  BY InitAlone, InitSessions, InitAccountAlone
  DEF MCInit, AccountsInv

\* A step of the composition is a step of the account or leaves it alone, and the same of
\* the worker.
LEMMA ComposedSteps ==
  ASSUME [MCNext]_MCvars
  PROVE  /\ overlap' = overlap
         /\ [Account!Next]_(Account!vars)
         /\ ~overlap => /\ [Next /\ Serialised']_vars
                        /\ [Account!Next /\ Account!Serialised']_(Account!vars)
<1> USE DEF Account!vars, sessionVars
<1>1. CASE UNCHANGED MCvars
  BY <1>1 DEF MCvars, vars
<1>2. CASE OnlyWorker /\ Next /\ (overlap \/ Serialised')
  BY <1>2 DEF OnlyWorker
<1>3. CASE OnlySessions /\ Account!Next /\ IF overlap THEN Len(handed') <= 2 ELSE Account!Serialised'
  BY <1>3 DEF OnlySessions
<1>4. CASE OnlyBrowser \/ OnlyRoles \/ OnlyVoice
  BY <1>4 DEF OnlyBrowser, OnlyRoles, OnlyVoice
<1> QED
  BY <1>1, <1>2, <1>3, <1>4 DEF MCNext

LEMMA NextAccounts == AccountsInv /\ [MCNext]_MCvars => AccountsInv'
  BY ComposedSteps, NextAlone, NextSessions, NextAccountAlone
  DEF AccountsInv

\* One request at a time, an enrollment token buys at most one credential, a refresh token
\* is exchanged once, a reset link sets one password, no session outlives the password it
\* was opened with, and only the platform ends its own deactivation (enroll, refresh,
\* mark_used, reset_password, set_active).
THEOREM WhatIsUsedOnce == MCSpec => []UsedOnceAlone
<1>1. AccountsInv => UsedOnceAlone
  BY AloneUsesOnce
  DEF AccountsInv, AloneInv, UsedOnceAlone, SessionsInv,
      Account!UsedOnceAlone, Account!SpentOnce, Account!OpenedWithThisPassword,
      Account!PlatformDecides, Account!Usable, Account!AfterCutoff, Account!CanAuthenticate,
      Account!Second
<1> QED
  BY <1>1, InitAccounts, NextAccounts, PTL DEF MCSpec

\* One request at a time, a rotated or re-issued credential stays revoked with its access
\* tokens, and only an administrator enables a disabled worker (rotate_credential,
\* reissue_enrollment, set_enabled).
THEOREM RevocationIsForGood == MCSpec => RevokedForGoodAlone
<1>1. AccountsInv /\ [MCNext]_MCvars => [~overlap => RevokedForGood]_vars
  BY ComposedSteps, NextRevokes DEF AccountsInv
<1> QED
  BY <1>1, InitAccounts, NextAccounts, PTL DEF MCSpec, RevokedForGoodAlone

\* However requests overlap, what ends every session leaves no token alive that was
\* handed out before it began, one of the cutoff's own second included, and the session
\* change_password returns is alive (revoke_all_for_user, issued_before_cutoff).
THEOREM EarlierSessionsEnd == MCSpec => EndsEarlierSessions
<1>1. ASSUME AccountsInv, [MCNext]_MCvars
      PROVE  Account!EndsEarlierSessions /\ Account!ChangeKeepsItsCaller
  <2>1. SessionsEnd
    BY <1>1, ComposedSteps, NextEnds DEF AccountsInv
  <2> QED
    BY <2>1 DEF SessionsEnd
<1>2. AccountsInv /\ [MCNext]_MCvars =>
        [part = "sessions" => Account!EndsEarlierSessions /\ Account!ChangeKeepsItsCaller]_sessionVars
  BY <1>1
<1> QED
  BY <1>2, InitAccounts, NextAccounts, PTL DEF MCSpec, EndsEarlierSessions

\* A step of the composition is a step of the browser or leaves it alone, and the same of
\* the roles.
LEMMA ComposedParts ==
  ASSUME [MCNext]_MCvars
  PROVE  [Browser!Next]_browserVars /\ [Authority!Next]_rolesVars
<1>1. CASE UNCHANGED MCvars
  BY <1>1 DEF MCvars
<1>2. CASE OnlyWorker \/ OnlySessions \/ OnlyVoice
  BY <1>2 DEF OnlyWorker, OnlySessions, OnlyVoice
<1>3. CASE OnlyBrowser /\ Browser!Next
  BY <1>3 DEF OnlyBrowser
<1>4. CASE OnlyRoles /\ Authority!Next
  BY <1>4 DEF OnlyRoles
<1> QED
  BY <1>1, <1>2, <1>3, <1>4 DEF MCNext

\* With any number of tabs and calls, a tab presents a refresh token at most once between
\* two loads of the page (refreshAccessToken's shared promise).
THEOREM TokensArePresentedOnce == MCSpec => []PresentedOnce
<1>1. MCInit => BrowserInv
  BY InitBrowser DEF MCInit
<1>2. BrowserInv /\ [MCNext]_MCvars => BrowserInv'
  BY ComposedParts, NextBrowser
<1>3. BrowserInv => PresentedOnce
  BY DEF BrowserInv, TabIsSound, PresentedOnce, Browser!PresentedOnce
<1> QED
  BY <1>1, <1>2, <1>3, PTL DEF MCSpec

\* Only a Super Admin's step makes a Super Admin or ends one (assign_role), no user comes
\* to hold another organization's role, and no system role comes to grant more.
THEOREM RanksAreKept == MCSpec => NobodyGainsRank
<1>1. MCInit => RolesInv
  BY InitRoles DEF MCInit
<1>2. ASSUME RolesInv, [MCNext]_MCvars
      PROVE  RolesInv' /\ Authority!SuperAdminsChooseSuperAdmins
  BY <1>2, ComposedParts, NextRoles
<1>3. RolesInv' => (Authority!TypeOK /\ Authority!RolesStayInTheirOrganization /\ Authority!PowerIsLocal)'
  <2>1. RolesInv => Authority!TypeOK /\ Authority!RolesStayInTheirOrganization /\ Authority!PowerIsLocal
    BY PowerStaysLocal DEF RolesInv
  <2> QED
    BY <2>1, PTL
<1>4. RolesInv /\ [MCNext]_MCvars =>
        /\ RolesInv'
        /\ [part = "roles" =>
              /\ Authority!SuperAdminsChooseSuperAdmins
              /\ (Authority!TypeOK /\ Authority!RolesStayInTheirOrganization /\ Authority!PowerIsLocal)']_rolesVars
  BY <1>2, <1>3
<1> QED
  BY <1>1, <1>4, PTL DEF MCSpec, NobodyGainsRank

\* In hands-free, whatever the person, the browser and the network do in whatever order and
\* for any limits: the page and the controller agree on the one request, nothing restarts by
\* itself when off or paused, the microphone is closed while the assistant speaks, a listening
\* turn is watched, and only the session the controller holds open can start a turn
\* (HandsFreeTurns, useVoice).
THEOREM TurnsAreTaken == MCSpec => []VoiceKeepsTurns
<1>1. MCInit => VoiceInv
  BY InitVoice DEF MCInit
<1>2. VoiceInv /\ [MCNext]_MCvars => VoiceInv'
  <2>1. [MCNext]_MCvars => [Voice!Next]_ui
    BY DEF MCNext, MCvars, OnlyWorker, OnlySessions, OnlyBrowser, OnlyRoles, OnlyVoice
  <2> QED
    BY <2>1, NextVoice
<1> QED
  BY <1>1, <1>2, SoundKeepsTurns, PTL DEF MCSpec
=============================================================================

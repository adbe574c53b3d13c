---------------------------- MODULE UserSessions ----------------------------
(***************************************************************************)
(* One person's account and sessions: signing in, the rotation of refresh  *)
(* tokens, signing out, and what ends every session at once (a password    *)
(* changed or reset, an administrator's decision, a refresh token seen     *)
(* twice).  Tokens are self-validating; the server keeps only the spent    *)
(* refresh tokens and the account's cutoff, tokens_valid_from.             *)
(*                                                                         *)
(* A request reads in one step and commits in a later one, and holds the   *)
(* account's row lock from its first write of that row.  Time is counted   *)
(* in half seconds: the cutoff is exact, a token's iat a whole second.     *)
(***************************************************************************)
EXTENDS Naturals, Sequences

CONSTANTS Requests,  \* API requests in progress
          Links,     \* password reset links
          MaxTokens, \* bound: token pairs ever issued
          MaxTime,   \* bound: half seconds
          MaxPasswords \* bound: passwords the account has had

VARIABLES now,
          cutoff,   \* users.tokens_valid_from
          minted,   \* token pairs handed out, in order
          revoked,  \* revoked_tokens, by token
          account,  \* the other columns of the user's row
          link,     \* per reset link: its row
          resets,   \* per reset link: how many passwords it has set
          request   \* what each open request read and will write

vars == <<now, cutoff, minted, revoked, account, link, resets, request>>

Second(t) == t \div 2
Idle == [op |-> "idle", at |-> "idle", tok |-> 0, pw |-> 0, iat |-> 0, cut |-> 0,
         known |-> 0, locks |-> FALSE, ins |-> FALSE]
Ops == {"idle", "login", "refresh", "reuse", "logout", "logoutAll", "reset", "change",
        "deactivate", "temporary"}
Bulk == {"reset", "change", "deactivate", "temporary"}
RequestRows ==
  [op : Ops, at : {"idle", "read", "blocked", "ready"}, tok : Nat \cup Links, pw : Nat,
   iat : Nat, cut : Nat, known : Nat, locks : BOOLEAN, ins : BOOLEAN]

Tokens == [iat : Nat, pw : Nat, from : Nat]   \* the password and the token it was had for
Accounts == [status : {"pending", "approved", "rejected"}, active : BOOLEAN, byPlatform : BOOLEAN,
             password : Nat, temporary : {"no", "valid", "expired"}, verified : BOOLEAN]
LinkStates == {"none", "open", "used", "expired"}

TypeOK ==
  /\ now \in Nat /\ cutoff \in Nat
  /\ minted \in Seq(Tokens)
  /\ revoked \subseteq DOMAIN minted
  /\ account \in Accounts
  /\ link \in [Links -> LinkStates]
  /\ resets \in [Links -> Nat]
  /\ request \in [Requests -> RequestRows]

\* A registered account: pending unless REGISTRATION_AUTO_APPROVE.
Init ==
  /\ now = 3 /\ cutoff = 0    \* the last half of a second
  /\ minted = <<>> /\ revoked = {}
  /\ account \in [status : {"pending", "approved"}, active : {TRUE}, byPlatform : {FALSE},
                  password : {1}, temporary : {"no"}, verified : {FALSE}]
  /\ link = [l \in Links |-> "none"]
  /\ resets = [l \in Links |-> 0]
  /\ request = [q \in Requests |-> Idle]

\* _check_can_authenticate.
CanAuthenticate == account.status = "approved" /\ account.active

\* issued_before_cutoff, negated: a token of the cutoff's own second is revoked.
AfterCutoff_Strict(t) == Second(minted[t].iat) >= Second(cutoff)
AfterCutoff(t) == Second(minted[t].iat) > Second(cutoff)

\* A token get_current_user accepts, but for the confinement of a temporary
\* password to the password change.
Usable(t) == AfterCutoff(t) /\ CanAuthenticate

Open(q, r) ==
  /\ request[q] = Idle
  /\ request' = [request EXCEPT ![q] = r]
  /\ UNCHANGED <<now, cutoff, minted, revoked, account, link, resets>>

\* SignInService writes the account's row when a sign-in or a refresh succeeds, so
\* it waits for whoever has that row locked.
LockFree(q) == \A p \in Requests \ {q} : ~request[p].locks

-----------------------------------------------------------------------------
(* Requests that are let in.  A refused one changes nothing.               *)

\* login and google_login: the tokens are signed at once, and delivered when
\* the sign-in has been recorded on the account's row.
Login(q) ==
  /\ Len(minted) < MaxTokens /\ CanAuthenticate
  /\ account.temporary # "expired" \/ account.verified   \* password, or Google
  /\ Open(q, [Idle EXCEPT !.op = "login", !.at = "ready", !.pw = account.password, !.iat = now])

\* refresh, up to its two checks: a token already spent ends every session, one
\* from before the cutoff is refused.
Refresh(q, t) ==
  /\ Len(minted) < MaxTokens /\ CanAuthenticate /\ account.temporary # "expired"
  /\ \/ /\ t \in revoked
        /\ Open(q, [Idle EXCEPT !.op = "reuse", !.at = "ready", !.cut = now, !.known = Len(minted)])
     \/ /\ t \notin revoked /\ AfterCutoff(t)
        /\ Open(q, [Idle EXCEPT !.op = "refresh", !.at = "read", !.tok = t, !.pw = minted[t].pw])

\* logout presents the refresh token of the session it ends.
Logout(q, t) ==
  /\ Usable(t)
  /\ Open(q, [Idle EXCEPT !.op = "logout", !.at = "read", !.tok = t])

LogoutAll(q) ==
  /\ \E t \in DOMAIN minted : Usable(t)
  /\ Open(q, [Idle EXCEPT !.op = "logoutAll", !.at = "ready", !.cut = now, !.known = Len(minted)])

\* change_password: a live session and the current password.
Change(q) ==
  /\ Len(minted) < MaxTokens /\ account.password < MaxPasswords
  /\ \E t \in DOMAIN minted : Usable(t)
  /\ Open(q, [Idle EXCEPT !.op = "change", !.at = "read", !.known = Len(minted)])

\* reset_password: an open link of an active account.
Reset(q, l) ==
  /\ link[l] = "open" /\ account.active /\ account.password < MaxPasswords
  /\ Open(q, [Idle EXCEPT !.op = "reset", !.at = "read", !.tok = l, !.known = Len(minted)])

\* An administrator of the organization (or of the platform) deactivates the
\* account, a Super Admin sets a temporary password.
Deactivate(q) ==
  /\ account.active
  /\ Open(q, [Idle EXCEPT !.op = "deactivate", !.at = "read", !.known = Len(minted)])

SetTemporary(q) ==
  /\ CanAuthenticate /\ account.password < MaxPasswords
  /\ Open(q, [Idle EXCEPT !.op = "temporary", !.at = "read", !.known = Len(minted)])

-----------------------------------------------------------------------------
(* The rest of a request.                                                  *)

\* The first write of the account's row takes its lock; the cutoff is taken
\* after it.
Write(q) ==
  /\ request[q].op \in Bulk /\ request[q].at = "read" /\ LockFree(q)
  /\ request' = [request EXCEPT ![q].at = "ready", ![q].locks = TRUE, ![q].cut = now]
  /\ UNCHANGED <<now, cutoff, minted, revoked, account, link, resets>>

\* TokenRevocationService.revoke: a token found in the table is left alone, any
\* other is inserted; the unique index makes a second insert wait for the first.
Spend(q) ==
  LET r == request[q]
      Inserted(p) == p # q /\ request[p].ins /\ request[p].tok = r.tok
  IN
  /\ r.op \in {"refresh", "logout"} /\ r.at \in {"read", "blocked"}
  /\ IF \E p \in Requests : Inserted(p)
     THEN r.at = "read" /\ request' = [request EXCEPT ![q].at = "blocked"]
     ELSE IF r.at = "blocked" /\ r.tok \in revoked
          THEN request' = [request EXCEPT ![q] = Idle]     \* IntegrityError
          ELSE request' = [request EXCEPT ![q].at = "ready", ![q].iat = now,
                                          ![q].ins = r.tok \notin revoked]
  /\ UNCHANGED <<now, cutoff, minted, revoked, account, link, resets>>

\* The row's new columns, by operation.
After(r) ==
  [account EXCEPT
     !.password = IF r.op \in {"reset", "change", "temporary"} THEN @ + 1 ELSE @,
     !.verified = @ \/ r.op = "reset",
     !.temporary = IF r.op = "temporary" THEN "valid" ELSE IF r.op = "change" THEN "no" ELSE @,
     !.active = @ /\ r.op # "deactivate"]

\* The refresh token a sign-in, a refresh or a password change hands out.
Issue(iat, pw, from) == Append(minted, [iat |-> iat, pw |-> pw, from |-> from])

\* The commit.  refresh and login touch the account's row (last_seen_at), so
\* they wait for its lock; change_password signs its tokens once the cutoff's
\* second is over.
Finish_NoRevocation(q) ==
  LET r == request[q] IN
  /\ r.at = "ready" /\ LockFree(q)
  /\ request' = [request EXCEPT ![q] = Idle]
  /\ minted' = IF r.op = "login" THEN Issue(r.iat, r.pw, 0) ELSE minted
  /\ account' = After(r)
  /\ UNCHANGED <<now, cutoff, revoked, link, resets>>

Finish(q) ==
  LET r == request[q] IN
  /\ r.at = "ready" /\ LockFree(q)
  /\ r.op \in {"login", "refresh", "change"} => Len(minted) < MaxTokens
  /\ r.op = "change" => Second(now) > Second(r.cut)
  /\ request' = [request EXCEPT ![q] = Idle]
  /\ minted' = IF r.op \in {"login", "refresh"}
               THEN Issue(r.iat, r.pw, IF r.op = "refresh" THEN r.tok ELSE 0)
               ELSE IF r.op = "change" THEN Issue(now, account.password + 1, 0) ELSE minted
  /\ revoked' = IF r.ins THEN revoked \cup {r.tok} ELSE revoked
  /\ cutoff' = IF r.op \in Bulk \cup {"reuse", "logoutAll"} THEN r.cut ELSE cutoff
  /\ account' = After(r)
  /\ link' = IF r.op = "reset" THEN [link EXCEPT ![r.tok] = "used"] ELSE link
  /\ resets' = IF r.op = "reset" THEN [resets EXCEPT ![r.tok] = @ + 1] ELSE resets
  /\ UNCHANGED now

-----------------------------------------------------------------------------
(* Single statements, and time.                                            *)

\* request_password_reset, for an active account.
RequestReset(l) ==
  /\ link[l] = "none" /\ account.active
  /\ link' = [link EXCEPT ![l] = "open"]
  /\ UNCHANGED <<now, cutoff, minted, revoked, account, resets, request>>

\* approve_user and reject_user: only a pending request is decided.
Decide ==
  /\ account.status = "pending"
  /\ \E s \in {"approved", "rejected"} : account' = [account EXCEPT !.status = s]
  /\ UNCHANGED <<now, cutoff, minted, revoked, link, resets, request>>

\* The platform's deactivation is remembered (in the audit log) and only the
\* platform ends it.
PlatformDeactivates ==
  /\ account.active /\ \A q \in Requests : ~request[q].locks
  /\ account' = [account EXCEPT !.active = FALSE, !.byPlatform = TRUE]
  /\ cutoff' = now
  /\ UNCHANGED <<now, minted, revoked, link, resets, request>>

Activate ==
  /\ ~account.active /\ \A q \in Requests : ~request[q].locks
  /\ \/ ~account.byPlatform /\ account' = [account EXCEPT !.active = TRUE]
     \/ account' = [account EXCEPT !.active = TRUE, !.byPlatform = FALSE]
  /\ UNCHANGED <<now, cutoff, minted, revoked, link, resets, request>>

Tick ==
  /\ now < MaxTime /\ now' = now + 1
  /\ \/ UNCHANGED <<account, link>>
     \/ \E l \in Links : link[l] = "open" /\ link' = [link EXCEPT ![l] = "expired"] /\ UNCHANGED account
     \/ account.temporary = "valid" /\ account' = [account EXCEPT !.temporary = "expired"] /\ UNCHANGED link
  /\ UNCHANGED <<cutoff, minted, revoked, resets, request>>

\* The endpoints of /auth.
AuthRequest(q) ==
  \/ Login(q) \/ LogoutAll(q) \/ Change(q)
  \/ \E t \in DOMAIN minted : Refresh(q, t) \/ Logout(q, t)
  \/ \E l \in Links : Reset(q, l)

\* The endpoints of /users and /platform that end sessions.
AdminRequest(q) == Deactivate(q) \/ SetTemporary(q)

Next ==
  \/ \E q \in Requests : AuthRequest(q) \/ AdminRequest(q) \/ Write(q) \/ Spend(q) \/ Finish(q)
  \/ \E l \in Links : RequestReset(l)
  \/ Decide \/ PlatformDeactivates \/ Activate \/ Tick

Spec == Init /\ [][Next]_vars

\* No two requests overlap.
Serialised == \A p, q \in Requests : request[p] # Idle /\ request[q] # Idle => p = q

SerialSpec == Init /\ [][Next /\ Serialised']_vars

-----------------------------------------------------------------------------
Finishes(q) == request[q] # Idle /\ request'[q] = Idle /\ request[q].at = "ready"

\* However requests overlap, whatever ends every session (logout everywhere, a
\* new password, deactivation, a replayed refresh token) leaves no token alive
\* that was handed out before it began, one of the cutoff's own second included
\* (issued_before_cutoff: "Revoked, not spared").
EndsEarlierSessions ==
  \A q \in Requests : Finishes(q) /\ request[q].op \in Bulk \cup {"reuse", "logoutAll"} =>
     \A t \in 1..request[q].known : ~Usable(t)'

\* However requests overlap, the session change_password returns is alive when
\* it is returned ("instead of a sign-in that bounces straight back").
ChangeKeepsItsCaller ==
  \A q \in Requests : Finishes(q) /\ request[q].op = "change" =>
     Len(minted') > Len(minted) /\ AfterCutoff(Len(minted))'

\* One request at a time: no session outlives the password it was opened with
\* (reset_password: "whoever knew the old password may still be holding live
\* tokens"; the same for change_password and a temporary password).
OpenedWithThisPassword ==
  \A t \in DOMAIN minted : Usable(t) => minted[t].pw = account.password

\* One request at a time: a refresh token is exchanged once, and a reset link
\* sets one password (refresh: "spend the presented token"; mark_used).
SpentOnce ==
  /\ \A t, u \in DOMAIN minted : minted[t].from = minted[u].from /\ minted[t].from # 0 => t = u
  /\ \A l \in Links : resets[l] <= 1

\* One request at a time: an account the platform deactivated stays inactive
\* until the platform reactivates it (set_active).
PlatformDecides == account.byPlatform => ~account.active

\* One request at a time: all three.
UsedOnceAlone == SpentOnce /\ OpenedWithThisPassword /\ PlatformDecides
=============================================================================

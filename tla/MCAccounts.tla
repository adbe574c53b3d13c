----------------------------- MODULE MCAccounts -----------------------------
(***************************************************************************)
(* Who is who and who may do what: the identity of a report worker, one    *)
(* person's sessions at the server and in the browser, the page they talk  *)
(* to, and the roles of an organization.  They do not depend on one        *)
(* another: `part` is the one that moves in a behaviour, and where its     *)
(* requests are transactions `overlap` says whether they overlap or each   *)
(* ends before the next.                                                   *)
(***************************************************************************)
EXTENDS WorkerIdentity, Sequences, TLC

CONSTANTS Links, MaxTokens, MaxTime, MaxPasswords,  \* UserSessions
          Tabs, Calls, MaxPairs,                    \* BrowserSession
          SilentLimit, ErrorRetries, MaxQueued, MaxTaps  \* VoiceTurns

\* The bounds are bounds, and the limits of hands-free are limits.
ASSUME CountsAssumption ==
  /\ MaxPairs \in Nat \ {0}
  /\ SilentLimit \in Nat \ {0} /\ ErrorRetries \in Nat /\ MaxQueued \in Nat \ {0} /\ MaxTaps \in Nat

VARIABLES part, overlap,
          now, cutoff, handed, revoked, account, link, resets, request,
          ref, stored, call, flight, pairs, rotated, ended, expired, shown,
          owner, grants, held, ui

\* Roles: a platform administrator and an analyst in one organization, an
\* administrator in another, and one role either may make.
People == {"root", "ana", "bob"}
OrgOf == [u \in People |-> IF u = "bob" THEN "B" ELSE "A"]
SystemGrants ==
  [r \in {"Super Admin", "Admin", "Analyst"} |->
     IF r = "Analyst" THEN {"ai.chat"} ELSE {"users.write", "roles.write", "ai.chat"}]
Seeded == [u \in People |-> {CASE u = "root" -> "Super Admin" [] u = "ana" -> "Analyst" [] u = "bob" -> "Admin"}]

Account == INSTANCE UserSessions WITH Requests <- Sessions, minted <- handed
Browser == INSTANCE BrowserSession WITH MaxTokens <- MaxPairs, minted <- pairs, spent <- rotated
Voice == INSTANCE VoiceTurns
Authority == INSTANCE Roles WITH
  Users <- People, Organizations <- {"A", "B"}, SystemRoles <- DOMAIN SystemGrants,
  SuperAdmin <- "Super Admin", CustomRoles <- {"custom"},
  Permissions <- {"users.write", "roles.write", "ai.chat"}

sessionVars == <<now, cutoff, handed, revoked, account, link, resets, request>>
browserVars == <<ref, stored, call, flight, pairs, rotated, ended, expired, shown>>
rolesVars == <<owner, grants, held>>
MCvars == <<vars, part, overlap, sessionVars, browserVars, rolesVars, ui>>

\* A component that does not move has one initial state.
MCInit ==
  /\ part \in {"worker", "sessions", "browser", "roles", "voice"}
  /\ overlap \in IF part \in {"worker", "sessions"} THEN BOOLEAN ELSE {TRUE}
  /\ Init /\ Account!Init /\ Browser!Init /\ Authority!Init /\ Voice!Init
  /\ part # "sessions" \/ overlap => account.status = "approved"

OnlyWorker == part = "worker" /\ UNCHANGED <<part, overlap, sessionVars, browserVars, rolesVars, ui>>
OnlySessions == part = "sessions" /\ UNCHANGED <<part, overlap, vars, browserVars, rolesVars, ui>>
OnlyBrowser == part = "browser" /\ UNCHANGED <<part, overlap, vars, sessionVars, rolesVars, ui>>
OnlyRoles == part = "roles" /\ UNCHANGED <<part, overlap, vars, sessionVars, browserVars, ui>>
OnlyVoice == part = "voice" /\ UNCHANGED <<part, overlap, vars, sessionVars, browserVars, rolesVars>>

\* Overlapping requests of one person are followed up to two token pairs.
MCNext ==
  \/ OnlyWorker /\ Next /\ (overlap \/ Serialised')
  \/ OnlySessions /\ Account!Next
     /\ IF overlap THEN Len(handed') <= 2 ELSE Account!Serialised'
  \/ OnlyBrowser /\ Browser!Next
  \/ OnlyRoles /\ Authority!Next
  \/ OnlyVoice /\ Voice!Next

MCSpec == MCInit /\ [][MCNext]_MCvars

Interchangeable == Permutations(Sessions) \cup Permutations(Calls) \cup Permutations(Tabs)

-----------------------------------------------------------------------------
\* One request at a time, what is used once is used once: an enrollment token buys at
\* most one credential, a refresh token is exchanged once, a reset link sets one
\* password; and no session outlives the password it was opened with, and only the
\* platform ends its own deactivation (enroll, refresh, mark_used, reset_password,
\* set_active).
UsedOnceAlone ==
  /\ Account!TypeOK
  /\ ~overlap => SingleUse /\ Account!UsedOnceAlone

\* One at a time, a worker's credential that was rotated or re-issued stays revoked,
\* with every access token it was exchanged for (rotate_credential: "invalidate
\* everything in flight"), and a disabled worker stays disabled until an administrator
\* enables it.
RevokedForGoodAlone == [][~overlap => RevokedForGood]_vars

\* However requests overlap, what ends every session leaves no token alive that was
\* handed out before it began (revoke_all_for_user, issued_before_cutoff), and the
\* session change_password returns is alive.
EndsEarlierSessions ==
  [][part = "sessions" => Account!EndsEarlierSessions /\ Account!ChangeKeepsItsCaller]_sessionVars

\* A tab presents a refresh token at most once between two loads of the page
\* (refreshAccessToken's shared promise).
PresentedOnce == Browser!TypeOK /\ Browser!PresentedOnce

\* In hands-free, whatever the person, the browser and the network do in whatever order:
\* the page and the controller agree on the one request, nothing restarts by itself when
\* off or paused, the microphone is closed while the assistant speaks, a listening turn is
\* watched, and only the session the controller holds open can start a turn
\* (HandsFreeTurns, useVoice).
VoiceKeepsTurns ==
  part = "voice" => /\ Voice!TypeOK /\ Voice!OneRequest /\ Voice!QuietWhenPaused
                    /\ Voice!MicClosedWhileSpeaking /\ Voice!ListeningIsWatched
                    /\ Voice!ListensToItsOwn

\* Only a Super Admin's step makes a Super Admin or ends one (assign_role), no user
\* comes to hold another organization's role (get_role, delete_role), and nobody
\* rewrites what a system role means to another organization.
NobodyGainsRank ==
  [][part = "roles" =>
       /\ Authority!SuperAdminsChooseSuperAdmins
       /\ (Authority!TypeOK /\ Authority!RolesStayInTheirOrganization /\ Authority!PowerIsLocal)']_rolesVars

\* A further role never takes away what a user could already do ("Give a newly
\* self-registered account a usable starting role"; approve_user adds another).
RolesAddUp == [][part = "roles" => Authority!RolesAddUp]_rolesVars
=============================================================================

--------------------------- MODULE BrowserSession ---------------------------
(***************************************************************************)
(* The web application's side of a session: each tab keeps the token pair  *)
(* in memory (tokensRef) and a copy in localStorage, which it reads only   *)
(* when it loads.  A call answered 401 is retried after one refresh, which *)
(* the tab's concurrent calls share (refreshPromise); a failed refresh     *)
(* signs the tab out.  The server is reduced to what a token pair is worth *)
(* there (see UserSessions), and answers one request at a time.            *)
(***************************************************************************)
EXTENDS Naturals

CONSTANTS Tabs, Calls,  \* browser tabs, concurrent API calls of one tab
          MaxTokens     \* bound: token pairs ever issued

VARIABLES ref,      \* per tab: tokensRef, 0 when signed out
          stored,   \* localStorage, 0 when empty
          call,     \* per tab and call: where it is, and the token it was sent with
          flight,   \* per tab: the refresh in progress (refreshPromise)
          minted, spent, ended, \* server: pairs issued, spent, ended in bulk
          expired,  \* server: pairs whose access token has expired
          shown     \* per tab and pair: how often its refresh token was presented

vars == <<ref, stored, call, flight, minted, spent, ended, expired, shown>>
server == <<minted, spent, ended, expired>>

Ids == 0..MaxTokens
NoRefresh == [at |-> "none", tok |-> 0, new |-> 0]

TypeOK ==
  /\ ref \in [Tabs -> Ids] /\ stored \in Ids /\ minted \in Ids
  /\ call \in [Tabs -> [Calls -> [at : {"idle", "sent", "waiting", "retried"}, tok : Ids]]]
  /\ flight \in [Tabs -> [at : {"none", "sent", "answered"}, tok : Ids, new : Ids]]
  /\ spent \subseteq Ids /\ ended \subseteq Ids /\ expired \subseteq Ids
  /\ shown \in [Tabs -> [Ids -> Nat]]

\* One session, signed in some time ago, that every tab has loaded.
Init ==
  /\ minted = 1 /\ stored = 1 /\ ref = [t \in Tabs |-> 1]
  /\ call = [t \in Tabs |-> [c \in Calls |-> [at |-> "idle", tok |-> 0]]]
  /\ flight = [t \in Tabs |-> NoRefresh]
  /\ spent = {} /\ ended = {} /\ expired = {}
  /\ shown = [t \in Tabs |-> [i \in Ids |-> 0]]

\* applyTokens.
SetTokens(t, id) == ref' = [ref EXCEPT ![t] = id] /\ stored' = id

-----------------------------------------------------------------------------
\* login: also the only way back in for a tab that was signed out.
SignIn(t) ==
  /\ ref[t] = 0 /\ minted < MaxTokens
  /\ minted' = minted + 1
  /\ SetTokens(t, minted + 1)
  /\ UNCHANGED <<call, flight, spent, ended, expired, shown>>

\* The provider's first effect: a tab that (re)loads takes what is stored, and
\* whatever it was doing is gone.
Load(t) ==
  /\ ref' = [ref EXCEPT ![t] = stored]
  /\ call' = [call EXCEPT ![t] = [c \in Calls |-> [at |-> "idle", tok |-> 0]]]
  /\ flight' = [flight EXCEPT ![t] = NoRefresh]
  /\ shown' = [shown EXCEPT ![t] = [i \in Ids |-> 0]]
  /\ UNCHANGED <<stored, server>>

\* logout: revokeSession is sent and not waited for, the browser forgets.
Logout(t) ==
  /\ ref[t] # 0
  /\ \/ ref[t] \notin expired \cup ended /\ spent' = spent \cup {ref[t]}
     \/ UNCHANGED spent     \* refused, or never arrived
  /\ SetTokens(t, 0)
  /\ UNCHANGED <<call, flight, minted, ended, expired, shown>>

Expire(i) ==
  /\ i \in 1..minted /\ i \notin expired
  /\ expired' = expired \cup {i}
  /\ UNCHANGED <<ref, stored, call, flight, minted, spent, ended, shown>>

\* apiRequest, uploadRequest and streamRequest send with the token of the moment.
Send(t, c) ==
  /\ ref[t] # 0 /\ call[t][c].at = "idle"
  /\ call' = [call EXCEPT ![t][c] = [at |-> "sent", tok |-> ref[t]]]
  /\ UNCHANGED <<ref, stored, flight, server, shown>>

Accepted(i) == i # 0 /\ i \notin expired \cup ended

\* A refresh that failed, or could not be tried: the tokens are dropped and the
\* page goes to /login, which ends whatever the tab was doing.
SignedOut(t) ==
  /\ SetTokens(t, 0)
  /\ call' = [call EXCEPT ![t] = [c \in Calls |-> [at |-> "idle", tok |-> 0]]]
  /\ flight' = [flight EXCEPT ![t] = NoRefresh]

\* refreshAccessToken: a call that got a 401 waits for the tab's refresh, and
\* begins one if there is none.
JoinRefresh_EachItsOwn(t) ==
  /\ flight' = [flight EXCEPT ![t] = [at |-> "sent", tok |-> ref[t], new |-> 0]]
  /\ shown' = [shown EXCEPT ![t][ref[t]] = @ + 1]

JoinRefresh(t) ==
  IF flight[t].at # "none" THEN UNCHANGED <<flight, shown>>
  ELSE /\ flight' = [flight EXCEPT ![t] = [at |-> "sent", tok |-> ref[t], new |-> 0]]
       /\ shown' = [shown EXCEPT ![t][ref[t]] = @ + 1]

\* An answer other than 401 ends the call, and so does the answer to a retry.
Answered(t, c) ==
  /\ \/ call[t][c].at = "sent" /\ Accepted(call[t][c].tok)
     \/ call[t][c].at = "retried"
  /\ call' = [call EXCEPT ![t][c] = [at |-> "idle", tok |-> 0]]
  /\ UNCHANGED <<ref, stored, flight, server, shown>>

Unauthorized(t, c) ==
  /\ call[t][c].at = "sent" /\ ~Accepted(call[t][c].tok)
  /\ \/ ref[t] = 0 /\ SignedOut(t) /\ UNCHANGED shown
     \/ /\ ref[t] # 0 /\ JoinRefresh(t)
        /\ call' = [call EXCEPT ![t][c].at = "waiting"]
        /\ UNCHANGED <<ref, stored>>
  /\ UNCHANGED server

\* POST /auth/refresh: a spent token ends every session, a live one is rotated;
\* the request may also never arrive.
Rotate(t) ==
  LET i == flight[t].tok IN
  /\ flight[t].at = "sent"
  /\ \/ /\ i \in spent
        /\ ended' = 1..minted
        /\ flight' = [flight EXCEPT ![t].at = "answered"]
        /\ UNCHANGED <<minted, spent>>
     \/ /\ i \notin spent /\ i \notin ended /\ minted < MaxTokens
        /\ minted' = minted + 1 /\ spent' = spent \cup {i}
        /\ \E new \in {0, minted + 1} :     \* 0: the reply was lost
             flight' = [flight EXCEPT ![t].at = "answered", ![t].new = new]
        /\ UNCHANGED ended
     \/ /\ flight' = [flight EXCEPT ![t].at = "answered"]
        /\ UNCHANGED <<minted, spent, ended>>
  /\ UNCHANGED <<ref, stored, call, expired, shown>>

\* The promise settles: the new tokens are kept and every waiting call is sent
\* again, or the tab is signed out.
Settle(t) ==
  LET new == flight[t].new IN
  /\ flight[t].at = "answered"
  /\ \/ new = 0 /\ SignedOut(t)
     \/ /\ new # 0 /\ SetTokens(t, new)
        /\ flight' = [flight EXCEPT ![t] = NoRefresh]
        /\ call' = [call EXCEPT ![t] =
             [c \in Calls |-> IF @[c].at = "waiting" THEN [at |-> "retried", tok |-> new] ELSE @[c]]]
  /\ UNCHANGED <<server, shown>>

Next ==
  \/ \E t \in Tabs :
       \/ SignIn(t) \/ Load(t) \/ Logout(t) \/ Rotate(t) \/ Settle(t)
       \/ \E c \in Calls : Send(t, c) \/ Answered(t, c) \/ Unauthorized(t, c)
  \/ \E i \in 1..MaxTokens : Expire(i)

Spec == Init /\ [][Next]_vars

-----------------------------------------------------------------------------
\* However a tab's calls overlap, it presents a refresh token at most once
\* between two loads of the page (refreshPromise: "Exactly one refresh attempt
\* per 401, shared across concurrent callers"): a burst of 401s never looks like
\* a replay to the server.
PresentedOnce == \A t \in Tabs : \A i \in 1..MaxTokens : shown[t][i] <= 1
=============================================================================

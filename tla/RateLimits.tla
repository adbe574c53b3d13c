----------------------------- MODULE RateLimits -----------------------------
(***************************************************************************)
(* Request rate limits: sliding windows per user, per organization and per *)
(* client address, in a store all instances share or, while it does not    *)
(* answer, in the memory of the instance that serves the request.          *)
(*                                                                         *)
(* A window is kept as the number of hits per age in ticks; hits older     *)
(* than the window count for nothing and are forgotten as time passes.     *)
(***************************************************************************)
EXTENDS Naturals, FiniteSetsExt, Sequences

CONSTANTS Members,     \* users of one organization
          Organization,
          Address,     \* the address of a client without a token
          Instances,   \* processes of the backend
          Store,       \* the shared store
          UserLimit, OrganizationLimit, AddressLimit,
          Window,      \* RATE_LIMIT_WINDOW_SECONDS, in ticks
          AuthWindow,  \* AUTH_RATE_LIMIT_WINDOW_SECONDS, the longer one
          Asking       \* requests being checked at a time

Subjects == Members \cup {Organization, Address}
Stores == Instances \cup {Store}

Length(k) == IF k = Address THEN AuthWindow ELSE Window
Limit(k) ==
  CASE k = Organization -> OrganizationLimit
    [] k = Address -> AddressLimit
    [] OTHER -> UserLimit

VARIABLES windows,   \* hits per store, subject and age
          passed,    \* history: requests let through, per subject and age
          asking     \* per request: idle, or counted for its organization

limitVars == <<windows, passed, asking>>

Idle == <<>>
Ages == 0 .. AuthWindow - 1
NoHits == [a \in Ages |-> 0]
Total(w) == SumFunction(w)
Hit(w) == [w EXCEPT ![0] = @ + 1]

TypeOK ==
  /\ windows \in [Stores -> [Subjects -> [Ages -> Nat]]]
  /\ passed \in [Subjects -> [Ages -> Nat]]
  /\ \A r \in Asking : asking[r] = Idle \/ asking[r] \in Members \X Instances

Init ==
  /\ windows = [s \in Stores |-> [k \in Subjects |-> NoHits]]
  /\ passed = [k \in Subjects |-> NoHits]
  /\ asking = [r \in Asking |-> Idle]

\* external: time passes.
Older(k, w) == [a \in Ages |-> IF a = 0 \/ a >= Length(k) THEN 0 ELSE w[a - 1]]
Tick ==
  /\ windows' = [s \in Stores |-> [k \in Subjects |-> Older(k, windows[s][k])]]
  /\ passed' = [k \in Subjects |-> Older(k, passed[k])]
  /\ UNCHANGED asking

-----------------------------------------------------------------------------
Full(w, k) == Total(w[k]) >= Limit(k)

\* A hit of k in store s, unless the window is full (_SLIDING_WINDOW, _check_memory).
Record(w, s, k) == IF Full(w[s], k) THEN w ELSE [w EXCEPT ![s][k] = Hit(@)]

(***************************************************************************)
(* _check on instance i, as the pairs of the windows it leaves and whether *)
(* the hit found room: in the shared store if that answers, else in the    *)
(* instance's memory, also when only the answer was lost.                  *)
(***************************************************************************)
check(w, i, k) ==
  { <<Record(w, Store, k), ~Full(w[Store], k)>>,
    <<Record(w, i, k), ~Full(w[i], k)>>,
    <<Record(Record(w, Store, k), i, k), ~Full(w[i], k)>> }

(***************************************************************************)
(* enforce drops windows nobody uses any more from the instance's memory:  *)
(* those whose last hit is older than the longer of the two windows.       *)
(***************************************************************************)
Newest(w) == Min({a \in Ages : w[a] > 0})
Longest_General == Window
Longest == IF Window > AuthWindow THEN Window ELSE AuthWindow
Swept(w) == [k \in Subjects |-> IF Total(w[k]) > 0 /\ Newest(w[k]) >= Longest THEN NoHits ELSE w[k]]

\* enforce, its first half: the hit for the organization.  It stays on record if
\* the user is refused next.
enforce(r, u, i) ==
  /\ asking[r] = Idle
  /\ \E w \in {windows, [windows EXCEPT ![i] = Swept(@)]} :
       \E c \in check(w, i, Organization) :
         /\ windows' = c[1]
         /\ asking' = IF c[2] THEN [asking EXCEPT ![r] = <<u, i>>] ELSE asking
  /\ UNCHANGED passed

\* enforce, its second half: the hit for the user.
EnforceUser(r) ==
  /\ asking[r] # Idle
  /\ LET u == asking[r][1] IN
     \E c \in check(windows, asking[r][2], u) :
       /\ windows' = c[1]
       /\ passed' = IF c[2] THEN [passed EXCEPT ![u] = Hit(@), ![Organization] = Hit(@)]
                    ELSE passed
  /\ asking' = [asking EXCEPT ![r] = Idle]

\* enforce_ip: login, password reset, credentials of workers and gateways.
enforce_ip(i) ==
  /\ \E c \in check(windows, i, Address) :
       /\ windows' = c[1]
       /\ passed' = IF c[2] THEN [passed EXCEPT ![Address] = Hit(@)] ELSE passed
  /\ UNCHANGED asking

Next ==
  \/ Tick
  \/ \E r \in Asking, u \in Members, i \in Instances : enforce(r, u, i)
  \/ \E r \in Asking : EnforceUser(r)
  \/ \E i \in Instances : enforce_ip(i)

Spec == Init /\ [][Next]_limitVars

-----------------------------------------------------------------------------
\* Stores that counted a subject within its window: one as long as the shared store
\* answers, each instance that served it in an outage beside.
Counting(k) == {s \in Stores : Total(windows[s][k]) > 0}

\* No user gets more requests through than their limit in any window, once per store
\* that had to count them, however requests overlap and spread over instances
\* (_check_shared, _check_memory).
UsersAreLimited == \A u \in Members : Total(passed[u]) <= UserLimit * Cardinality(Counting(u))

\* Nor does an organization; requests between their two checks may have aged in it.
OrganizationIsLimited ==
  Total(passed[Organization])
    <= OrganizationLimit * Cardinality(Counting(Organization)) + Cardinality(Asking)

\* An address gets no more attempts than its limit, although memory is swept by
\* requests with a shorter window (enforce_ip, _sweep).
AttemptsAreLimited == Total(passed[Address]) <= AddressLimit * Cardinality(Counting(Address))

-----------------------------------------------------------------------------
(***************************************************************************)
(* The client's address behind proxies: each hop appends what it saw, so   *)
(* the entry as many from the right as there are trusted proxies.          *)
(***************************************************************************)
client_ip_of(hops, trusted) ==
  hops[Len(hops) + 1 - (IF trusted < Len(hops) THEN trusted ELSE Len(hops))]

\* What a client writes into the header never decides the address it is limited by,
\* when the request passed all trusted proxies (client_ip_of).
ClientCannotChoose ==
  \A trusted \in 1 .. 2, n \in 0 .. 2 :
    \A forged \in [1 .. n -> {"a", "b"}] :
      LET seen == [i \in 1 .. trusted |-> IF i = 1 THEN "client" ELSE "proxy"]
      IN  client_ip_of(forged \o seen, trusted) = "client"
=============================================================================

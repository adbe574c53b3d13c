----------------------------- MODULE DailyPass -----------------------------
(***************************************************************************)
(* The daily passes over the TM1 connections: dependency maps are          *)
(* re-extracted and health is scanned again, stalest first, until the      *)
(* pass has used the time in which it may start another one.               *)
(***************************************************************************)
EXTENDS Naturals, FiniteSets, SequencesExt

CONSTANTS Connections,
          Budget    \* attempts that fit into the start budget

VARIABLES line,     \* the connections with a map, the stalest first
          recent,   \* those whose map is younger than the minimum age
          active,   \* connections not deactivated
          answering, \* connections whose server answers
          due,      \* what the pass in progress has left of the list it read
          started   \* attempts of the pass in progress

passVars == <<line, recent, active, answering, due, started>>

TypeOK ==
  /\ \E mapped \in SUBSET Connections : line \in SetToSeqs(mapped)
  /\ recent \subseteq ToSet(line)
  /\ active \in SUBSET Connections /\ answering \in SUBSET Connections
  /\ ToSet(due) \subseteq Connections
  /\ started \in 0 .. Budget

Init ==
  /\ line = <<>>
  /\ recent = {}
  /\ active = Connections /\ answering = Connections
  /\ due = <<>>
  /\ started = 0

\* A successful extraction: the connection is now the freshest.
Refreshed(c) ==
  /\ line' = Append(RemoveFirst(line, c), c)
  /\ recent' = recent \cup {c}

Reachable(c) == c \in active \cap answering

\* Someone extracts a connection, the first time or again.
Extract(c) ==
  /\ Reachable(c)
  /\ Refreshed(c)
  /\ UNCHANGED <<active, answering, due, started>>

Toggled(set, c) == IF c \in set THEN set \ {c} ELSE set \cup {c}

\* A connection is deactivated or activated again.
Toggle(c) ==
  /\ active' = Toggled(active, c)
  /\ UNCHANGED <<line, recent, answering, due, started>>

\* external: a TM1 server stops or starts answering.
Server(c) ==
  /\ answering' = Toggled(answering, c)
  /\ UNCHANGED <<line, recent, active, due, started>>

\* external: the minimum age passes.
AgePasses == recent' = {} /\ UNCHANGED <<line, active, answering, due, started>>

\* refresh_due_connections, scan_due_connections: the list is read once.
Staler(c, d) == \E i, j \in DOMAIN line : i < j /\ line[i] = c /\ line[j] = d
StalestFirst(s) == \A i, j \in DOMAIN s : i < j => Staler(s[i], s[j])
refresh_due_connections ==
  /\ due = <<>>
  /\ due' \in {s \in SetToSeqs((ToSet(line) \cap active) \ recent) : StalestFirst(s)}
  /\ started' = 0
  /\ UNCHANGED <<line, recent, active, answering>>

(***************************************************************************)
(* The next attempt, in a transaction of its own.  A failure leaves the    *)
(* map and its age alone.  Connections beyond the budget are deferred.     *)
(***************************************************************************)
Attempt ==
  /\ due # <<>>
  /\ \/ started = Budget /\ due' = <<>> /\ UNCHANGED <<line, recent, started>>
     \/ /\ started < Budget
        /\ started' = started + 1
        /\ due' = Tail(due)
        /\ LET c == Head(due) IN
           IF Reachable(c) THEN Refreshed(c) ELSE UNCHANGED <<line, recent>>
  /\ UNCHANGED <<active, answering>>

Next ==
  \/ \E c \in Connections : Extract(c) \/ Toggle(c) \/ Server(c)
  \/ AgePasses \/ refresh_due_connections \/ Attempt

\* The cron calls the pass again and again, and it runs to its end.
Fairness ==
  /\ WF_passVars(AgePasses)
  /\ WF_passVars(refresh_due_connections)
  /\ WF_passVars(Attempt)

Spec == Init /\ [][Next]_passVars /\ Fairness

-----------------------------------------------------------------------------
\* Once connections and servers stay as they are, every mapped and active one whose
\* server answers is refreshed again and again, as long as those that do not answer
\* leave room in the budget ("one unreachable server costs its own refresh and not
\* the others'").
HealthyIsRefreshed ==
  /\ <>[][UNCHANGED <<active, answering>>]_passVars
  /\ <>[](Cardinality(active \ answering) < Budget)
  => \A c \in Connections : <>[](Reachable(c) /\ c \in ToSet(line)) => []<>(c \in recent)
=============================================================================

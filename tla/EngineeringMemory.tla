------------------------- MODULE EngineeringMemory -------------------------
(***************************************************************************)
(* What the team knows of its models and the assistant is told: people     *)
(* write memories, the assistant and others propose them, people with      *)
(* knowledge.write approve, edit and archive.  A request checks the row it *)
(* reads and writes when it commits.                                       *)
(***************************************************************************)
EXTENDS Naturals, FiniteSets

CONSTANTS Users,
          Vouchers,   \* those with knowledge.write
          Requests,
          MaxRows,    \* bound: memories and versions
          None

VARIABLES memory,    \* engineering_memories
          request    \* each open request

vars == <<memory, request>>

Ids == 1 .. MaxRows

Row == [status : {"none"}] \cup
       [status : {"proposed", "approved", "rejected", "archived"}, source : {"human", "ai"},
        version : Ids, supersedes : Ids \cup {None}, decided_by : Users \cup {None}]

Absent == [status |-> "none"]
Idle == [op |-> "idle"]

TypeOK ==
  /\ memory \in [Ids -> Row]
  /\ request \in [Requests -> {Idle} \cup [op : {"approve", "reject", "edit", "archive"}, user : Users, id : Ids]]

Init == memory = [i \in Ids |-> Absent] /\ request = [r \in Requests |-> Idle]

Made == {i \in Ids : memory[i] # Absent}
NewId == CHOOSE i \in Ids \ Made : \A j \in Ids \ Made : i <= j

-----------------------------------------------------------------------------
\* A person with knowledge.write vouches for what they write; the assistant never.
Vouched(u, source) == source = "human" /\ u \in Vouchers

\* create, from the page and from propose_engineering_memory.
Create(u, source) ==
  /\ Made # Ids
  /\ memory' = [memory EXCEPT ![NewId] =
       [status |-> IF Vouched(u, source) THEN "approved" ELSE "proposed", source |-> source,
        version |-> 1, supersedes |-> None,
        decided_by |-> IF Vouched(u, source) THEN u ELSE None]]
  /\ UNCHANGED request

\* What each request asks of the row it reads.
Expects(op) ==
  CASE op \in {"approve", "reject"} -> {"proposed"}
    [] op = "edit"    -> {"approved"}
    [] op = "archive" -> {"proposed", "approved", "rejected"}

\* decide, edit and archive, up to their flush.
Begin(r, u, op, i) ==
  /\ request[r] = Idle /\ u \in Vouchers
  /\ memory[i].status \in Expects(op)
  /\ request' = [request EXCEPT ![r] = [op |-> op, user |-> u, id |-> i]]
  /\ UNCHANGED memory

\* edit: the old version is archived, the new one follows it.
NewVersion(u, i) ==
  [status |-> "approved", source |-> "human", version |-> memory[i].version + 1,
   supersedes |-> i, decided_by |-> u]

Edited(u, i) == [memory EXCEPT ![i].status = "archived", ![NewId] = NewVersion(u, i)]

Decided(q) ==
  [memory EXCEPT ![q.id] =
     [@ EXCEPT !.status = IF q.op = "approve" THEN "approved" ELSE "rejected", !.decided_by = q.user]]

\* The flush: the row may have changed since.
Commit(r) ==
  LET q == request[r] IN
  /\ q # Idle
  /\ \/ q.op \in {"approve", "reject"} /\ memory' = Decided(q)
     \/ q.op = "archive" /\ memory' = [memory EXCEPT ![q.id].status = "archived"]
     \/ q.op = "edit" /\ Made # Ids /\ memory' = Edited(q.user, q.id)
  /\ request' = [request EXCEPT ![r] = Idle]

\* The endpoints and the tool.
Request ==
  \/ \E u \in Users, source \in {"human", "ai"} : Create(u, source)
  \/ \E r \in Requests, u \in Users, op \in {"approve", "reject", "edit", "archive"}, i \in Made : Begin(r, u, op, i)

Next == Request \/ \E r \in Requests : Commit(r)

Spec == Init /\ [][Next]_vars

\* One request at a time.
Serialised == \A r, s \in Requests : request[r] # Idle /\ request[s] # Idle => r = s

-----------------------------------------------------------------------------
\* What prompt_block and search_engineering_memory give the assistant.
Told == {i \in Made : memory[i].status = "approved"}

\* This version and every one before it (history).
History(i) ==
  LET back[n \in Ids] ==
        IF n = 1 THEN {i} ELSE back[n - 1] \cup ({memory[j].supersedes : j \in back[n - 1]} \ {None})
  IN  back[MaxRows]

\* The assistant is told only what a person with knowledge.write stands for, and
\* its own suggestions become memory only through somebody's approval, however
\* requests overlap ("the assistant's own guesses never become permanent memory by
\* themselves").
PeopleVouch ==
  \A i \in Told' \ Told :
     /\ memory'[i].decided_by \in Vouchers
     /\ memory'[i].source = "ai" => \E r \in Requests : request[r].op = "approve" /\ request[r].id = i

\* The history of a memory is whole: every version from the first to it, each once,
\* through edits that overlap too ("what the assistant was told, and when, is never lost").
HistoryIsWhole ==
  \A i \in Made :
    /\ {memory[j].version : j \in History(i)} = 1 .. memory[i].version
    /\ Cardinality(History(i)) = memory[i].version

\* One at a time, only the latest version of a memory is told to the assistant.
OneVoice == \A i \in Told, j \in Made : memory[j].supersedes # i

\* One at a time, a rejected or archived memory is never told again.
DecidedForGood ==
  \A i \in Made : memory[i].status \in {"rejected", "archived"} => i \notin Told'
=============================================================================

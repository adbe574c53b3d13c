---------------------------- MODULE ImpactAnalysis ----------------------------
(***************************************************************************)
(* What a change to one TM1 object affects: a breadth-first walk of the    *)
(* dependency map from the changed object, and a severity for each object  *)
(* it reaches.  The rows of a query come in no particular order, so the    *)
(* walk takes them in any: an object it can reach in several ways is       *)
(* reached through whichever row comes first.                              *)
(***************************************************************************)
EXTENDS Naturals, Sequences, SequencesExt

CONSTANTS Relationships,  \* rows <<from, type, to>> that may be in the map
          MaxDepth,       \* MAX_DEPTH, max_depth
          MaxNodes        \* MAX_TRAVERSAL_NODES

Things == UNION {{r[1], r[3]} : r \in Relationships}

VARIABLES drawn,      \* tm1_relationships of the connection
          start,      \* the object asked about
          direction,  \* "incoming": what depends on it; "outgoing": what it depends on
          queue,      \* objects to look at
          found       \* per object, how it was reached

walkVars == <<drawn, start, direction, queue, found>>

Unseen == [depth |-> MaxDepth + 1]
Visited == {o \in Things : found[o] # Unseen}

TypeOK ==
  /\ drawn \subseteq Relationships
  /\ direction \in {"incoming", "outgoing"}
  /\ queue \in Seq(Visited)
  /\ IsInjective(queue)
  /\ \A o \in Visited \ {start} : found[o].via \in Visited /\ found[o].depth \in 1 .. MaxDepth

Init ==
  /\ drawn \in SUBSET Relationships
  /\ start \in UNION {{r[1], r[3]} : r \in drawn}
  /\ direction \in {"incoming", "outgoing"}
  /\ queue = <<start>>
  /\ found = [o \in Things |-> IF o = start THEN [depth |-> 0] ELSE Unseen]

\* The rows that lead from one object to another in the direction of the walk.
Rows(from, to) ==
  {r \in drawn : IF direction = "incoming" THEN r[1] = to /\ r[3] = from
                                           ELSE r[1] = from /\ r[3] = to}

Reached(current) == {o \in Things \ Visited : Rows(current, o) # {}}

Walking == queue # <<>> /\ Cardinality(Visited) < MaxNodes

Expand ==
  LET current == Head(queue)
      depth == found[current].depth
      next == IF depth >= MaxDepth THEN {} ELSE Reached(current) IN
  /\ Walking
  /\ \E order \in SetToSeqs(next) : queue' = Tail(queue) \o order
  /\ \E by \in [next -> UNION {Rows(current, o) : o \in next}] :
       /\ \A o \in next : by[o] \in Rows(current, o)
       /\ found' = [o \in Things |->
            IF o \in next THEN [depth |-> depth + 1, rel |-> by[o][2], via |-> current] ELSE found[o]]
  /\ UNCHANGED <<drawn, start, direction>>

Next == Expand

\* One walk per request: find_dependents takes the incoming rows, find_dependencies
\* the outgoing ones.
Spec == Init /\ [][Next]_walkVars

\* The way back from an object to the start, by the object each was reached from.
dependency_path(o) ==
  LET back[n \in 0 .. found[o].depth] == IF n = 0 THEN o ELSE found[back[n - 1]].via
  IN  [i \in 1 .. found[o].depth + 1 |-> back[found[o].depth + 1 - i]]

-----------------------------------------------------------------------------
(***************************************************************************)
(* Severities, from 1 (critical) to 4 (low).                               *)
(***************************************************************************)
Severities == <<"critical", "high", "medium", "low">>

\* By the relationship of the dependent: what a modification and a deletion do to it.
base(rel) ==
  CASE rel = "uses_dimension" -> [modify |-> 2, delete |-> 1]
    [] rel \in {"references_cube", "calls_process", "runs_process"} -> [modify |-> 3, delete |-> 1]
    [] rel \in {"view_of_cube", "subset_of_dimension"} -> [modify |-> 4, delete |-> 2]
    [] rel \in {"reads_cube", "reads_view", "uses_view", "uses_subset", "references_dimension",
                "updates_cube", "updates_dimension"} -> [modify |-> 3, delete |-> 2]
    [] OTHER -> [modify |-> 4, delete |-> 3]

\* One step less severe per step of distance beyond the first.
lower(severity, steps) == IF severity + steps > 4 THEN 4 ELSE severity + steps

\* Per kind of change, the severity of each dependent the walk found.
Severity(o, kind) ==
  lower(IF kind = "rules" THEN IF found[o].rel = "references_cube" THEN 2 ELSE base(found[o].rel).modify
        ELSE base(found[o].rel)[kind],
        found[o].depth - 1)

\* Items of the impact beside the dependents: the cube whose rules change.
Own(kind) == IF kind = "rules" THEN {2} ELSE {}

needs_acknowledgement(kind) ==
  \E s \in Own(kind) \cup {Severity(o, kind) : o \in Visited \ {start}} : Severities[s] \in {"critical", "high"}


\* What the process asked about is said to write (find_dependencies to depth 1).
Written == {o \in Visited : found[o].depth = 1 /\ found[o].rel \in {"updates_cube", "updates_dimension"}}

-----------------------------------------------------------------------------
\* The objects within n steps of the start.
Ball ==
  LET b[n \in 0 .. MaxDepth] ==
        IF n = 0 THEN {start}
        ELSE LET near == b[n - 1] IN near \cup {o \in Things : \E c \in near : Rows(c, o) # {}}
  IN  [n \in 0 .. MaxDepth |-> b[n]]

\* Whatever the order of the rows, an object is reported at its true distance, with
\* a shortest path, and none within max_depth is left out unless the walk was cut
\* at its limit of objects (_traverse, dependency_path).
ReachesAll ==
  ~Walking =>
    LET ball == Ball IN
    /\ \A o \in Visited :
         /\ o \in ball[found[o].depth]
         /\ \A n \in 0 .. found[o].depth - 1 : o \notin ball[n]
         /\ LET path == dependency_path(o) IN
            /\ path[1] = start
            /\ \A i \in 1 .. found[o].depth : Rows(path[i], path[i + 1]) # {}
    /\ Cardinality(Visited) < MaxNodes => Visited = ball[MaxDepth]

\* Whether the approver must acknowledge the impact does not depend on the order of
\* the rows, though the severities do: a deletion of anything used, and a change of
\* a dimension a cube is built on or of rules, need it (needs_acknowledgement).
AcknowledgementIsSettled ==
  ~Walking /\ direction = "incoming" =>
    /\ needs_acknowledgement("delete") <=> \E r \in drawn : r[3] = start /\ r[1] # start
    /\ needs_acknowledgement("modify") <=> \E r \in drawn : r[3] = start /\ r[2] = "uses_dimension"
    /\ needs_acknowledgement("rules")

\* A process's own writes count: every cube or dimension it writes and does not also
\* read is in the impact of changing it.  One it does both with is in it only if
\* the row of the write happens to come first (analyze_impact).
OwnWritesCount ==
  ~Walking /\ direction = "outgoing" =>
    \A r \in drawn :
      /\ r[1] = start /\ r[2] \in {"updates_cube", "updates_dimension"}
      /\ Rows(start, r[3]) = {r}
      => r[3] \in Written
=============================================================================

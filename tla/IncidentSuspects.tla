-------------------------- MODULE IncidentSuspects --------------------------
(***************************************************************************)
(* The suspects an incident's investigation ranks: what changed near the   *)
(* reported cube or process, from the dependency map, the changes and runs *)
(* of the time looked at, and alerts.  Pure functions.                     *)
(***************************************************************************)
EXTENDS Naturals, FiniteSetsExt, SequencesExt

CONSTANTS Cubes, Processes,
          MaxSuspects,   \* MAX_SUSPECTS
          None

-----------------------------------------------------------------------------
(* The neighbourhood.  A map has who updates which cube and which cube's   *)
(* rules read which.                                                       *)

Maps == [updates : SUBSET (Processes \X Cubes), references : SUBSET (Cubes \X Cubes)]

Reported == [cube : Cubes \cup {None}, process : Processes \cup {None}]

Affected(map, report) ==
  IF report.cube # None THEN {report.cube}
  ELSE {c \in Cubes : <<report.process, c>> \in map.updates}

RuleSources(map, report) ==
  {d \in Cubes : \E c \in Affected(map, report) : <<c, d>> \in map.references} \ Affected(map, report)

Writers_OfTheCube(map, report) ==
  {p \in Processes : \E c \in Affected(map, report) : <<p, c>> \in map.updates}
    \cup ({report.process} \ {None})
Writers(map, report) ==
  {p \in Processes : \E c \in Affected(map, report) \cup RuleSources(map, report) : <<p, c>> \in map.updates}
    \cup ({report.process} \ {None})

-----------------------------------------------------------------------------
(* Suspects.                                                               *)

ProcessChanges == {"create_process", "update_process", "delete_process", "run_process"}
CubeChanges == {"update_rules", "write_cells"}
DeployedChanges == [type : ProcessChanges, on : Processes, status : {"executed", "unknown", "failed", "rolled_back"}]
           \cup [type : CubeChanges \cup {"create_view"}, on : Cubes,
                 status : {"executed", "unknown", "failed", "rolled_back"}]

Near(c, map, report) ==
  \/ c.type \in CubeChanges /\ c.on \in Affected(map, report) \cup RuleSources(map, report)
  \/ c.type \in ProcessChanges /\ c.on \in Writers(map, report)

\* What a change near the cube scores and what is suggested of it.
ScoreOf ==
  [executed |-> [update_rules |-> 90, write_cells |-> 85, run_process |-> 60,
                 create_process |-> 80, update_process |-> 80, delete_process |-> 80],
   unknown  |-> [t \in CubeChanges \cup ProcessChanges |-> 88],
   failed   |-> [t \in CubeChanges \cup ProcessChanges |-> 70]]

Mitigation(c) == IF c.status = "executed" /\ c.type # "run_process" THEN "rollback" ELSE "review"

OfChange(c, map, report) ==
  IF Near(c, map, report) /\ c.status \in DOMAIN ScoreOf
  THEN {[score |-> ScoreOf[c.status][c.type], action |-> Mitigation(c)]}
  ELSE {}

\* The last run of each writer, if it did not succeed.
OfRuns(runs) ==
  IF runs # <<>> /\ Last(runs) # "succeeded" THEN {[score |-> 75, action |-> "diagnose"]} ELSE {}

\* Unusually long runs, open alerts and rules with findings.  Model differences (50)
\* are never among them: they are asked for with a status no extraction has (see
\* ModelMap).
OfTheRest == {[score |-> s, action |-> "review"] : s \in {40, 45, 30}}

\* Sorted by score and cut.
Cut(sorted) == SubSeq(sorted, 1, IF Len(sorted) < MaxSuspects THEN Len(sorted) ELSE MaxSuspects)
Ranked(suspects) == Cut(SetToSortSeq(suspects, LAMBDA a, b : a.score > b.score))

-----------------------------------------------------------------------------
\* Whatever feeds the reported cube, directly or through a cube its rules read.
Feeds(map, report, c) ==
  \/ c.type \in CubeChanges /\ (c.on = report.cube \/ <<report.cube, c.on>> \in map.references)
  \/ /\ c.type \in ProcessChanges
     /\ \/ <<c.on, report.cube>> \in map.updates
        \/ \E d \in Cubes : <<report.cube, d>> \in map.references /\ <<c.on, d>> \in map.updates

\* Every change that could have altered the reported numbers and is in force or in
\* doubt is a suspect, in every dependency map (gather, _neighbourhood).
NothingNearMissed ==
  \A map \in Maps, report \in [cube : Cubes, process : {None}] :
    \A c \in DeployedChanges : c.status # "rolled_back" /\ Feeds(map, report, c) => OfChange(c, map, report) # {}

\* A rollback is suggested exactly where rollback_change would do it: for a change
\* that is executed and is not a run.
RollbackIsPossible ==
  \A c \in DeployedChanges : \A s \in OfChange(c, [updates |-> Processes \X Cubes, references |-> {}],
                                       [cube |-> CHOOSE x \in Cubes : TRUE, process |-> None]) :
    (s.action = "rollback") = (c.status = "executed" /\ c.type # "run_process")

\* What is cut from a long list is no more likely than what is kept.
TopIsKept ==
  \A suspects \in SUBSET (OfTheRest \cup OfRuns(<<"failed">>)) :
    LET kept == ToSet(Ranked(suspects)) IN
    /\ Cardinality(kept) = IF Cardinality(suspects) < MaxSuspects THEN Cardinality(suspects) ELSE MaxSuspects
    /\ \A a \in kept, b \in suspects \ kept : a.score >= b.score
=============================================================================

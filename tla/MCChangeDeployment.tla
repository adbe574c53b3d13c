------------------------- MODULE MCChangeDeployment -------------------------
(***************************************************************************)
(* Changes for TLC, in one instance: requests on the changes of one object *)
(* that overlap freely or end before the next begins (ChangeDeployment),   *)
(* the rules of environments (Governance), and a change of cell values     *)
(* (CellWrites).  Overlapping requests are followed with one content       *)
(* beside "absent" and no edit by others, serial ones with all of them.    *)
(***************************************************************************)
EXTENDS ChangeDeployment, FiniteSets, TLC

CONSTANTS Modes, Users, Rights, Servers, MaxRelabels, None,  \* Governance
          Developer, Approver,                                 \* its users
          Numeric, Total, Text, MaxCellWrites                  \* CellWrites

\* The cells are told apart; a change writes so many of them at most.
ASSUME CellsAssumption == Numeric # Total /\ Numeric # Text /\ Total # Text /\ MaxCellWrites \in Nat

\* What is promoted from nothing is told from what is promoted from a change.
ASSUME NoneAssumption == None \notin Nat /\ MaxRelabels \in Nat

VARIABLES part,   \* what moves in this behaviour
          mode, relabels, label, change, proposed, request,
          value, consolidated, writes, status, at, base, before, applied, reshaped, was, touched

Rules == INSTANCE Governance WITH Contents <- {Absent}, Requests <- Sessions
Cube == INSTANCE CellWrites

DeployRights ==
  (Developer :> {"write", "deploy", "qa"}) @@ (Approver :> {"write", "deploy", "qa", "prod"})

ruleVars == <<mode, relabels, label, change, proposed, request>>
cellVars == <<value, consolidated, writes, status, at, base, before, applied, reshaped, was, touched>>
MCvars == <<part, vars, ruleVars, cellVars>>

InUse ==
  {content}
    \cup UNION {{rows[i].new, rows[i].base} : i \in {j \in Changes : rows[j].status # "none"}}
    \cup {session[s].new : s \in {t \in Sessions : session[t].op = "propose"}}

OneContent == Cardinality(InUse \ {Absent}) <= 1 /\ edits = 0

\* A component that does not move has one initial state.
MCInit ==
  /\ part \in {"overlap", "alone", "rules", "cells"}
  /\ Init /\ Rules!Init /\ Cube!Init
  /\ part \in {"rules", "cells"} => content = Absent
  /\ part # "rules" => mode = "readwrite" /\ label = [s \in Servers |-> "dev"]

OnlyDeployment == UNCHANGED <<part, ruleVars, cellVars>>
OnlyRules == part = "rules" /\ UNCHANGED <<part, vars, cellVars>>
OnlyCells == part = "cells" /\ UNCHANGED <<part, vars, ruleVars>>

MCNext ==
  \/ part = "overlap" /\ OnlyDeployment /\ Next /\ OneContent'
  \/ part = "alone" /\ OnlyDeployment /\ SerialNext
  \/ OnlyRules /\ Rules!Next
  \/ OnlyCells /\ Cube!Next

MCSpec == MCInit /\ [][MCNext]_MCvars

\* The sets of the two components have the same members in the model, so that the
\* same permutations serve both.
Interchangeable ==
  Permutations(Sessions) \cup Permutations(Authors) \cup Permutations(Contents)

-----------------------------------------------------------------------------
\* One at a time, a change moves only along the lifecycle its model documents, and its
\* write overwrites only what its author saw (execute_change's drift check).
OverwritesOnlyItsBaseAlone == [][part = "alone" => Lifecycle /\ OverwritesOnlyItsBase]_vars

\* One at a time, a rollback overwrites only what its change left there, and puts back
\* exactly what the change was drafted against (rollback_change).
RollsBackItsOwnAlone == [][part = "alone" => RollbackRestoresBase /\ RollbackKeepsLaterEdits]_vars

\* No road leads round the people who decide: a PROD change is applied by somebody
\* other than its author (check_can_apply), relabelling a server loosens no rule of a
\* draft (effective_environment) and needs the rights of both labels
\* (check_environment_change), the assistant applies only its own drafts and nothing on
\* PROD (ApplyChangeTool), and what is promoted was applied before (promote).
PeopleDecide ==
  [][part = "rules" => /\ Rules!TwoPersons /\ Rules!NoWayRound
                       /\ Rules!LabelsNeedRights /\ Rules!AssistantStaysLow
                       /\ (Rules!TypeOK /\ Rules!RoadIsProven)']_ruleVars

\* An executed change is what the server holds in every cell nobody wrote since, and
\* after a failed or rolled back one every numeric cell it wrote holds what it held
\* before, unless others wrote it meanwhile or it became a total (_apply,
\* restore_cells).
CellsAreKept ==
  part = "cells" => Cube!TypeOK /\ Cube!ExecutedIsHeld /\ Cube!CellsComeBack

\* Nothing but the listed cells is written, unless one of them became a total since the
\* draft was checked, and over values the author saw or ones put there after the
\* request's last look at the cells (create_change's checks, base_fingerprint).
WritesWhatWasAsked ==
  [][part = "cells" => Cube!OnlyListedCells /\ Cube!OverwritesWhatWasSeen]_cellVars
=============================================================================

----------------------------- MODULE CellWrites -----------------------------
(***************************************************************************)
(* A change that writes cells of a TM1 cube: drafted against the cells as  *)
(* they are, applied by an approver, read back, rolled back.  Planners     *)
(* write the same cells in TM1 at any time, and a modeller may turn one of *)
(* them into the total of another.                                         *)
(*                                                                         *)
(* A value is a pair of its type and its text; TM1 reports an empty cell   *)
(* as an empty value of its type or as none at all.                        *)
(***************************************************************************)
EXTENDS Naturals, FiniteSets

CONSTANTS Numeric,  \* a cell of a numeric element
          Total,    \* another one, which may become the total of Numeric
          Text,     \* a cell of a string element
          MaxCellWrites

Cells == {Numeric, Total, Text}

Nothing == <<"none", "">>
Zero == <<"number", "0">>
One == <<"number", "1">>
Blank == <<"text", "">>
Word == <<"text", "a">>
Values == {Zero, One, Blank, Word, <<"text", "0">>, <<"text", "1">>}
IsText(v) == v[1] = "text"

VARIABLES value,        \* what TM1 holds
          consolidated, \* Total has become the total of Numeric
          writes,       \* none, or what the draft writes to which cells
          status,
          at,           \* the step of the request that applies or rolls back
          base,         \* the draft's fingerprint of the cells
          before,       \* previous_content.cells
          applied,      \* previous_content.applied
          reshaped,     \* history: a cell became a total after the draft was checked
          was,          \* history: the cells when the request passed its check
          touched       \* history: cells changed since, or left uncertain

cellVars == <<value, consolidated, writes, status, at, base, before, applied, reshaped, was, touched>>

Unset == [c \in {} |-> Nothing]
\* _cell_writes: what a change may ask for.
Some == UNION {[D -> {Zero, One, Word}] : D \in {E \in SUBSET Cells : Cardinality(E) <= MaxCellWrites}}
Written == DOMAIN writes

TypeOK ==
  /\ value \in [Cells -> Values]
  /\ \A c \in Cells \ {Text} : ~IsText(value[c])
  /\ consolidated \in BOOLEAN /\ reshaped \in BOOLEAN
  /\ writes \in Some
  /\ status \in {"none", "refused", "draft", "executed", "failed", "unknown", "rolled_back"}
  /\ at \in {"rest", "snapshot", "write", "check", "restore", "undo"}
  /\ touched \in SUBSET Cells

Init ==
  /\ value = [c \in Cells |-> IF c = Text THEN Blank ELSE Zero]
  /\ consolidated = FALSE /\ reshaped = FALSE
  /\ writes = Unset /\ status = "none" /\ at = "rest"
  /\ base = Unset /\ before = Unset /\ applied = Unset
  /\ was = value /\ touched = {}

-----------------------------------------------------------------------------
\* external: what TM1 may report for a cell.
Reports(v) == IF v \in {Zero, Blank} THEN {v, Nothing} ELSE {v}
Readings(D) == {r \in [D -> Values \cup {Nothing}] : \A c \in D : r[c] \in Reports(value[c])}

\* _normal: as drift and rollback compare values.
Normalised(v) == IF v = Nothing THEN Zero ELSE v
Normal(r) == [c \in DOMAIN r |-> Normalised(r[c])]

\* _same_value: as the written is compared with the read.  The text of a number
\* counts as the number, an empty one as zero.
AsNumber(v) == IF v \in {Nothing, Blank} THEN "0" ELSE v[2]
AsText(v) == IF v = Nothing THEN "" ELSE v[2]
same_value(a, b) ==
  IF "number" \in {a[1], b[1]} THEN AsNumber(a) = AsNumber(b) ELSE AsText(a) = AsText(b)

(***************************************************************************)
(* external: one request writes all cells or none.  A text is refused for  *)
(* a numeric cell, a number becomes text in a string cell, a value written *)
(* to a total spreads to its children, and what TM1 then holds for cells   *)
(* of D may be something else (a rule, a feeder, a locked element).        *)
(***************************************************************************)
Accepts(w) == \A c \in DOMAIN w : c # Text => ~IsText(w[c])
Stored(c, v) == IF c = Text THEN <<"text", v[2]>> ELSE v
Summed(v) == IF consolidated THEN [v EXCEPT ![Total] = v[Numeric]] ELSE v
Put(v, w) ==
  LET w1 == [c \in Cells |-> IF c \in DOMAIN w THEN Stored(c, w[c]) ELSE v[c]]
  IN  IF consolidated /\ Total \in DOMAIN w
      THEN [w1 EXCEPT ![Numeric] = w1[Total]] ELSE Summed(w1)
Only(w, D) == [c \in D |-> w[c]]

-----------------------------------------------------------------------------
\* Bound: what happens to the cells once the change is settled is of no interest.
Open == status \in {"none", "draft", "executed"}

Touch(D) == touched' = IF at # "rest" \/ status = "executed" THEN touched \cup D ELSE touched

\* external: a planner writes a leaf cell.
Planner(c, v) ==
  /\ Open
  /\ c = Total => ~consolidated
  /\ IsText(v) <=> c = Text
  /\ v # value[c]
  /\ value' = Summed([value EXCEPT ![c] = v])
  /\ Touch({d \in Cells : value'[d] # value[d]})
  /\ UNCHANGED <<consolidated, writes, status, at, base, before, applied, reshaped, was>>

\* external: a modeller makes one element the parent of another.
Reshape ==
  /\ Open /\ ~consolidated
  /\ consolidated' = TRUE
  /\ value' = [value EXCEPT ![Total] = value[Numeric]]
  /\ reshaped' = (status # "none")
  /\ Touch({Total})
  /\ UNCHANGED <<writes, status, at, base, before, applied, was>>

(***************************************************************************)
(* create_change: the cells are read with their properties, checked, and   *)
(* read again for the fingerprint.  A draft with findings is never applied.*)
(***************************************************************************)
Findings(w, r) ==
  {c \in DOMAIN w :
     \/ c = Total /\ consolidated
     \/ r[c] # Nothing /\ (IsText(r[c]) # IsText(w[c]))}

create_change(w) ==
  /\ status = "none" /\ w # Unset
  /\ writes' = w
  /\ \E r \in Readings(DOMAIN w) : status' = IF Findings(w, r) = {} THEN "draft" ELSE "refused"
  /\ \E r \in Readings(DOMAIN w) : base' = IF status' = "draft" THEN Normal(r) ELSE Unset
  /\ UNCHANGED <<value, consolidated, at, before, applied, reshaped, was, touched>>

Goto(a) == at' = a /\ UNCHANGED <<consolidated, writes, reshaped>>

\* execute_change: drift is checked first.
execute_change_Undrifted ==
  /\ status = "draft" /\ at = "rest"
  /\ was' = value /\ touched' = {}
  /\ Goto("snapshot") /\ UNCHANGED <<base, value, status, before, applied>>
execute_change ==
  /\ status = "draft" /\ at = "rest"
  /\ \E r \in Readings(Written) : Normal(r) = base
  /\ was' = value /\ touched' = {}
  /\ Goto("snapshot") /\ UNCHANGED <<base, value, status, before, applied>>

Snapshot ==
  /\ at = "snapshot"
  /\ before' \in Readings(Written)
  /\ Goto("write") /\ UNCHANGED <<base, value, status, applied, was, touched>>

\* The request ends with an error: the row is as it was.
Raises ==
  /\ before' = IF status = "draft" THEN Unset ELSE before
  /\ Goto("rest") /\ UNCHANGED <<status, base>>

\* It ends with an outcome; what only a draft or an executed change needs is dropped.
Ends(s) ==
  /\ status' = s
  /\ before' = IF s = "executed" THEN before ELSE Unset
  /\ base' = Unset
  /\ Goto("rest")

\* The write is sent once; TM1 takes it, refuses it, or does not answer.
Write ==
  /\ at = "write"
  /\ \/ /\ Accepts(writes)
        /\ \E D \in SUBSET Written : value' = Put(value, Only(writes, D))
        /\ Goto("check") /\ UNCHANGED <<base, status, before>>
     \/ value' = value /\ Raises
     \/ value' \in {value, Put(value, writes)} /\ (value' # value => Accepts(writes)) /\ Ends("unknown")
  /\ UNCHANGED <<applied, was, touched>>

\* restore_cells: the snapshot, an empty cell as 0.
Restored_BlanksLeft == [c \in {d \in Written : before[d] # Nothing} |-> before[c]]
Restored == Normal(before)

\* The read-back and its comparison; an error there restores, if it can, and raises.
Check ==
  /\ at = "check"
  /\ \/ \E r \in Readings(Written) :
          IF \A c \in Written : same_value(r[c], writes[c])
          THEN value' = value /\ applied' = Normal(r) /\ Ends("executed")
          ELSE UNCHANGED <<value, applied, base, status, before>> /\ Goto("restore")
     \/ value' \in {value, Put(value, Restored)} /\ UNCHANGED applied /\ (Raises \/ Ends("unknown"))
  /\ UNCHANGED <<was, touched>>

Restore ==
  /\ at = "restore"
  /\ \/ value' = Put(value, Restored) /\ Ends("failed")
     \/ value' = value /\ Raises
     \/ value' \in {value, Put(value, Restored)} /\ Ends("unknown")
  /\ UNCHANGED <<applied, was, touched>>

\* rollback_change: only over what the change left.
rollback_change ==
  /\ status = "executed" /\ at = "rest"
  /\ \E r \in Readings(Written) : Normal(r) = applied
  /\ Goto("undo") /\ UNCHANGED <<base, value, status, before, applied, was, touched>>

Undo ==
  /\ at = "undo"
  /\ \/ value' = Put(value, Restored) /\ Ends("rolled_back") /\ UNCHANGED touched
     \/ value' = value /\ Raises /\ UNCHANGED touched
     \/ value' = Put(value, Restored) /\ Raises /\ touched' = touched \cup Written
  /\ UNCHANGED <<applied, was>>

Next ==
  \/ \E c \in Cells, v \in {Zero, One, Blank, Word} : Planner(c, v)
  \/ Reshape
  \/ \E w \in Some : create_change(w)
  \/ execute_change \/ Snapshot \/ Write \/ Check \/ Restore
  \/ rollback_change \/ Undo

Spec == Init /\ [][Next]_cellVars

-----------------------------------------------------------------------------
Leaves == IF consolidated THEN Cells \ {Total} ELSE Cells

\* Nothing but the listed cells is written, unless one of them became a total since the
\* draft was checked (create_change's checks, write_cells).
OnlyListedCells ==
  at' # at /\ ~reshaped => \A c \in Leaves \ Written : value'[c] = value[c]

\* A write goes over values its author saw, or ones put there after the request's last
\* look: nobody's earlier entry is lost to it (base_fingerprint).
OverwritesWhatWasSeen ==
  at = "write" /\ at' # "write" =>
     \A c \in Written \ touched : \E v \in Reports(value[c]) : Normalised(v) = base[c]

\* An executed change is what the server holds in every cell nobody wrote since.
ExecutedIsHeld ==
  status = "executed" /\ at = "rest" =>
    \A c \in Written \ touched : same_value(value[c], writes[c])

\* After a failed or rolled back change every numeric cell it wrote holds what it held
\* before, unless others wrote it meanwhile or it became a total (restore_cells).
CellsComeBack ==
  status \in {"failed", "rolled_back"} /\ ~reshaped =>
    \A c \in Written \ (touched \cup {Text}) : value[c] = was[c]

=============================================================================

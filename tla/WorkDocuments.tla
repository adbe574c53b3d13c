--------------------------- MODULE WorkDocuments ---------------------------
(***************************************************************************)
(* The documents of one work item, which people and the assistant save by  *)
(* their titles.  A save reads what there is and writes when it commits.   *)
(***************************************************************************)
EXTENDS Naturals, FiniteSets

CONSTANTS Titles, Sessions,
          MaxDocuments,   \* MAX_DOCUMENTS
          MaxVersion      \* bound: versions of a document

VARIABLES document,  \* per title: its version and whose draft it is; version 0 for none
          saving     \* each open save

vars == <<document, saving>>

Rows == [version : 0 .. MaxVersion, assistant : BOOLEAN]
Blank == [version |-> 0, assistant |-> FALSE]
Idle == [open |-> FALSE]

TypeOK ==
  /\ document \in [Titles -> Rows]
  /\ saving \in [Sessions -> {Idle} \cup [open : {TRUE}, title : Titles, read : 0 .. MaxVersion, assistant : BOOLEAN]]

Init == document = [t \in Titles |-> Blank] /\ saving = [s \in Sessions |-> Idle]

Written == {t \in Titles : document[t] # Blank}

\* There is a document of that title, or room for one more.
Room(t) == t \in Written \/ Cardinality(Written) < MaxDocuments

\* save, up to its flush; save_work_item_document for the assistant.
Begin(s, t, assistant) ==
  /\ saving[s] = Idle /\ Room(t) /\ document[t].version < MaxVersion
  /\ saving' = [saving EXCEPT ![s] =
       [open |-> TRUE, title |-> t, read |-> document[t].version, assistant |-> assistant]]
  /\ UNCHANGED document

\* The version follows the one that was read.
NextVersion(q) == q.read + 1

\* The flush: an insert that meets its title fails, and so does an update of a row
\* that is gone.
Commit(s) ==
  LET q == saving[s] IN
  /\ q.open
  /\ document' = IF (q.read = 0) = (q.title \notin Written)
                 THEN [document EXCEPT ![q.title] = [version |-> NextVersion(q), assistant |-> q.assistant]]
                 ELSE document
  /\ saving' = [saving EXCEPT ![s] = Idle]

Delete(t) == t \in Written /\ document' = [document EXCEPT ![t] = Blank] /\ UNCHANGED saving

Next ==
  \/ \E s \in Sessions : Commit(s) \/ \E t \in Titles, assistant \in BOOLEAN : Begin(s, t, assistant)
  \/ \E t \in Titles : Delete(t)

Spec == Init /\ [][Next]_vars

\* One save at a time.
Serialised == Cardinality({s \in Sessions : saving[s].open}) <= 1

-----------------------------------------------------------------------------
\* Documents exceed their limit by no more than the saves that overlapped (save).
DocumentsBounded == Cardinality(Written) <= MaxDocuments + Cardinality(Sessions) - 1

\* One at a time, every text of a document has a version of its own: what replaces
\* a text has the next version (save).
VersionsRise ==
  \A t \in Written : document'[t] \in {Blank, document[t]} \/ document'[t].version = document[t].version + 1
=============================================================================

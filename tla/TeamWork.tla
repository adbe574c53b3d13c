------------------------------ MODULE TeamWork ------------------------------
(***************************************************************************)
(* Work items and incidents of a team: records linked to them,             *)
(* investigations, and what each viewer is shown of them.  There are one   *)
(* conversation, one TM1 server and one change on it, each of which its    *)
(* owner shares, takes back or deletes.  Creating an item checks first and *)
(* writes when it commits.                                                 *)
(***************************************************************************)
EXTENDS Naturals, FiniteSetsExt

CONSTANTS Users, Owner,   \* Owner has the conversation and the connection
          Items, Sessions

VARIABLES item,      \* work_items
          link,      \* work_item_links: <<item, record>>
          shared,    \* who sees each record's source: "private", "organization" or "gone"
          applied,   \* the change: "draft", "executed" or "rolled_back"
          looks,     \* incidents with incident_investigations
          session    \* each open request

vars == <<item, link, shared, applied, looks, session>>

Records == {"conversation", "change"}
Sources == {"conversation", "server"}   \* the change is read through its server
STATUSES == {"open", "resolved"}        \* in_progress is as open, closed as resolved

\* A reference is written in upper or lower case.
Spellings == {"upper", "lower"}
Rows == [there : {FALSE}] \cup
        [there : {TRUE}, reference : Spellings, kind : {"work", "incident"}, status : STATUSES]

Nothing == [there |-> FALSE]
Idle == [op |-> "idle"]

TypeOK ==
  /\ item \in [Items -> Rows]
  /\ link \subseteq Items \X Records
  /\ shared \in [Sources -> {"private", "organization", "gone"}]
  /\ applied \in {"draft", "executed", "rolled_back"}
  /\ looks \subseteq Items
  /\ session \in [Sessions -> {Idle}
       \cup [op : {"create"}, user : Users, reference : Spellings, kind : {"work", "incident"}]]

Init ==
  /\ item = [i \in Items |-> Nothing]
  /\ link = {} /\ looks = {} /\ applied = "draft"
  /\ shared = [s \in Sources |-> "private"]
  /\ session = [s \in Sessions |-> Idle]

There == {i \in Items : item[i].there}

-----------------------------------------------------------------------------
(* Access.                                                                 *)

\* can_read_conversation.
CanReadConversation_Linked(u) == shared["conversation"] # "gone"
CanReadConversation(u) ==
  shared["conversation"] = "organization" \/ (shared["conversation"] = "private" /\ u = Owner)

\* get_connection and may_access.
MayUse(u) == shared["server"] = "organization" \/ (shared["server"] = "private" /\ u = Owner)

Available(u, record) == IF record = "conversation" THEN CanReadConversation(u) ELSE MayUse(u)

\* investigations: none for somebody who may not use the server.
Investigations(u, i) == IF MayUse(u) THEN {i} \cap looks ELSE {}

\* The records of the timeline of an item that u is shown.
Timeline(u, i) ==
  {l[2] : l \in {k \in link : k[1] = i /\ Available(u, k[2])}}
    \cup (IF Investigations(u, i) # {} THEN {"investigation"} ELSE {})

\* How far the item is said to be, for u.
Progress(u, i) ==
  LET change == "change" \in Timeline(u, i) IN
  [investigation |-> "conversation" \in Timeline(u, i),
   fix |-> change, approval |-> change /\ applied # "draft", deployment |-> change /\ applied = "executed",
   verification |-> change /\ applied = "executed" /\ item[i].status = "resolved"]

-----------------------------------------------------------------------------
(* Items.                                                                  *)

Open(s, q) == session[s] = Idle /\ session' = [session EXCEPT ![s] = q]
Close(s) == session' = [session EXCEPT ![s] = Idle]

\* find_by_reference looks without regard to case; all items here have one reference.
Free(reference) == There = {}

\* create and create_incident, up to the insert.
BeginCreate(s, u, reference, kind) ==
  /\ Free(reference) /\ (kind = "incident" => MayUse(u))
  /\ Open(s, [op |-> "create", user |-> u, reference |-> reference, kind |-> kind])
  /\ UNCHANGED <<item, link, shared, applied, looks>>

\* The insert: references are unique as they are written.  A reported incident is
\* investigated at once.
CommitCreate(s) ==
  LET q == session[s] IN
  /\ q.op = "create"
  /\ IF \E i \in There : item[i].reference = q.reference THEN UNCHANGED <<item, looks>>
     ELSE \E i \in Items \ There :
       /\ item' = [item EXCEPT ![i] = [there |-> TRUE, reference |-> q.reference, kind |-> q.kind,
                                       status |-> "open"]]
       /\ looks' = looks \cup (IF q.kind = "incident" /\ shared["server"] # "gone" THEN {i} ELSE {})
  /\ Close(s) /\ UNCHANGED <<link, shared, applied>>

\* update: people say where the work stands.
Update(i) ==
  /\ \E status \in STATUSES : item' = [item EXCEPT ![i].status = status]
  /\ UNCHANGED <<link, shared, applied, looks, session>>

\* link: only what the linker may read, and a conversation only when it is shared.
Link(u, i, record) ==
  /\ Available(u, record) /\ (record = "conversation" => shared[record] = "organization")
  /\ <<i, record>> \notin link
  /\ link' = link \cup {<<i, record>>}
  /\ UNCHANGED <<item, shared, applied, looks, session>>

Unlink(l) == link' = link \ {l} /\ UNCHANGED <<item, shared, applied, looks, session>>

\* investigate, again.
Investigate(u, i) ==
  /\ item[i].kind = "incident" /\ MayUse(u)
  /\ looks' = looks \cup {i}
  /\ UNCHANGED <<item, link, shared, applied, session>>

-----------------------------------------------------------------------------
(* The records themselves.                                                 *)

\* Sharing, taking back and deleting, by the owner.  An incident's investigations
\* and the change go with their server.
Reshare(source, to) ==
  /\ shared[source] \notin {to, "gone"}
  /\ shared' = [shared EXCEPT ![source] = to]
  /\ looks' = IF source = "server" /\ to = "gone" THEN {} ELSE looks
  /\ UNCHANGED <<item, link, applied, session>>

\* The change is applied and rolled back (ChangeDeployment).
Move ==
  /\ shared["server"] # "gone"
  /\ \/ applied = "draft" /\ applied' = "executed"
     \/ applied = "executed" /\ applied' = "rolled_back"
  /\ UNCHANGED <<item, link, shared, looks, session>>

-----------------------------------------------------------------------------
OnItems ==
  \/ \E i \in There, u \in Users :
       \/ Update(i) \/ Investigate(u, i)
       \/ \E record \in Records : Link(u, i, record)
  \/ \E l \in link : Unlink(l)

Next ==
  \/ OnItems \/ Move
  \/ \E s \in Sessions :
       \/ \E u \in Users, reference \in Spellings, kind \in {"work", "incident"} : BeginCreate(s, u, reference, kind)
       \/ CommitCreate(s)
  \/ \E source \in Sources, to \in {"private", "organization", "gone"} : Reshare(source, to)

Spec == Init /\ [][Next]_vars

\* One request at a time.
Serialised == Cardinality({s \in Sessions : session[s] # Idle}) <= 1

-----------------------------------------------------------------------------
\* A work item never widens access: whatever was linked and investigated while it
\* was shared, a viewer is shown only what they may read now, and stages are not
\* said to be reached on records that are hidden from them (timeline).
NeverWidens ==
  \A u \in Users, i \in There :
    /\ "conversation" \in Timeline(u, i) => shared["conversation"] = "organization" \/ u = Owner
    /\ Timeline(u, i) \cap {"change", "investigation"} # {} => shared["server"] = "organization" \/ u = Owner
    /\ Progress(u, i).approval => shared["server"] # "gone" /\ applied # "draft"

\* One at a time, no two items have the same reference (create).
OneReference == Cardinality(There) <= 1
=============================================================================

-------------------------- MODULE ConnectionRights --------------------------
(***************************************************************************)
(* One saved TM1 connection: who may see, use and edit it, and where its   *)
(* saved password is sent.  An edit is checked against the row it read and *)
(* writes the attributes it changed when it commits; edits overlap.        *)
(***************************************************************************)
EXTENDS Naturals

CONSTANTS Users,
          Rights,    \* per user: "own", "write", "manage_all", "qa"
          Hosts, Databases, Requests,
          NoHost     \* no such host or database

VARIABLES row,     \* tm1_connections
          typed,   \* where the saved password was meant to be sent when it was typed
          edit,    \* each open edit
          raced,   \* two edits of the connection overlapped
          pasted   \* an address with a path changed the database

vars == <<row, typed, edit, raced, pasted>>

Visibilities == {"private", "organization"}
Environments == {"dev", "qa"}   \* PROD is as QA here
Rows == [there : {FALSE}] \cup
        [there : {TRUE}, owner : Users, visibility : Visibilities, environment : Environments,
         gateway : BOOLEAN, host : Hosts, database : Databases]

Gone == [there |-> FALSE]
Idle == [open |-> FALSE]

\* set: the attributes an edit changes; typed: what the password typed with it is for.
Fields == {"visibility", "environment", "gateway", "host", "database"}
Targets == (Hosts \X Databases) \cup {NoHost}

TypeOK ==
  /\ row \in Rows
  /\ typed \in Targets
  /\ \A r \in Requests : edit[r] = Idle \/
       (edit[r].user \in Users /\ DOMAIN edit[r].set \subseteq Fields /\ edit[r].typed \in Targets)
  /\ raced \in BOOLEAN /\ pasted \in BOOLEAN

Init ==
  /\ row = Gone /\ typed = NoHost
  /\ edit = [r \in Requests |-> Idle]
  /\ raced = FALSE /\ pasted = FALSE

-----------------------------------------------------------------------------
\* may_access: to use it, or to manage it.
may_access(u, c, purpose) ==
  \/ c.visibility = "organization" \/ c.owner = u
  \/ purpose = "manage" /\ "manage_all" \in Rights[u]

MayManage(u) == Rights[u] \cap {"own", "write"} # {}

check_owns(u, c) == c.owner = u \/ "write" \in Rights[u]

\* What tm1.connections.own reaches: private, DEV and direct.
check_own_scope(u, environment, visibility, gateway) ==
  "write" \in Rights[u] \/ (environment = "dev" /\ visibility = "private" /\ ~gateway)

\* POST /connections: the owner is the caller.
Create(u) ==
  /\ ~row.there /\ MayManage(u)
  /\ \E v \in Visibilities, e \in Environments, g \in BOOLEAN, h \in Hosts, d \in Databases :
       /\ check_own_scope(u, e, v, g)
       /\ row' = [there |-> TRUE, owner |-> u, visibility |-> v, environment |-> e, gateway |-> g,
                  host |-> h, database |-> d]
       /\ typed' = <<h, d>>
  /\ raced' = FALSE /\ pasted' = FALSE
  /\ UNCHANGED edit

\* Who sees a connection is its owner's decision, or an admin's; sharing a
\* private one is its owner's alone.
VisibilityAllowed_Admins(u, old, new) ==
  new.visibility # old.visibility => old.owner = u \/ "manage_all" \in Rights[u]
VisibilityAllowed(u, old, new) ==
  new.visibility # old.visibility =>
    /\ old.owner = u \/ "manage_all" \in Rights[u]
    /\ old.visibility = "private" => old.owner = u

\* check_environment_change.
EnvironmentAllowed(u, old, new) ==
  new.environment # old.environment => "qa" \in Rights[u]

\* The endpoint fields of the request that differ from the row.  An address is
\* compared by its host: a database in its path is not looked at.
Moved_HostOnly(old, new, path) == new.host # old.host
Moved(old, new, path) ==
  new.host # old.host \/ new.gateway # old.gateway \/ (new.database # old.database /\ ~path)

\* Saved credentials are never sent to a new endpoint; on QA, endpoint and
\* credentials need that environment's right.
EndpointAllowed(u, old, new, password, path) ==
  /\ Moved(old, new, path) => password
  /\ old.environment # "dev" /\ (Moved(old, new, path) \/ password) => "qa" \in Rights[u]

\* What a request may ask of the row it read.
Allowed(u, old, new, password, path) ==
  /\ may_access(u, old, "manage") /\ check_owns(u, old)
  /\ check_own_scope(u, old.environment, old.visibility, old.gateway)
  /\ check_own_scope(u, new.environment, new.visibility, new.gateway)
  /\ VisibilityAllowed(u, old, new) /\ EnvironmentAllowed(u, old, new)
  /\ EndpointAllowed(u, old, new, password, path)

\* PATCH /connections/{id}: one or two attributes, with or without the password.
Changed(old) ==
  {[old EXCEPT !.visibility = v] : v \in Visibilities} \cup
  {[old EXCEPT !.environment = e] : e \in Environments} \cup
  {[old EXCEPT !.gateway = p[1], !.host = p[2]] : p \in BOOLEAN \X Hosts} \cup
  {[old EXCEPT !.database = d] : d \in Databases}

\* What the request is about to write.
Asks(u, old, new, password, path) ==
  [open |-> TRUE, user |-> u, pasted |-> path,
   set |-> [f \in {g \in Fields : new[g] # old[g]} |-> new[f]],
   typed |-> IF password THEN <<new.host, new.database>> ELSE NoHost]

Edit(r, u) ==
  /\ row.there /\ ~edit[r].open /\ MayManage(u)
  /\ \E new \in Changed(row), password, path \in BOOLEAN :
       /\ path => new.database # row.database
       /\ new # row \/ password
       /\ Allowed(u, row, new, password, path)
       /\ edit' = [edit EXCEPT ![r] = Asks(u, row, new, password, path)]
  /\ raced' = (raced \/ \E x \in Requests \ {r} : edit[x].open)
  /\ UNCHANGED <<row, typed, pasted>>

\* update_connection's flush: the attributes that differ from the row it read.  The
\* request may also fail, and leave nothing.
Commit(r) ==
  /\ edit[r].open
  /\ \/ /\ row' = [f \in DOMAIN row |-> IF f \in DOMAIN edit[r].set THEN edit[r].set[f] ELSE row[f]]
        /\ typed' = IF edit[r].typed # NoHost THEN edit[r].typed ELSE typed
        /\ pasted' = (pasted \/ edit[r].pasted)
     \/ UNCHANGED <<row, typed, pasted>>
  /\ edit' = [edit EXCEPT ![r] = Idle]
  /\ UNCHANGED raced

\* DELETE /connections/{id}.
Delete(u) ==
  /\ row.there /\ MayManage(u)
  /\ may_access(u, row, "manage") /\ check_owns(u, row)
  /\ check_own_scope(u, row.environment, row.visibility, row.gateway)
  /\ \A r \in Requests : ~edit[r].open
  /\ row' = Gone /\ typed' = NoHost /\ raced' = FALSE /\ pasted' = FALSE
  /\ UNCHANGED edit

Next ==
  \/ \E u \in Users : Create(u) \/ Delete(u)
  \/ \E r \in Requests : (\E u \in Users : Edit(r, u)) \/ Commit(r)

Spec == Init /\ [][Next]_vars

-----------------------------------------------------------------------------
Uses(u) == row.there /\ may_access(u, row, "use")

\* The credentials of a private connection are used by its owner alone, and
\* nobody but the owner can open them to others, however edits overlap ("an admin
\* may manage it, but sharing it would let everyone use the owner's credentials").
OwnerAloneShares ==
  row.there /\ row'.there /\ row'.owner = row.owner =>
     \A u \in Users \ {row.owner} : Uses(u)' /\ ~Uses(u) =>
       \E r \in Requests : edit[r].open /\ ~edit'[r].open /\ edit[r].user = row.owner

\* Unless edits overlapped or an address with a path was entered, the saved
\* password is sent only where it was typed for ("saved credentials are never
\* sent to a new endpoint").
CredentialsStayPut ==
  row.there /\ ~raced /\ ~pasted => typed = <<row.host, row.database>>

\* Without tm1.write nobody comes to edit or delete a connection that is shared,
\* labelled QA or behind the gateway, not even their own after an admin changed
\* it, except through an edit begun before (check_own_scope).
OwnScopeHolds ==
  \A r \in Requests :
     edit[r].open /\ ~edit'[r].open /\ row' # row /\ "write" \notin Rights[edit[r].user] /\ ~raced =>
       /\ row.visibility = "private" /\ row.environment = "dev" /\ ~row.gateway
       /\ row'.visibility = "private" /\ row'.environment = "dev" /\ ~row'.gateway
=============================================================================

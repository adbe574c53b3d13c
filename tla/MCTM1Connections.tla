-------------------------- MODULE MCTM1Connections --------------------------
(***************************************************************************)
(* TM1 connections for TLC, in one instance: requests that use one         *)
(* connection and overlap freely or end before the next begins             *)
(* (TM1Connections), and edits of a saved connection (ConnectionRights).   *)
(***************************************************************************)
EXTENDS TM1Connections, TLC

CONSTANTS Users, Rights,                \* ConnectionRights
          Member, Developer, Manager    \* its users

VARIABLES part,   \* what moves in this behaviour
          saved, typed, editing, raced, pasted

Access == INSTANCE ConnectionRights
            WITH row <- saved, edit <- editing, Requests <- Callers, Hosts <- Sessions,
                 Databases <- Callers, NoHost <- None

ConnectionGrants ==
  (Member :> {"own"}) @@ (Developer :> {"write"}) @@ (Manager :> {"write", "manage_all", "qa"})

ASSUME NoEndpointAssumption == None \notin Sessions \X Callers

accessVars == <<saved, typed, editing, raced, pasted>>
MCvars == <<part, vars, accessVars>>

MCInit ==
  /\ part \in {"overlap", "alone", "access"}
  /\ Init /\ Access!Init

MCNext ==
  \/ part = "overlap" /\ UNCHANGED <<part, accessVars>> /\ Next
  \/ part = "alone" /\ UNCHANGED <<part, accessVars>> /\ SerialNext
  \/ part = "access" /\ UNCHANGED <<part, vars>> /\ Access!Next

MCSpec == MCInit /\ [][MCNext]_MCvars

\* The sets of the two components have the same members in the model, so that the
\* same permutations serve both.
Interchangeable == Permutations(Callers) \cup Permutations(Sessions)

\* One at a time, a request never works with a client of an older configuration than
\* the one it read (update_connection), and every session TM1 holds for us is cached or
\* on its way out (_logout_in_background).
ServedAfreshAlone == part = "alone" => ServedAfresh

\* A saved password is sent only where it was typed for, through any sequence of edits
\* that do not overlap (update_connection).
CredentialsStayPut == part = "access" => Access!TypeOK /\ Access!CredentialsStayPut

\* Nobody but its owner opens a private connection to others, and
\* tm1.connections.own reaches private, direct DEV connections only, also when an
\* admin changed the connection meanwhile (update_connection, _check_own_scope).
RightsBoundEdits == [][part = "access" => Access!OwnerAloneShares /\ Access!OwnScopeHolds]_accessVars
=============================================================================

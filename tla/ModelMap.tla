------------------------------ MODULE ModelMap ------------------------------
(***************************************************************************)
(* The dependency map of one TM1 connection: tm1_objects and               *)
(* tm1_relationships, rebuilt by an extraction that reads the server while *)
(* people go on editing it, patched after every process change PA-Copilot  *)
(* makes, and the history of extractions that others read.                 *)
(*                                                                         *)
(* An extraction is one transaction.  It deletes the map first, so another *)
(* extraction or a patch that comes to those rows waits for its end.       *)
(* Cubes always exist; views, subsets and hierarchies hang on cubes and    *)
(* dimensions and are left out; only literal names are modelled.           *)
(***************************************************************************)
EXTENDS Naturals, FiniteSets, Sequences

CONSTANTS Cubes, Processes, Chores,
          Gone,        \* not on the server
          MaxEdits,    \* bound: changes of the server followed
          MaxRecords   \* bound: extractions followed

Objects == Cubes \cup Processes \cup Chores

VARIABLES code,      \* external: per object on the server, the objects it names
          map,       \* the committed map: nodes and edges
          reader,    \* the extraction that reads the server
          waiting,   \* the extraction that waits for its rows
          patches,   \* process changes applied, the map not yet patched
          records,   \* tm1_extractions, oldest first
          edits,     \* changes of the server so far
          behind     \* history: objects the map may be behind on

mapVars == <<code, map, reader, waiting, patches, records, edits, behind>>

\* What the code of an object can name: rules cubes, TI cubes and processes, chores
\* processes.  What a process calls itself makes no edge.
Named(o) ==
  CASE o \in Cubes -> {}
    [] o \in Processes -> (Cubes \cup Processes) \ {o}
    [] OTHER -> Processes

Idle == [phase |-> "idle"]
Empty == [nodes |-> {}, edges |-> {}]

Maps == [nodes : SUBSET Objects, edges : SUBSET (Objects \X Objects)]

TypeOK ==
  /\ \A o \in Objects : code[o] = Gone \/ code[o] \subseteq Named(o)
  /\ map \in Maps
  /\ map.edges \subseteq map.nodes \X map.nodes
  /\ reader.phase \in {"idle", "cubes", "processes"}
  /\ waiting.phase \in {"idle", "cubes"}
  /\ records \in Seq([status : {"succeeded", "failed"}, first : BOOLEAN, changed : BOOLEAN])
  /\ patches \subseteq [name : Processes, deleted : BOOLEAN]
  /\ behind \subseteq Objects

Init ==
  /\ code \in [Objects -> {Gone} \cup SUBSET (Cubes \cup Processes)]
  /\ \A o \in Objects : code[o] # Gone => code[o] \subseteq Named(o)
  /\ \A o \in Objects \ Processes : code[o] # Gone
  /\ map = Empty
  /\ reader = Idle /\ waiting = Idle
  /\ patches = {} /\ records = <<>> /\ edits = 0 /\ behind = {}

Out(o) == {e \in map.edges : e[1] = o}
Touching(o) == {e \in map.edges : o \in {e[1], e[2]}}

\* An edge for every name the map has an object for.
process_edges(o, names, nodes) == {o} \X (names \cap nodes)

-----------------------------------------------------------------------------
(***************************************************************************)
(* The server changes, through other tools or through PA-Copilot.          *)
(***************************************************************************)
Rewritten(o, c) ==
  /\ edits < MaxEdits
  /\ edits' = edits + 1
  /\ c # code[o]
  /\ c # Gone => c \subseteq Named(o)
  /\ code' = [code EXCEPT ![o] = c]
  /\ behind' = behind \cup {o}
  /\ reader' = IF reader = Idle THEN Idle ELSE [reader EXCEPT !.edited = @ \cup {o}]

EditOutside(o, c) ==
  /\ Rewritten(o, c)
  /\ c = Gone => o \in Processes
  /\ UNCHANGED <<map, waiting, patches, records>>

\* A change of a process is executed or rolled back; the patch of the map follows.
ApplyChange(p, c) ==
  /\ Rewritten(p, c)
  /\ patches' = patches \cup {[name |-> p, deleted |-> c = Gone]}
  /\ UNCHANGED <<map, waiting, records>>

(***************************************************************************)
(* refresh_process: only the edges out of the process are drawn again.  A  *)
(* process that is new to the map gets no edge from those that call it, so *)
(* these are behind until the next extraction.                             *)
(***************************************************************************)
Dropped(p) == [nodes |-> map.nodes \ {p}, edges |-> map.edges \ Touching(p)]
refresh_process(p) ==
  [nodes |-> map.nodes \cup {p},
   edges |-> (map.edges \ Out(p)) \cup process_edges(p, code[p], map.nodes)]

Callers(p) == {o \in Objects : code[o] # Gone /\ p \in code[o]}

Refresh(r) ==
  /\ r \in patches
  /\ reader = Idle
  /\ patches' = patches \ {r}
  /\ IF map = Empty
     THEN UNCHANGED <<map, behind>>
     ELSE \/ /\ r.deleted
             /\ map' = Dropped(r.name)
             /\ behind' = IF code[r.name] = Gone THEN behind \ {r.name} ELSE behind \cup {r.name}
          \/ /\ ~r.deleted /\ code[r.name] # Gone
             /\ map' = refresh_process(r.name)
             /\ behind' = (behind \ {r.name})
                            \cup (IF r.name \in map.nodes THEN {} ELSE Callers(r.name))
  /\ UNCHANGED <<code, reader, waiting, records, edits>>

\* Best effort: TM1 does not answer, the process is gone, or the rows the patch
\* refers to were deleted by an extraction it waited for.
RefreshFails(r) ==
  /\ r \in patches
  /\ patches' = patches \ {r}
  /\ UNCHANGED <<code, map, reader, waiting, records, edits, behind>>

-----------------------------------------------------------------------------
(***************************************************************************)
(* Extractions, asked for by a user or by the daily refresh; the latter    *)
(* only of connections that have a map.                                    *)
(***************************************************************************)
Started(scheduled) ==
  [phase |-> "cubes", scheduled |-> scheduled, before |-> map, edited |-> {}]

StartExtraction(scheduled) ==
  /\ scheduled => map # Empty
  /\ Len(records) < MaxRecords
  /\ \/ /\ reader = Idle
        /\ reader' = Started(scheduled)
        /\ UNCHANGED waiting
     \/ /\ reader # Idle /\ waiting = Idle
        /\ waiting' = Started(scheduled)
        /\ UNCHANGED reader
  /\ UNCHANGED <<code, map, patches, records, edits, behind>>

\* Cubes have been read; the processes are listed, then read one by one.
ListProcesses ==
  /\ reader.phase = "cubes"
  /\ reader' = [phase |-> "processes", scheduled |-> reader.scheduled, before |-> reader.before,
                edited |-> reader.edited,
                todo |-> {p \in Processes : code[p] # Gone}, read |-> [p \in {} |-> {}]]
  /\ UNCHANGED <<code, map, waiting, patches, records, edits, behind>>

ReadProcess(p) ==
  /\ reader.phase = "processes"
  /\ p \in reader.todo
  /\ code[p] # Gone
  /\ reader' = [reader EXCEPT
       !.todo = @ \ {p},
       !.read = [q \in DOMAIN @ \cup {p} |-> IF q = p THEN code[p] ELSE @[q]]]
  /\ UNCHANGED <<code, map, waiting, patches, records, edits, behind>>

\* Mutant: edges are drawn while the list of processes is read.
extracted_OnePass ==
  LET read == DOMAIN reader.read
      nodes == Cubes \cup read \cup Chores
      first == CHOOSE p \in read \cup {Gone} : p \in read \/ read = {} IN
  [nodes |-> nodes,
   edges |-> (UNION {process_edges(p, reader.read[p],
                                   IF p = first THEN Cubes ELSE nodes) : p \in read})
               \cup (UNION {process_edges(h, code[h], nodes) : h \in Chores})]

\* The two passes: every process is a node before any edge is drawn.
extracted ==
  LET nodes == Cubes \cup DOMAIN reader.read \cup Chores IN
  [nodes |-> nodes,
   edges |-> (UNION {process_edges(p, reader.read[p], nodes) : p \in DOMAIN reader.read})
               \cup (UNION {process_edges(h, code[h], nodes) : h \in Chores})]

diff_graphs(before, after) == [first |-> before.nodes = {}, changed |-> before # after]

Succeeded(before, after) ==
  LET changes == diff_graphs(before, after) IN
  [status |-> "succeeded", first |-> changes.first, changed |-> changes.changed]

Failed == [status |-> "failed", first |-> FALSE, changed |-> FALSE]

(***************************************************************************)
(* The chores are read, the extraction commits.  One that waited goes on   *)
(* from the first of its two deletions: it waits there if there were       *)
(* relationships to delete, and then deletes the new map and rebuilds it;  *)
(* if there were none, its objects collide with those of the new map and   *)
(* it fails.                                                               *)
(***************************************************************************)
FinishExtraction ==
  /\ reader.phase = "processes" /\ reader.todo = {}
  /\ Len(records) < MaxRecords
  /\ map' = extracted
  /\ behind' = reader.edited
  /\ records' = LET done == Append(records, Succeeded(reader.before, map')) IN
                IF waiting # Idle /\ map.edges = {} /\ waiting.scheduled /\ Len(done) < MaxRecords
                THEN Append(done, Failed)
                ELSE done
  /\ reader' = IF map.edges # {} THEN waiting ELSE Idle
  /\ waiting' = Idle
  /\ UNCHANGED <<code, patches, edits>>

\* TM1 refuses or does not answer, or a listed process is gone: the transaction is
\* rolled back; the daily refresh records that it tried.
LeftByFailure == map

FailExtraction ==
  /\ reader # Idle
  /\ map' = LeftByFailure
  /\ records' = IF reader.scheduled /\ Len(records) < MaxRecords
                THEN Append(records, Failed)
                ELSE records
  /\ reader' = waiting
  /\ waiting' = Idle
  /\ UNCHANGED <<code, patches, edits, behind>>

Next ==
  \/ \E o \in Objects \ Cubes, c \in {Gone} \cup SUBSET (Cubes \cup Processes) : EditOutside(o, c)
  \/ \E p \in Processes, c \in {Gone} \cup SUBSET (Cubes \cup Processes) : ApplyChange(p, c)
  \/ \E r \in patches : Refresh(r) \/ RefreshFails(r)
  \/ \E scheduled \in BOOLEAN : StartExtraction(scheduled)
  \/ ListProcesses
  \/ \E p \in Processes : ReadProcess(p)
  \/ FinishExtraction
  \/ FailExtraction

Spec == Init /\ [][Next]_mapVars

-----------------------------------------------------------------------------
\* The map differs from the server only in objects edited since it was read and not
\* patched, and in callers of a process that a patch brought back: everything else
\* has its place and every dependency between objects of the map is drawn
\* (extract_metadata, refresh_process).
InStep ==
  map # Empty =>
    \A o \in Objects \ behind :
      /\ o \in map.nodes <=> code[o] # Gone
      /\ o \in map.nodes => Out(o) = process_edges(o, code[o], map.nodes)

\* A connection that was mapped stays mapped, through failed and overlapping
\* extractions: without objects it would drop out of the daily refresh
\* (refresh_due_connections).
StaysMapped == [][map # Empty => map' # Empty]_map

\* Extractions the incident investigation, the monitoring rules and the dashboard ask for.
Consulted == {i \in DOMAIN records : records[i].status = "success"}

\* Every recorded difference between two extractions is among those that an
\* investigation, a model_change rule and the dashboard consult.
ModelChangesAreSeen ==
  \A i \in DOMAIN records :
    records[i].status = "succeeded" /\ ~records[i].first /\ records[i].changed => i \in Consulted
=============================================================================

---------------------------- MODULE MCAssistant ----------------------------
(***************************************************************************)
(* The assistant's side of the backend: chat turns with their quota and    *)
(* tools, the tasks of a conversation, monitoring rules, the team's work   *)
(* items with their documents, engineering memory, the knowledge base, the *)
(* dependency map of a model and walks of it.  They do not depend on one   *)
(* another: `part` is the one that moves in a behaviour.  Of team work to  *)
(* knowledge, `alone` says whether requests come one at a time.            *)
(***************************************************************************)
EXTENDS Naturals, FiniteSets, TLC

CONSTANTS None,
          Turns, Conversations, Tools, Granted, NoConv, Limits, Reserve, MaxRounds, Window,  \* ChatTurns
          Tasks, TaskTurns, Changes, Findings,                                               \* TaskMemory
          Events, Checks, MaxTime, MaxValue, MaxAlerts, MaxErrors,                           \* MonitorRules
          Users, Owner, Items, Sessions,                                                     \* TeamWork
          Titles, MaxDocuments, MaxVersion,                                                  \* WorkDocuments
          Vouchers, Requests, MaxRows,                                                       \* EngineeringMemory
          Cubes, Processes, MaxSuspects,                                                     \* IncidentSuspects
          Docs, Pages, TopK,                                                                 \* Knowledge
          ChunkSize, Overlap, Separator, MaxBlocks, MaxLength,                               \* Chunking
          Chores, MaxEdits, MaxRecords,                                                      \* ModelMap
          MaxDepth, MaxNodes                                                                 \* ImpactAnalysis

VARIABLES part,
          limit, turn, inflight, live, messages, usage, trail, calls, ran,
          task, change, folding, page, torn,
          kind, alone, now, happened, shown, late, value, rule, alert, check, mails, again, cut, down,
          item, link, shared, applied, looks, session,
          document, saving,
          memory, request,
          transactional, row, chunk, leaf, image, asking, abandoned,
          code, map, reader, waiting, patches, records, edits, behind,
          drawn, start, direction, queue, found

Chat == INSTANCE ChatTurns
Memory == INSTANCE TaskMemory WITH turn <- folding, Turns <- TaskTurns
Monitor == INSTANCE MonitorRules
Team == INSTANCE TeamWork
Documents == INSTANCE WorkDocuments
Lore == INSTANCE EngineeringMemory
Suspects == INSTANCE IncidentSuspects
Base == INSTANCE Knowledge WITH page <- leaf, request <- asking, torn <- abandoned
Cutting == INSTANCE Chunking
Health == INSTANCE ModelHealth
Drafts == INSTANCE ProcessDrafts
Map == INSTANCE ModelMap WITH Cubes <- {}, Processes <- Tasks, Gone <- None

\* None is the name of nothing, and what there is is finite.
ASSUME NoneAssumption == None \notin Tasks \cup Turns \cup Users \cup Memory!Rows \cup Nat
ASSUME FiniteAssumption ==
  /\ IsFiniteSet(Turns) /\ IsFiniteSet(Tasks) /\ IsFiniteSet(TaskTurns) /\ IsFiniteSet(Titles) /\ IsFiniteSet(Requests)
  /\ IsFiniteSet(Sessions) /\ Sessions # {}
ASSUME BoundsAssumption ==
  /\ Limits \subseteq Nat /\ Reserve \in Nat /\ MaxRounds \in Nat /\ Window \in Nat
  /\ MaxTime \in Nat \ {0} /\ MaxValue \in Nat \ {0} /\ MaxErrors \in Nat
  /\ MaxDocuments \in Nat /\ MaxVersion \in Nat /\ MaxRows \in Nat
  /\ TopK \in Nat

\* A model always has objects that are no processes (its control cubes).
ASSUME ChoresAssumption == Chores # {} /\ Chores \cap Tasks = {}

\* A small model: two cubes that share a dimension, two processes and a chore.
SmallModel ==
  {<<"Sales", "uses_dimension", "Month">>, <<"Plan", "uses_dimension", "Month">>,
   <<"Sales", "references_cube", "Plan">>, <<"Plan", "references_cube", "Sales">>,
   <<"Load", "reads_cube", "Sales">>, <<"Load", "updates_cube", "Sales">>,
   <<"Load", "references_dimension", "Month">>, <<"Nightly", "runs_process", "Load">>,
   <<"Copy", "calls_process", "Load">>, <<"Load", "calls_process", "Copy">>}

Impact == INSTANCE ImpactAnalysis WITH Relationships <- SmallModel

chatVars == <<limit, turn, inflight, live, messages, usage, trail, calls, ran>>
memoryVars == <<task, change, folding, page, torn>>
monitorVars == <<kind, alone, now, happened, shown, late, value, rule, alert, check, mails, again, cut, down>>
teamVars == <<item, link, shared, applied, looks, session>>
documentVars == <<document, saving>>
loreVars == <<memory, request>>
baseVars == <<transactional, row, chunk, leaf, image, asking, abandoned>>
mapVars == <<code, map, reader, waiting, patches, records, edits, behind>>
walkVars == <<drawn, start, direction, queue, found>>
MCvars == <<part, chatVars, memoryVars, monitorVars, teamVars, documentVars, loreVars, baseVars,
            mapVars, walkVars>>

\* A component that does not move has one initial state.
MCInit ==
  /\ part \in {"tables", "chat", "memory", "monitor", "team", "documents", "lore", "base", "map", "impact"}
  /\ Chat!Init /\ Memory!Init /\ Monitor!Init /\ Team!Init /\ Documents!Init /\ Lore!Init /\ Base!Init
  /\ part # "chat" => limit = 1
  /\ part # "monitor" => kind = "events" /\ rule.status = "active"
  /\ part \in {"tables", "chat", "memory", "map", "impact"} => alone
  /\ part # "base" => transactional
  /\ IF part = "map" THEN Map!Init
     ELSE /\ code = <<>> /\ map = <<>> /\ reader = <<>> /\ waiting = <<>> /\ patches = {}
          /\ records = <<>> /\ edits = 0 /\ behind = {}
  /\ IF part = "impact" THEN Impact!Init
     ELSE drawn = {} /\ start = None /\ direction = "incoming" /\ queue = <<>> /\ found = <<>>

OnlyChat == part = "chat" /\ UNCHANGED <<part, memoryVars, monitorVars, teamVars, documentVars, loreVars, baseVars, mapVars, walkVars>>
OnlyMemory == part = "memory" /\ UNCHANGED <<part, chatVars, monitorVars, teamVars, documentVars, loreVars, baseVars, mapVars, walkVars>>
OnlyMonitor == part = "monitor" /\ UNCHANGED <<part, chatVars, memoryVars, teamVars, documentVars, loreVars, baseVars, mapVars, walkVars>>
OnlyTeam == part = "team" /\ UNCHANGED <<part, chatVars, memoryVars, monitorVars, documentVars, loreVars, baseVars, mapVars, walkVars>>
OnlyDocuments == part = "documents" /\ UNCHANGED <<part, chatVars, memoryVars, monitorVars, teamVars, loreVars, baseVars, mapVars, walkVars>>
OnlyLore == part = "lore" /\ UNCHANGED <<part, chatVars, memoryVars, monitorVars, teamVars, documentVars, baseVars, mapVars, walkVars>>
OnlyBase == part = "base" /\ UNCHANGED <<part, chatVars, memoryVars, monitorVars, teamVars, documentVars, loreVars, mapVars, walkVars>>
OnlyMap == part = "map" /\ UNCHANGED <<part, chatVars, memoryVars, monitorVars, teamVars, documentVars, loreVars, baseVars, walkVars>>
OnlyImpact == part = "impact" /\ UNCHANGED <<part, chatVars, memoryVars, monitorVars, teamVars, documentVars, loreVars, baseVars, mapVars>>

MCNext ==
  \/ OnlyChat /\ Chat!Next
  \/ OnlyMemory /\ Memory!Next
  \/ OnlyMonitor /\ Monitor!Next
  \/ OnlyTeam /\ Team!Next /\ (alone => Team!Serialised')
  \/ OnlyDocuments /\ Documents!Next /\ (alone => Documents!Serialised')
  \/ OnlyLore /\ Lore!Next /\ (alone => Lore!Serialised')
  \/ OnlyBase /\ Base!Next /\ (alone => Base!Serialised')
  \/ OnlyMap /\ Map!Next
  \/ OnlyImpact /\ Impact!Next

MCSpec == MCInit /\ [][MCNext]_MCvars

\* The model gives sets of different components the same two members, so that
\* two groups of permutations serve them all.
MCSymmetry == Permutations(Turns) \cup Permutations(Tasks)

-----------------------------------------------------------------------------
\* A turn is charged at most once and for what it asked, the reservations are those of
\* the turns in flight and bound a burst at the edge of the limit, what tools did is on
\* record when the model is asked again, and the model sees a user's message first
\* (_check_usage_quota, _record_interrupted_turn, _release_db, _build_history).
TurnsAreAccounted ==
  part = "chat" =>
    /\ Chat!TypeOK /\ Chat!ChargedOnce /\ Chat!ReservationsAreTurns /\ Chat!BurstIsBounded
    /\ Chat!TrailIsDurable /\ Chat!UserSpeaksFirst

\* What a task says of a change is true of the change's record, and a task that waits
\* for approval has a drafted change to approve (refresh_actions, end_turn).
TasksAreTrue == part = "memory" => Memory!TypeOK /\ Memory!RecordsAreTrue /\ Memory!ApprovalIsPending

\* An event between two checks of a rule is not missed, subscribers are mailed once
\* about an occurrence, and an unreachable server is said once (check_rule,
\* run_due_monitors, notify).
AlertsAreExact ==
  part = "monitor" => Monitor!TypeOK /\ Monitor!NoneMissed /\ Monitor!MailedOnce /\ Monitor!DownSaidOnce

\* A work item never shows a viewer what they may not read now (timeline); documents
\* exceed their limit by no more than the saves that overlapped; the history of a memory
\* has every version from the first.  One request at a time, a reference names one item
\* and only a memory's latest version is told.
TeamIsToldRight ==
  /\ part = "team" => Team!TypeOK /\ Team!NeverWidens /\ (alone => Team!OneReference)
  /\ part = "documents" => Documents!TypeOK /\ Documents!DocumentsBounded
  /\ part = "lore" => Lore!TypeOK /\ Lore!HistoryIsWhole /\ (alone => Lore!OneVoice)

\* What search can find is exactly the documents indexed whole, page rows and stored
\* images go together, and an answer says when it rests on keyword matches
\* (upload_document, delete_document, SearchOutcome).  One request at a time, one file
\* is one document, and every page an answer cites was shown to the model, under that
\* number (ask).
SearchIsHonest ==
  part = "base" =>
    /\ Base!TypeOK /\ Base!SearchableIffCompleted /\ Base!RowsAndImages /\ Base!SaysDegraded
    /\ alone => Base!OneCopy /\ Base!CitedAreSeen

\* The map of a model differs from the server only in what was edited since it was read
\* and not patched, and in callers of a process a patch brought back (extract_metadata,
\* refresh_process).  A walk of it reports every object within its depth at its true
\* distance and what a process writes, and whether an impact must be acknowledged does
\* not depend on the order of the rows (_traverse, analyze_impact,
\* needs_acknowledgement).
MapIsTrue ==
  /\ part = "map" => Map!TypeOK /\ Map!InStep
  /\ part = "impact" =>
       Impact!TypeOK /\ Impact!ReachesAll /\ Impact!OwnWritesCount /\ Impact!AcknowledgementIsSettled

\* Functions of one input, over all inputs within the bounds.  Every change that could
\* have altered the reported numbers is a suspect, suspects are cut from the least
\* likely end, and a rollback is suggested exactly where it can be done (gather).  A
\* document's characters are all in its chunks, in order, and no chunk is too long
\* (chunk_text).  No single category sinks a model's score and no single run decides on
\* a regression (compute, report).  A tier that is used is enabled (routing.decide), and
\* the cache a request wrote is found by the next one (_apply_message_breakpoints).  A
\* copy of a process is its source to the last field, an update changes what it names
\* and nothing else, and code the assistant wrote is marked, once, whichever tab it is
\* in (copy_content, _build_process, mark_ai_generated).
TablesHold ==
  part = "tables" =>
    /\ Suspects!NothingNearMissed /\ Suspects!RollbackIsPossible /\ Suspects!TopIsKept
    /\ Cutting!ChunksFit /\ Cutting!NothingLost
    /\ Health!NoCategorySinksTheModel /\ Health!OneOutlierDecidesNothing
    /\ Chat!RoutesHold /\ Chat!CacheIsReached
    /\ Drafts!CopyIsExact /\ Drafts!UpdateChangesWhatItNames /\ Drafts!AssistantCodeIsMarked

\* No step takes back what was recorded or decided: a turn or an edit removes nothing
\* from a task (_locked), an answered occurrence is never raised again (_raise), the
\* assistant is told only what a person with the right stands for (create, decide), a
\* mapped connection stays mapped (run_extraction).  One request at a time, every text
\* of a document has a version of its own (save) and a rejected or archived memory is
\* never told again (archive).
NothingTakenBack ==
  [][/\ part = "memory" => Memory!NothingErased
     /\ part = "monitor" => Monitor!AlertsOnce
     /\ part = "documents" /\ alone => Documents!VersionsRise
     /\ part = "lore" => Lore!PeopleVouch /\ (alone => Lore!DecidedForGood)
     /\ part = "map" /\ map.nodes # {} => map'.nodes # {}]_MCvars
=============================================================================

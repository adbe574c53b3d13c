----------------------------- MODULE TeamProofs -----------------------------
(***************************************************************************)
(* The team's parts of MCAssistant: work items and their documents, the    *)
(* engineering memory and the knowledge base, for any constants; and what  *)
(* no step of any part takes back.                                         *)
(***************************************************************************)
EXTENDS AssistantProofs

-----------------------------------------------------------------------------
(***************************************************************************)
(* The team's work items (TeamWork).                                       *)
(***************************************************************************)

\* Two members of a set that has at most one are the same.
LEMMA AtMostOne ==
  ASSUME NEW S, IsFiniteSet(S), Cardinality(S) <= 1, NEW x \in S, NEW y \in S
  PROVE  x = y
<1> SUFFICES ASSUME x # y PROVE FALSE
  OBVIOUS
<1>1. Cardinality({x, y}) = 2
  <2>1. IsFiniteSet({x}) /\ Cardinality({x}) = 1
    BY FS_Singleton, Zenon
  <2>2. Cardinality({x} \cup {y}) = Cardinality({x}) + 1
    BY <2>1, FS_AddElement, Zenon
  <2>3. {x} \cup {y} = {x, y}
    OBVIOUS
  <2> QED
    BY <2>1, <2>2, <2>3
<1>2. Cardinality({x, y}) <= Cardinality(S)
  <2>1. {x, y} \in SUBSET S
    OBVIOUS
  <2> QED
    BY <2>1, FS_Subset
<1>3. Cardinality(S) \in Nat
  BY FS_CardinalityType
<1> QED
  BY <1>1, <1>2, <1>3

\* One request at a time creates an item while there is none.
TeamInv ==
  /\ Team!TypeOK
  /\ alone =>
       /\ \A s, t \in Sessions : session[s] # Team!Idle /\ session[t] # Team!Idle => s = t
       /\ \A s \in Sessions : session[s] # Team!Idle => Team!There = {}
       /\ \A i, j \in Team!There : i = j

\* A work item shows a viewer what they may read now, whatever was linked (timeline).
LEMMA TimelineNeverWidens == Team!TypeOK => Team!NeverWidens
<1> SUFFICES ASSUME Team!TypeOK, NEW u \in Users, NEW i \in Team!There
             PROVE  /\ "conversation" \in Team!Timeline(u, i) => shared["conversation"] = "organization" \/ u = Owner
                    /\ Team!Timeline(u, i) \cap {"change", "investigation"} # {} => shared["server"] = "organization" \/ u = Owner
                    /\ Team!Progress(u, i).approval => shared["server"] # "gone" /\ applied # "draft"
  BY DEF Team!NeverWidens
<1>1. ASSUME NEW r \in Team!Timeline(u, i)
      PROVE  (r \in Team!Records /\ Team!Available(u, r)) \/ (r = "investigation" /\ Team!MayUse(u))
  <2>1. CASE r \in {l[2] : l \in {k \in link : k[1] = i /\ Team!Available(u, k[2])}}
    <3>1. PICK k \in link : r = k[2] /\ Team!Available(u, k[2])
      BY <2>1
    <3> QED
      BY <3>1 DEF Team!TypeOK
  <2>2. CASE r \in (IF Team!Investigations(u, i) # {} THEN {"investigation"} ELSE {})
    BY <2>2 DEF Team!Investigations
  <2> QED
    BY <2>1, <2>2 DEF Team!Timeline
<1>2. "conversation" \in Team!Timeline(u, i) => Team!CanReadConversation(u)
  BY <1>1 DEF Team!Available, Team!Records
<1>3. Team!Timeline(u, i) \cap {"change", "investigation"} # {} => Team!MayUse(u)
  BY <1>1 DEF Team!Available, Team!Records
<1>4. Team!Progress(u, i).approval => "change" \in Team!Timeline(u, i) /\ applied # "draft"
  BY Zenon DEF Team!Progress
<1> QED
  BY <1>2, <1>3, <1>4 DEF Team!CanReadConversation, Team!MayUse

\* Counting inside the instance is counting.
LEMMA TeamCounts == \A S : Team!Cardinality(S) = Cardinality(S)
BY DEF Team!Cardinality, Cardinality

\* The invariant is the one TeamIsToldRight asks of work items.
LEMMA TeamSays == TeamInv => Team!TypeOK /\ Team!NeverWidens /\ (alone => Team!OneReference)
<1> SUFFICES ASSUME TeamInv PROVE Team!NeverWidens /\ (alone => Cardinality(Team!There) <= 1)
  BY TeamCounts DEF TeamInv, Team!OneReference
<1>1. ASSUME alone PROVE Cardinality(Team!There) <= 1
  <2>1. CASE Team!There = {}
    BY <2>1, FS_EmptySet
  <2>2. CASE Team!There # {}
    <3>1. PICK i : Team!There = {i}
      BY <1>1, <2>2 DEF TeamInv
    <3>2. Cardinality({i}) = 1
      BY FS_Singleton
    <3> QED
      BY <3>1, <3>2
  <2> QED
    BY <2>1, <2>2
<1> QED
  BY <1>1, TimelineNeverWidens DEF TeamInv

\* A team without work items satisfies the invariant.
LEMMA TeamInit == Team!Init => TeamInv
BY DEF Team!Init, TeamInv, Team!TypeOK, Team!Rows, Team!Nothing, Team!There, Team!Idle, Team!Sources

\* There is a session at a time when requests come one by one.
LEMMA OneSession ==
  ASSUME alone, Team!Serialised'
  PROVE  \A s, t \in Sessions : session'[s] # Team!Idle /\ session'[t] # Team!Idle => s = t
<1> DEFINE open == {s \in Sessions : session'[s] # Team!Idle}
<1>1. Cardinality(open) <= 1
  BY TeamCounts DEF Team!Serialised, Team!Idle
<1>2. IsFiniteSet(open)
  BY FiniteAssumption, FS_Subset
<1> QED
  BY <1>1, <1>2, AtMostOne

\* Alone, an item is created only when no other has its reference.
LEMMA CreateItemStep ==
  ASSUME TeamInv, alone' = alone, alone => Team!Serialised', NEW s \in Sessions,
         \/ \E u \in Users, reference \in Team!Spellings, kk \in {"work", "incident"} :
              Team!BeginCreate(s, u, reference, kk)
         \/ Team!CommitCreate(s)
  PROVE  TeamInv'
<1>1. CASE \E u \in Users, reference \in Team!Spellings, kk \in {"work", "incident"} :
              Team!BeginCreate(s, u, reference, kk)
  <2>1. PICK u \in Users, reference \in Team!Spellings, kk \in {"work", "incident"} :
          Team!BeginCreate(s, u, reference, kk)
    BY <1>1
  <2>2. /\ UNCHANGED <<item, link, shared, applied, looks>> /\ Team!There = {}
        /\ session' = [session EXCEPT ![s] = [op |-> "create", user |-> u, reference |-> reference, kind |-> kk]]
    BY <2>1 DEF Team!BeginCreate, Team!Free, Team!Open
  <2>3. Team!TypeOK'
    BY <2>2 DEF TeamInv, Team!TypeOK
  <2>4. Team!There' = {}
    BY <2>2 DEF Team!There
  <2> QED
    BY <2>3, <2>4, OneSession DEF TeamInv, Team!Idle
<1>2. CASE Team!CommitCreate(s)
  <2>1. /\ session[s].op = "create" /\ session' = [session EXCEPT ![s] = Team!Idle]
        /\ UNCHANGED <<link, shared, applied>>
        /\ \/ UNCHANGED <<item, looks>>
           \/ \E i \in Items \ Team!There :
                /\ item' = [item EXCEPT ![i] = [there |-> TRUE, reference |-> session[s].reference,
                                                kind |-> session[s].kind, status |-> "open"]]
                /\ looks' \subseteq looks \cup {i}
    BY <1>2 DEF Team!CommitCreate, Team!Close
  <2>2. session[s].reference \in Team!Spellings /\ session[s].kind \in {"work", "incident"} /\ session[s] # Team!Idle
    BY <2>1 DEF TeamInv, Team!TypeOK, Team!Idle
  <2>3. Team!TypeOK'
    <3>1. PICK n : n = [there |-> TRUE, reference |-> session[s].reference,
                        kind |-> session[s].kind, status |-> "open"]
      BY Zenon
    <3>2. n \in Team!Rows
      BY <2>2, <3>1, Zenon DEF Team!Rows, Team!STATUSES
    <3>3. \/ UNCHANGED <<item, looks>>
          \/ \E i \in Items \ Team!There : item' = [item EXCEPT ![i] = n] /\ looks' \subseteq looks \cup {i}
      BY <2>1, <3>1
    <3> QED
      BY <2>1, <3>2, <3>3 DEF TeamInv, Team!TypeOK
  <2>4. alone => \A t \in Sessions : session'[t] = Team!Idle
    BY <2>1, <2>2 DEF TeamInv, Team!TypeOK
  <2>5. alone => \A i, j \in Team!There' : i = j
    BY <2>1, <2>2 DEF TeamInv, Team!TypeOK, Team!There
  <2>6. Team!Idle' = Team!Idle
    BY DEF Team!Idle
  <2> QED
    BY <2>3, <2>4, <2>5, <2>6 DEF TeamInv
<1> QED
  BY <1>1, <1>2

\* What is done with an item there is, and with the records themselves, makes no item.
LEMMA OtherTeamStep ==
  ASSUME TeamInv, alone' = alone,
         \/ Team!OnItems \/ Team!Move
         \/ \E source \in Team!Sources, to \in {"private", "organization", "gone"} : Team!Reshare(source, to)
  PROVE  TeamInv'
<1>1. /\ session' = session
      /\ link' \subseteq Items \X Team!Records /\ looks' \subseteq Items
      /\ shared' \in [Team!Sources -> {"private", "organization", "gone"}]
      /\ applied' \in {"draft", "executed", "rolled_back"}
      /\ \/ item' = item
         \/ \E i \in Team!There, st \in Team!STATUSES : item' = [item EXCEPT ![i].status = st]
  <2>1. CASE Team!OnItems
    <3>1. Team!There \subseteq Items
      BY DEF Team!There
    <3>2. CASE \E i \in Team!There : Team!Update(i)
      BY <3>2, Zenon DEF Team!Update, TeamInv, Team!TypeOK
    <3>3. CASE \E i \in Team!There, u \in Users : Team!Investigate(u, i)
      BY <3>1, <3>3 DEF Team!Investigate, TeamInv, Team!TypeOK
    <3>4. CASE \E i \in Team!There, u \in Users, record \in Team!Records : Team!Link(u, i, record)
      BY <3>1, <3>4 DEF Team!Link, TeamInv, Team!TypeOK
    <3>5. CASE \E l \in link : Team!Unlink(l)
      BY <3>5 DEF Team!Unlink, TeamInv, Team!TypeOK
    <3> QED
      BY <2>1, <3>2, <3>3, <3>4, <3>5 DEF Team!OnItems
  <2>2. CASE Team!Move
    BY <2>2 DEF Team!Move, TeamInv, Team!TypeOK
  <2>3. CASE \E source \in Team!Sources, to \in {"private", "organization", "gone"} : Team!Reshare(source, to)
    BY <2>3 DEF Team!Reshare, TeamInv, Team!TypeOK
  <2> QED
    BY <2>1, <2>2, <2>3
<1>2. item' \in [Items -> Team!Rows] /\ Team!There' = Team!There
  <2>1. CASE item' = item
    BY <2>1 DEF TeamInv, Team!TypeOK, Team!There
  <2>2. CASE \E i \in Team!There, st \in Team!STATUSES : item' = [item EXCEPT ![i].status = st]
    <3>1. PICK i \in Team!There, st \in Team!STATUSES : item' = [item EXCEPT ![i].status = st]
      BY <2>2, Zenon
    <3>2. i \in Items /\ item[i] \in Team!Rows /\ item[i].there
      BY DEF TeamInv, Team!TypeOK, Team!There
    <3>3. item[i] \in [there : {TRUE}, reference : Team!Spellings, kind : {"work", "incident"}, status : Team!STATUSES]
      BY <3>2, Zenon DEF Team!Rows
    <3>4. PICK n : n = [item[i] EXCEPT !.status = st]
      BY Zenon
    <3>5. n \in Team!Rows /\ n.there = TRUE
      BY <3>3, <3>4, Zenon DEF Team!Rows
    <3>6. item' = [item EXCEPT ![i] = n]
      BY <3>1, <3>4 DEF TeamInv, Team!TypeOK
    <3> QED
      BY <3>2, <3>5, <3>6 DEF TeamInv, Team!TypeOK, Team!There
  <2> QED
    BY <1>1, <2>1, <2>2
<1> QED
  BY <1>1, <1>2 DEF TeamInv, Team!TypeOK, Team!Idle

\* Every step on work items keeps the invariant.
LEMMA TeamNext ==
  ASSUME TeamInv, Team!Next, alone' = alone, alone => Team!Serialised'
  PROVE  TeamInv'
BY CreateItemStep, OtherTeamStep DEF Team!Next

\* Whatever leaves work items alone keeps the invariant.
LEMMA TeamStutters == ASSUME TeamInv, UNCHANGED <<teamVars, alone>> PROVE TeamInv'
BY DEF teamVars, TeamInv, Team!TypeOK, Team!There, Team!Idle

-----------------------------------------------------------------------------
(***************************************************************************)
(* The documents of a work item (WorkDocuments).                           *)
(***************************************************************************)

\* The saves that are open and read no document of their title.
Inserting == {s \in Sessions : saving[s].open /\ saving[s].read = 0}

\* A document there is has a version, and every save that may add one was counted with
\* the documents when it began.
DocumentInv ==
  /\ Documents!TypeOK
  /\ \A t \in Titles : document[t].version = 0 => document[t] = Documents!Blank
  /\ \A s \in Sessions : saving[s].open => saving[s].read < MaxVersion
  /\ Cardinality(Documents!Written) + Cardinality(Inserting) <= MaxDocuments + Cardinality(Sessions) - 1
  /\ alone =>
       /\ \A r, s \in Sessions : saving[r].open /\ saving[s].open => r = s
       /\ \A s \in Sessions : saving[s].open =>
            document[saving[s].title] = Documents!Blank \/ document[saving[s].title].version = saving[s].read

\* Counting inside the instance is counting.
LEMMA DocumentCounts == \A S : Documents!Cardinality(S) = Cardinality(S)
BY DEF Documents!Cardinality, Cardinality

\* The sets that are counted are finite, and saves are no more than the sessions.
LEMMA DocumentSizes ==
  /\ IsFiniteSet(Documents!Written) /\ Cardinality(Documents!Written) \in Nat
  /\ IsFiniteSet(Inserting) /\ Cardinality(Inserting) \in Nat
  /\ Cardinality(Sessions) \in Nat /\ Cardinality(Inserting) <= Cardinality(Sessions)
<1>1. Documents!Written \in SUBSET Titles /\ Inserting \in SUBSET Sessions
  BY DEF Documents!Written, Inserting
<1> QED
  BY <1>1, FiniteAssumption, FS_Subset, FS_CardinalityType

\* The invariant is the one TeamIsToldRight asks of documents.
LEMMA DocumentSays == DocumentInv => Documents!TypeOK /\ Documents!DocumentsBounded
<1> SUFFICES ASSUME DocumentInv
             PROVE  Cardinality(Documents!Written) <= MaxDocuments + Cardinality(Sessions) - 1
  BY DocumentCounts DEF DocumentInv, Documents!DocumentsBounded
<1> QED
  BY DocumentSizes, BoundsAssumption DEF DocumentInv

\* A work item without documents satisfies the invariant.
LEMMA DocumentInit == Documents!Init => DocumentInv
<1> SUFFICES ASSUME Documents!Init PROVE DocumentInv
  OBVIOUS
<1>1. Documents!Written = {} /\ Inserting = {}
  BY DEF Documents!Init, Documents!Written, Inserting, Documents!Idle
<1>2. Cardinality(Documents!Written) = 0 /\ Cardinality(Inserting) = 0
  BY <1>1, FS_EmptySet
<1>3. Cardinality(Sessions) >= 1
  <2>1. Cardinality(Sessions) # 0
    BY FiniteAssumption, FS_EmptySet
  <2> QED
    BY <2>1, DocumentSizes
<1>4. MaxDocuments + Cardinality(Sessions) - 1 >= 0
  BY <1>3, BoundsAssumption, DocumentSizes
<1>5. Documents!TypeOK
  BY BoundsAssumption DEF Documents!Init, Documents!TypeOK, Documents!Rows, Documents!Blank
<1> QED
  BY <1>2, <1>4, <1>5 DEF DocumentInv, Documents!Init, Documents!Blank, Documents!Idle

\* What an open save holds.
LEMMA SaveIs ==
  ASSUME DocumentInv, NEW s \in Sessions, saving[s].open
  PROVE  /\ saving[s] \in [open : {TRUE}, title : Titles, read : 0 .. MaxVersion, assistant : BOOLEAN]
         /\ saving[s].title \in Titles /\ saving[s].read \in Nat /\ saving[s].assistant \in BOOLEAN
         /\ saving[s].read + 1 \in 1 .. MaxVersion
<1> DEFINE R == [open : {TRUE}, title : Titles, read : 0 .. MaxVersion, assistant : BOOLEAN]
<1>1. saving[s] \in {Documents!Idle} \cup R
  BY Zenon DEF DocumentInv, Documents!TypeOK
<1>2. ~Documents!Idle.open
  BY DEF Documents!Idle
<1>3. saving[s] \in R
  <2> HIDE DEF R
  <2> QED BY <1>1, <1>2
<1>4. saving[s].read < MaxVersion
  BY DEF DocumentInv
<1>5. saving[s].title \in Titles /\ saving[s].read \in 0 .. MaxVersion /\ saving[s].assistant \in BOOLEAN
  BY <1>3, Zenon
<1>6. saving[s].read \in Nat /\ saving[s].read + 1 \in 1 .. MaxVersion
  BY <1>4, <1>5, BoundsAssumption
<1> QED
  BY <1>3, <1>5, <1>6, Zenon

\* save, up to its flush.
LEMMA BeginSaveStep ==
  ASSUME DocumentInv, alone' = alone, alone => Documents!Serialised',
         NEW s \in Sessions, NEW t \in Titles, NEW a \in BOOLEAN, Documents!Begin(s, t, a)
  PROVE  DocumentInv' /\ Documents!VersionsRise
<1>1. PICK w : w = [open |-> TRUE, title |-> t, read |-> document[t].version, assistant |-> a]
  BY Zenon
<1>2. /\ document' = document /\ saving' = [saving EXCEPT ![s] = w]
      /\ saving[s] = Documents!Idle /\ Documents!Room(t) /\ document[t].version < MaxVersion
  BY <1>1 DEF Documents!Begin
<1>3. document[t].version \in 0 .. MaxVersion
  BY DEF DocumentInv, Documents!TypeOK, Documents!Rows
<1>4. /\ saving'[s] = w /\ \A r \in Sessions \ {s} : saving'[r] = saving[r]
      /\ w.open /\ w.title = t /\ w.read = document[t].version
  BY <1>1, <1>2 DEF DocumentInv, Documents!TypeOK
<1>5. Documents!TypeOK'
  BY <1>1, <1>2, <1>3, Zenon DEF DocumentInv, Documents!TypeOK
<1>6. Documents!Written' = Documents!Written
  BY <1>2 DEF Documents!Written, Documents!Blank
<1>7. Cardinality(Documents!Written)' + Cardinality(Inserting)' <= MaxDocuments + Cardinality(Sessions) - 1
  <2>1. CASE document[t].version = 0
    <3>1. t \notin Documents!Written
      BY <2>1 DEF DocumentInv, Documents!Written
    <3>2. Cardinality(Documents!Written) < MaxDocuments
      BY <1>2, <3>1, DocumentCounts DEF Documents!Room
    <3>3. Inserting' \in SUBSET Sessions
      BY DEF Inserting
    <3>4. Cardinality(Inserting') <= Cardinality(Sessions) /\ Cardinality(Inserting') \in Nat
      BY <3>3, FiniteAssumption, FS_Subset, FS_CardinalityType
    <3> QED
      BY <1>6, <3>2, <3>4, DocumentSizes, BoundsAssumption
  <2>2. CASE document[t].version # 0
    <3>1. Inserting' = Inserting
      BY <1>2, <1>4, <2>2 DEF Inserting, Documents!Idle
    <3> QED
      BY <1>6, <3>1 DEF DocumentInv
  <2> QED
    BY <2>1, <2>2
<1>8. alone => \A q, r \in Sessions : saving'[q].open /\ saving'[r].open => q = r
  <2> SUFFICES ASSUME alone PROVE \A q, r \in Sessions : saving'[q].open /\ saving'[r].open => q = r
    OBVIOUS
  <2> DEFINE open == {r \in Sessions : saving'[r].open}
  <2>1. Cardinality(open) <= 1
    BY DocumentCounts DEF Documents!Serialised
  <2>2. IsFiniteSet(open)
    BY FiniteAssumption, FS_Subset
  <2> QED
    BY <2>1, <2>2, AtMostOne
<1>9. \A r \in Sessions : saving'[r].open => saving'[r].read < MaxVersion
  BY <1>2, <1>4 DEF DocumentInv
<1>10. alone => \A r \in Sessions : saving'[r].open =>
         document[saving'[r].title] = Documents!Blank \/ document[saving'[r].title].version = saving'[r].read
  BY <1>4 DEF DocumentInv
<1>11. Documents!VersionsRise
  BY <1>2 DEF Documents!VersionsRise
<1> QED
  BY <1>2, <1>5, <1>7, <1>8, <1>9, <1>10, <1>11 DEF DocumentInv, Documents!Blank

\* The flush.
LEMMA CommitSaveStep ==
  ASSUME DocumentInv, alone' = alone, NEW s \in Sessions, Documents!Commit(s)
  PROVE  DocumentInv' /\ (alone => Documents!VersionsRise)
<1> DEFINE q == saving[s]
<1>1. /\ q.open /\ saving' = [saving EXCEPT ![s] = Documents!Idle]
      /\ document' = IF (q.read = 0) = (q.title \notin Documents!Written)
                     THEN [document EXCEPT ![q.title] = [version |-> q.read + 1, assistant |-> q.assistant]]
                     ELSE document
  BY DEF Documents!Commit, Documents!NextVersion
<1>3. q.title \in Titles /\ q.read \in Nat /\ q.read + 1 \in 1 .. MaxVersion /\ q.assistant \in BOOLEAN
  BY <1>1, SaveIs, Zenon
<1>4. PICK t, n : t = q.title /\ t \in Titles /\ n = [version |-> q.read + 1, assistant |-> q.assistant]
  BY <1>3, Zenon
<1>5. n \in Documents!Rows /\ n.version = q.read + 1 /\ n # Documents!Blank /\ n.version # 0
  BY <1>3, <1>4, BoundsAssumption DEF Documents!Rows, Documents!Blank
<1>6. /\ saving'[s] = Documents!Idle /\ \A r \in Sessions \ {s} : saving'[r] = saving[r]
      /\ ~Documents!Idle.open
  BY <1>1 DEF DocumentInv, Documents!TypeOK, Documents!Idle
<1>7. CASE document' = document
  <2>1. Inserting' \in SUBSET Inserting /\ Documents!Written' = Documents!Written
    BY <1>6, <1>7 DEF Inserting, Documents!Written, Documents!Blank
  <2>2. Cardinality(Inserting') <= Cardinality(Inserting) /\ Cardinality(Inserting') \in Nat
    BY <2>1, DocumentSizes, FS_Subset, FS_CardinalityType
  <2>3. Cardinality(Documents!Written)' + Cardinality(Inserting)' <= MaxDocuments + Cardinality(Sessions) - 1
    BY <2>1, <2>2, DocumentSizes, BoundsAssumption DEF DocumentInv
  <2>4. Documents!TypeOK'
    BY <1>1, <1>7, Zenon DEF DocumentInv, Documents!TypeOK, Documents!Rows, Documents!Idle
  <2>5. Documents!VersionsRise
    BY <1>7 DEF Documents!VersionsRise
  <2> QED
    BY <1>6, <1>7, <2>3, <2>4, <2>5 DEF DocumentInv, Documents!Blank
<1>8. CASE document' = [document EXCEPT ![t] = n] /\ (q.read = 0) = (t \notin Documents!Written)
  <2>1. document'[t] = n /\ \A u \in Titles \ {t} : document'[u] = document[u]
    BY <1>4, <1>8 DEF DocumentInv, Documents!TypeOK
  <2>2. Documents!TypeOK'
    <3>1. document' \in [Titles -> Documents!Rows]
      BY <1>5, <1>8, Zenon DEF DocumentInv, Documents!TypeOK
    <3> QED
      BY <1>1, <3>1, Zenon DEF DocumentInv, Documents!TypeOK, Documents!Rows, Documents!Idle
  <2>3. Documents!Written' = Documents!Written \cup {t}
    BY <1>4, <1>5, <2>1 DEF Documents!Written, Documents!Blank
  <2>4. Cardinality(Documents!Written)' + Cardinality(Inserting)' <= MaxDocuments + Cardinality(Sessions) - 1
    <3>1. CASE q.read = 0
      <4>1. t \notin Documents!Written /\ s \in Inserting
        BY <1>1, <1>8, <3>1 DEF Inserting
      <4>2. Cardinality(Documents!Written \cup {t}) = Cardinality(Documents!Written) + 1
        BY <4>1, DocumentSizes, FS_AddElement, Zenon
      <4>3. Inserting' = Inserting \ {s}
        BY <1>6 DEF Inserting
      <4>4. Cardinality(Inserting \ {s}) = Cardinality(Inserting) - 1
        BY <4>1, DocumentSizes, FS_RemoveElement, Zenon
      <4> QED
        BY <2>3, <4>2, <4>3, <4>4, DocumentSizes DEF DocumentInv
    <3>2. CASE q.read # 0
      <4>1. t \in Documents!Written
        BY <1>8, <3>2
      <4>2. Documents!Written' = Documents!Written
        BY <2>3, <4>1
      <4>3. Inserting' = Inserting
        BY <1>6, <3>2 DEF Inserting
      <4> QED
        BY <4>2, <4>3 DEF DocumentInv
    <3> QED
      BY <3>1, <3>2
  <2>5. alone => document[t] = Documents!Blank \/ document[t].version = q.read
    BY <1>1, <1>4 DEF DocumentInv
  <2>6. alone => Documents!VersionsRise
    BY <1>5, <1>8, <2>1, <2>5 DEF Documents!VersionsRise, Documents!Written
  <2>7. alone => \A r \in Sessions : ~saving'[r].open
    BY <1>1, <1>6 DEF DocumentInv
  <2> QED
    BY <1>5, <1>6, <2>1, <2>2, <2>4, <2>6, <2>7 DEF DocumentInv, Documents!Blank
<1> QED
  BY <1>1, <1>4, <1>7, <1>8

\* Deleting a document takes all its versions with it.
LEMMA DeleteDocumentStep ==
  ASSUME DocumentInv, alone' = alone, NEW t \in Titles, Documents!Delete(t)
  PROVE  DocumentInv' /\ Documents!VersionsRise
<1>1. document' = [document EXCEPT ![t] = Documents!Blank] /\ saving' = saving
  BY DEF Documents!Delete
<1>2. document'[t] = Documents!Blank /\ \A u \in Titles \ {t} : document'[u] = document[u]
  BY <1>1 DEF DocumentInv, Documents!TypeOK
<1>3. Documents!Blank \in Documents!Rows
  BY BoundsAssumption DEF Documents!Blank, Documents!Rows
<1>4. Documents!TypeOK'
  BY <1>1, <1>3, Zenon DEF DocumentInv, Documents!TypeOK, Documents!Rows, Documents!Idle
<1>5. Documents!Written' \in SUBSET Documents!Written /\ Inserting' = Inserting
  BY <1>1, <1>2 DEF Documents!Written, Documents!Blank, Inserting
<1>6. Cardinality(Documents!Written') <= Cardinality(Documents!Written) /\ Cardinality(Documents!Written') \in Nat
  BY <1>5, DocumentSizes, FS_Subset, FS_CardinalityType
<1>7. Cardinality(Documents!Written)' + Cardinality(Inserting)' <= MaxDocuments + Cardinality(Sessions) - 1
  BY <1>5, <1>6, DocumentSizes, BoundsAssumption DEF DocumentInv
<1>8. Documents!VersionsRise
  BY <1>2 DEF Documents!VersionsRise, Documents!Written
<1>9. \A u \in Titles : document'[u].version = 0 => document'[u] = Documents!Blank
  BY <1>2 DEF DocumentInv
<1>10. alone => \A s \in Sessions : saving[s].open =>
         document'[saving[s].title] = Documents!Blank \/ document'[saving[s].title].version = saving[s].read
  <2>1. \A s \in Sessions : saving[s].open => saving[s].title \in Titles
    BY SaveIs, Zenon
  <2> QED
    BY <1>2, <2>1 DEF DocumentInv
<1> QED
  BY <1>1, <1>4, <1>7, <1>8, <1>9, <1>10 DEF DocumentInv, Documents!Blank

\* Every step on documents keeps the invariant, and alone, versions rise.
LEMMA DocumentNext ==
  ASSUME DocumentInv, Documents!Next, alone' = alone, alone => Documents!Serialised'
  PROVE  DocumentInv' /\ (alone => Documents!VersionsRise)
BY BeginSaveStep, CommitSaveStep, DeleteDocumentStep DEF Documents!Next

\* Whatever leaves documents alone keeps the invariant.
LEMMA DocumentStutters == ASSUME DocumentInv, UNCHANGED <<documentVars, alone>> PROVE DocumentInv'
BY Zenon DEF documentVars, DocumentInv, Documents!TypeOK, Documents!Written, Documents!Blank, Documents!Rows,
       Documents!Idle, Inserting

-----------------------------------------------------------------------------
(***************************************************************************)
(* Engineering memory (EngineeringMemory).                                 *)
(***************************************************************************)

\* A version follows the one it supersedes, which there is; no version is beyond the
\* number of memories.
ChainInv ==
  /\ \A i \in Lore!Made :
       /\ memory[i].version <= Cardinality(Lore!Made)
       /\ memory[i].supersedes = None <=> memory[i].version = 1
       /\ memory[i].supersedes # None =>
            /\ memory[i].supersedes \in Lore!Made
            /\ memory[i].version = memory[memory[i].supersedes].version + 1
  /\ \A r \in Requests : request[r] # Lore!Idle =>
       request[r].user \in Vouchers /\ request[r].id \in Lore!Made

\* One request at a time finds the row as it read it, and what was followed by another
\* version is archived.
AloneInv ==
  /\ \A r, s \in Requests : request[r] # Lore!Idle /\ request[s] # Lore!Idle => r = s
  /\ \A r \in Requests : request[r] # Lore!Idle => memory[request[r].id].status \in Lore!Expects(request[r].op)
  /\ \A j \in Lore!Made : memory[j].supersedes # None => memory[memory[j].supersedes].status = "archived"

LoreInv == Lore!TypeOK /\ ChainInv /\ (alone => AloneInv)

\* A row of what there is.
MadeRows ==
  [status : {"proposed", "approved", "rejected", "archived"}, source : {"human", "ai"},
   version : Lore!Ids, supersedes : Lore!Ids \cup {None}, decided_by : Users \cup {None}]

\* A row that was made is a row.
LEMMA MadeIs == ASSUME Lore!TypeOK, NEW i \in Lore!Made PROVE i \in Lore!Ids /\ memory[i] \in MadeRows
<1>1. i \in Lore!Ids /\ memory[i] # Lore!Absent /\ memory[i] \in Lore!Row
  BY DEF Lore!Made, Lore!TypeOK
<1>2. \A x \in [status : {"none"}] : x = Lore!Absent
  BY DEF Lore!Absent
<1> QED
  BY <1>1, <1>2 DEF Lore!Row, MadeRows

\* The rows that were made are finitely many, at most MaxRows.
LEMMA MadeSizes ==
  /\ IsFiniteSet(Lore!Made) /\ Cardinality(Lore!Made) \in Nat /\ Cardinality(Lore!Made) <= MaxRows
  /\ Lore!Made \subseteq Lore!Ids
<1>1. IsFiniteSet(Lore!Ids) /\ Cardinality(Lore!Ids) = MaxRows
  BY FS_Interval, BoundsAssumption DEF Lore!Ids
<1>2. Lore!Made \in SUBSET Lore!Ids
  BY DEF Lore!Made
<1> QED
  BY <1>1, <1>2, FS_Subset, FS_CardinalityType

\* A new row takes an id that no row has.
LEMMA NewIdIsNew == ASSUME Lore!Made # Lore!Ids PROVE Lore!NewId \in Lore!Ids \ Lore!Made
<1> DEFINE S == Lore!Ids \ Lore!Made
<1>1. S \in SUBSET Nat /\ S # {}
  <2>1. S # {}
    BY MadeSizes
  <2>2. Lore!Ids \subseteq Nat
    BY DEF Lore!Ids
  <2> QED BY <2>1, <2>2, Zenon
<1>2. PICK x \in S : \A y \in S : x <= y
  <2> HIDE DEF S
  <2> QED BY <1>1, MinExists
<1> QED
  BY <1>2 DEF Lore!NewId

\* A memory without rows satisfies the invariant.
LEMMA LoreInit == Lore!Init => LoreInv
<1> SUFFICES ASSUME Lore!Init PROVE LoreInv
  OBVIOUS
<1>1. Lore!Made = {} /\ \A r \in Requests : request[r] = Lore!Idle
  BY DEF Lore!Init, Lore!Made
<1>2. Lore!TypeOK
  BY DEF Lore!Init, Lore!TypeOK, Lore!Row, Lore!Absent
<1> QED
  BY <1>1, <1>2 DEF LoreInv, ChainInv, AloneInv

\* A memory of its own begins a chain (create).
LEMMA CreateMemoryStep ==
  ASSUME LoreInv, alone' = alone, NEW u \in Users, NEW source \in {"human", "ai"}, Lore!Create(u, source)
  PROVE  LoreInv' /\ Lore!PeopleVouch /\ Lore!DecidedForGood
<1>1. PICK k \in Lore!Ids \ Lore!Made : k = Lore!NewId
  BY NewIdIsNew DEF Lore!Create
<1>2. PICK n : n = [status |-> IF Lore!Vouched(u, source) THEN "approved" ELSE "proposed", source |-> source,
                    version |-> 1, supersedes |-> None,
                    decided_by |-> IF Lore!Vouched(u, source) THEN u ELSE None]
  BY Zenon
<1>3. /\ n \in MadeRows /\ n.version = 1 /\ n.supersedes = None /\ n # Lore!Absent
      /\ n.status = "approved" => n.decided_by \in Vouchers /\ n.source = "human"
  BY <1>1, <1>2, BoundsAssumption DEF MadeRows, Lore!Absent, Lore!Vouched, Lore!Ids
<1>4. memory' = [memory EXCEPT ![k] = n] /\ request' = request
  BY <1>1, <1>2 DEF Lore!Create
<1>5. memory'[k] = n /\ \A i \in Lore!Ids \ {k} : memory'[i] = memory[i]
  BY <1>4 DEF LoreInv, Lore!TypeOK
<1>6. Lore!TypeOK'
  BY <1>3, <1>4 DEF LoreInv, Lore!TypeOK, Lore!Row, Lore!Idle, Lore!Ids, MadeRows
<1>7. Lore!Made' = Lore!Made \cup {k}
  BY <1>3, <1>5 DEF Lore!Made, Lore!Absent, Lore!Ids
<1>8. Cardinality(Lore!Made') = Cardinality(Lore!Made) + 1
  BY <1>7, MadeSizes, FS_AddElement, Zenon
<1>9. ChainInv'
  <2>1. ASSUME NEW i \in Lore!Made'
        PROVE  /\ memory'[i].version <= Cardinality(Lore!Made')
               /\ memory'[i].supersedes = None <=> memory'[i].version = 1
               /\ memory'[i].supersedes # None =>
                    /\ memory'[i].supersedes \in Lore!Made'
                    /\ memory'[i].version = memory'[memory'[i].supersedes].version + 1
    <3>1. CASE i = k
      BY <1>3, <1>5, <1>8, <3>1, MadeSizes
    <3>2. CASE i # k
      <4>1. i \in Lore!Made /\ memory'[i] = memory[i] /\ memory[i] \in MadeRows
        BY <1>5, <1>7, <3>2, MadeSizes, MadeIs DEF LoreInv
      <4>2. memory[i].version \in Nat
        BY <4>1 DEF MadeRows, Lore!Ids
      <4>3. memory[i].supersedes # None => memory[i].supersedes \in Lore!Made /\ memory'[memory[i].supersedes] = memory[memory[i].supersedes]
        BY <1>5, <4>1, MadeSizes DEF LoreInv, ChainInv
      <4> QED
        BY <1>7, <1>8, <4>1, <4>2, <4>3, MadeSizes DEF LoreInv, ChainInv
    <3> QED BY <3>1, <3>2
  <2>2. \A r \in Requests : request[r] # Lore!Idle => request[r].user \in Vouchers /\ request[r].id \in Lore!Made'
    BY <1>7 DEF LoreInv, ChainInv
  <2> QED
    BY <1>4, <2>1, <2>2 DEF ChainInv, Lore!Idle
<1>10. alone => AloneInv'
  <2> SUFFICES ASSUME alone PROVE AloneInv'
    OBVIOUS
  <2>1. \A r \in Requests : request[r] # Lore!Idle =>
          memory'[request[r].id].status \in Lore!Expects(request[r].op)
    BY <1>5, MadeSizes DEF LoreInv, ChainInv, AloneInv
  <2>2. ASSUME NEW j \in Lore!Made', memory'[j].supersedes # None
        PROVE  memory'[memory'[j].supersedes].status = "archived"
    <3>1. j \in Lore!Made /\ memory'[j] = memory[j]
      BY <1>3, <1>5, <1>7, <2>2, MadeSizes
    <3>2. memory[j].supersedes \in Lore!Made
      BY <2>2, <3>1 DEF LoreInv, ChainInv
    <3> QED
      BY <1>5, <2>2, <3>1, <3>2, MadeSizes DEF LoreInv, AloneInv
  <2> QED
    BY <1>4, <2>1, <2>2, Zenon DEF LoreInv, AloneInv, Lore!Idle, Lore!Expects
<1>11. Lore!PeopleVouch /\ Lore!DecidedForGood
  BY <1>3, <1>5, <1>7, MadeSizes DEF Lore!PeopleVouch, Lore!DecidedForGood, Lore!Told
<1> QED
  BY <1>6, <1>9, <1>10, <1>11 DEF LoreInv

\* A request is opened (decide, edit and archive, up to their flush).
LEMMA BeginRequestStep ==
  ASSUME LoreInv, alone' = alone, alone => Lore!Serialised',
         NEW r \in Requests, NEW u \in Users, NEW op \in {"approve", "reject", "edit", "archive"},
         NEW i \in Lore!Made, Lore!Begin(r, u, op, i)
  PROVE  LoreInv' /\ Lore!PeopleVouch /\ Lore!DecidedForGood
<1>1. PICK w : w = [op |-> op, user |-> u, id |-> i]
  BY Zenon
<1>2. /\ memory' = memory /\ request' = [request EXCEPT ![r] = w]
      /\ u \in Vouchers /\ memory[i].status \in Lore!Expects(op)
  BY <1>1 DEF Lore!Begin
<1>3. i \in Lore!Ids
  BY MadeSizes
<1>4. w \in [op : {"approve", "reject", "edit", "archive"}, user : Users, id : Lore!Ids]
      /\ w.op = op /\ w.user = u /\ w.id = i
  BY <1>1, <1>3
<1>5. request'[r] = w /\ \A s \in Requests \ {r} : request'[s] = request[s]
  BY <1>2 DEF LoreInv, Lore!TypeOK
<1>6. Lore!TypeOK'
  BY <1>2, <1>4 DEF LoreInv, Lore!TypeOK, Lore!Row, Lore!Idle, Lore!Ids
<1>7. Lore!Made' = Lore!Made
  BY <1>2 DEF Lore!Made, Lore!Absent, Lore!Ids
<1>8. ChainInv'
  BY <1>2, <1>4, <1>5, <1>7 DEF LoreInv, ChainInv, Lore!Idle
<1>9. alone => AloneInv'
  <2>1. alone => \A s, t \in Requests : request'[s] # Lore!Idle /\ request'[t] # Lore!Idle => s = t
    BY DEF Lore!Serialised, Lore!Idle
  <2>2. alone => \A s \in Requests : request'[s] # Lore!Idle =>
          memory[request'[s].id].status \in Lore!Expects(request'[s].op)
    BY <1>2, <1>4, <1>5 DEF LoreInv, AloneInv
  <2> QED
    BY <1>2, <1>7, <2>1, <2>2, Zenon DEF LoreInv, AloneInv, Lore!Idle, Lore!Expects
<1>10. Lore!PeopleVouch /\ Lore!DecidedForGood
  BY <1>2 DEF Lore!PeopleVouch, Lore!DecidedForGood, Lore!Told, Lore!Made, Lore!Absent, Lore!Ids
<1> QED
  BY <1>6, <1>8, <1>9, <1>10 DEF LoreInv

\* What an open request holds.
LEMMA RequestIs ==
  ASSUME LoreInv, NEW r \in Requests, request[r] # Lore!Idle
  PROVE  /\ request[r] \in [op : {"approve", "reject", "edit", "archive"}, user : Users, id : Lore!Ids]
         /\ request[r].user \in Vouchers /\ request[r].user \in Users /\ request[r].id \in Lore!Made
BY DEF LoreInv, ChainInv, Lore!TypeOK

\* A flush that changes who decided a row, and how, and leaves its version as it was.
LEMMA StatusMoves ==
  ASSUME LoreInv, alone' = alone, NEW r \in Requests, request[r] # Lore!Idle,
         request' = [request EXCEPT ![r] = Lore!Idle],
         NEW i \in Lore!Made, i = request[r].id, NEW n \in MadeRows,
         memory' = [memory EXCEPT ![i] = n],
         n.version = memory[i].version, n.supersedes = memory[i].supersedes, n.source = memory[i].source,
         n.status = "approved" => request[r].op = "approve" /\ n.decided_by \in Vouchers,
         alone => (memory[i].status = "archived" => n.status = "archived"),
         alone => (memory[i].status = "rejected" => n.status # "approved")
  PROVE  LoreInv' /\ Lore!PeopleVouch /\ (alone => Lore!DecidedForGood)
<1>1. n # Lore!Absent /\ i \in Lore!Ids
  BY MadeSizes DEF MadeRows, Lore!Absent
<1>2. memory'[i] = n /\ \A j \in Lore!Ids \ {i} : memory'[j] = memory[j]
  BY <1>1 DEF LoreInv, Lore!TypeOK
<1>3. request'[r] = Lore!Idle /\ \A s \in Requests \ {r} : request'[s] = request[s]
  BY DEF LoreInv, Lore!TypeOK
<1>4. Lore!TypeOK'
  BY <1>1 DEF LoreInv, Lore!TypeOK, Lore!Row, Lore!Idle, Lore!Ids, MadeRows
<1>5. Lore!Made' = Lore!Made
  BY <1>1, <1>2 DEF Lore!Made, Lore!Absent, Lore!Ids
<1>6. \A j \in Lore!Made : memory'[j].version = memory[j].version /\ memory'[j].supersedes = memory[j].supersedes
  BY <1>2, MadeSizes
<1>7. ChainInv'
  BY <1>3, <1>5, <1>6 DEF LoreInv, ChainInv, Lore!Idle
<1>8. alone => AloneInv'
  <2>1. alone => \A s \in Requests : request'[s] = Lore!Idle
    BY <1>3 DEF LoreInv, AloneInv
  <2>2. alone => \A j \in Lore!Made : memory'[j].supersedes # None => memory'[memory'[j].supersedes].status = "archived"
    BY <1>2, <1>6, MadeSizes DEF LoreInv, ChainInv, AloneInv
  <2> QED
    BY <1>5, <2>1, <2>2 DEF AloneInv, Lore!Idle, Lore!Expects
<1>9. Lore!PeopleVouch
  BY <1>2, <1>5, MadeSizes DEF Lore!PeopleVouch, Lore!Told
<1>10. alone => Lore!DecidedForGood
  BY <1>2, <1>5, MadeSizes DEF Lore!DecidedForGood, Lore!Told
<1> QED
  BY <1>4, <1>7, <1>8, <1>9, <1>10 DEF LoreInv

\* decide and archive, their flush.
LEMMA DecideMemoryStep ==
  ASSUME LoreInv, alone' = alone, NEW r \in Requests, Lore!Commit(r), request[r].op # "edit"
  PROVE  LoreInv' /\ Lore!PeopleVouch /\ (alone => Lore!DecidedForGood)
<1> DEFINE q == request[r]
<1>1. q # Lore!Idle /\ request' = [request EXCEPT ![r] = Lore!Idle]
  BY DEF Lore!Commit
<1>2. PICK i \in Lore!Made : i = q.id
  BY <1>1, RequestIs
<1>3. memory[i] \in MadeRows /\ i \in Lore!Ids /\ q.user \in Users /\ q.user \in Vouchers
  BY <1>1, MadeIs, RequestIs DEF LoreInv
<1>4. alone => memory[i].status \in Lore!Expects(q.op)
  BY <1>1, <1>2 DEF LoreInv, AloneInv
<1>5. CASE q.op \in {"approve", "reject"} /\ memory' = Lore!Decided(q)
  <2>1. PICK n : n = [memory[i] EXCEPT !.status = IF q.op = "approve" THEN "approved" ELSE "rejected", !.decided_by = q.user]
    OBVIOUS
  <2>2. /\ n \in MadeRows /\ n.version = memory[i].version /\ n.supersedes = memory[i].supersedes
        /\ n.source = memory[i].source /\ n.decided_by = q.user
        /\ n.status = IF q.op = "approve" THEN "approved" ELSE "rejected"
    BY <1>3, <2>1, Zenon DEF MadeRows
  <2>3. memory' = [memory EXCEPT ![i] = n]
    BY <1>2, <1>5, <2>1 DEF Lore!Decided
  <2>4. alone => memory[i].status = "proposed"
    BY <1>4, <1>5 DEF Lore!Expects
  <2> QED
    BY <1>1, <1>2, <1>3, <2>2, <2>3, <2>4, StatusMoves, Zenon
<1>6. CASE q.op = "archive" /\ memory' = [memory EXCEPT ![q.id].status = "archived"]
  <2>1. PICK n : n = [memory[i] EXCEPT !.status = "archived"]
    BY Zenon
  <2>2. /\ n \in MadeRows /\ n.version = memory[i].version /\ n.supersedes = memory[i].supersedes
        /\ n.source = memory[i].source /\ n.status = "archived"
    BY <1>3, <2>1 DEF MadeRows
  <2>3. memory' = [memory EXCEPT ![i] = n]
    BY <1>2, <1>6, <2>1 DEF LoreInv, Lore!TypeOK
  <2> QED
    BY <1>1, <1>2, <2>2, <2>3, StatusMoves, Zenon
<1> QED
  BY <1>5, <1>6 DEF Lore!Commit

\* edit, its flush: the old version is archived, and the new one follows it.
LEMMA EditMemoryStep ==
  ASSUME LoreInv, alone' = alone, NEW r \in Requests, Lore!Commit(r), request[r].op = "edit"
  PROVE  LoreInv' /\ Lore!PeopleVouch /\ (alone => Lore!DecidedForGood)
<1> DEFINE q == request[r]
<1>1. q # Lore!Idle /\ request' = [request EXCEPT ![r] = Lore!Idle] /\ Lore!Made # Lore!Ids
  BY DEF Lore!Commit
<1>2. PICK i \in Lore!Made, k \in Lore!Ids \ Lore!Made : i = q.id /\ k = Lore!NewId
  BY <1>1, RequestIs, NewIdIsNew
<1>3. memory[i] \in MadeRows /\ i \in Lore!Ids /\ i # k /\ q.user \in Users /\ q.user \in Vouchers
  BY <1>1, MadeIs, RequestIs DEF LoreInv
<1>4. PICK o, n : o = [memory[i] EXCEPT !.status = "archived"] /\ n = Lore!NewVersion(q.user, i)
  BY Zenon
<1>5. /\ o \in MadeRows /\ o.version = memory[i].version /\ o.supersedes = memory[i].supersedes
      /\ o.status = "archived" /\ o # Lore!Absent
  BY <1>3, <1>4 DEF MadeRows, Lore!Absent
<1>6. memory[i].version \in Nat /\ memory[i].version + 1 <= Cardinality(Lore!Made) + 1
  BY <1>3, MadeSizes DEF MadeRows, Lore!Ids, LoreInv, ChainInv
<1>7. memory' = [memory EXCEPT ![i] = o, ![k] = n] /\ memory'[i] = o /\ memory'[k] = n
      /\ \A j \in Lore!Ids \ {i, k} : memory'[j] = memory[j]
  <2>1. memory' = [memory EXCEPT ![i].status = "archived", ![k] = n]
    BY <1>2, <1>4 DEF Lore!Commit, Lore!Edited
  <2> QED
    BY <1>3, <1>4, <2>1 DEF LoreInv, Lore!TypeOK
<1>8. Lore!Made' = Lore!Made \cup {k}
  <2>1. n # Lore!Absent
    BY <1>4 DEF Lore!NewVersion, Lore!Absent
  <2> QED
    BY <1>3, <1>5, <1>7, <2>1, Zenon DEF Lore!Made, Lore!Absent, Lore!Ids
<1>9. Cardinality(Lore!Made') = Cardinality(Lore!Made) + 1 /\ Cardinality(Lore!Made') <= MaxRows
  <2>1. Cardinality(Lore!Made') = Cardinality(Lore!Made) + 1
    BY <1>8, MadeSizes, FS_AddElement, Zenon
  <2>2. Lore!Made' \in SUBSET Lore!Ids
    BY <1>8, MadeSizes
  <2>3. IsFiniteSet(Lore!Ids) /\ Cardinality(Lore!Ids) = MaxRows
    BY FS_Interval, BoundsAssumption DEF Lore!Ids
  <2> QED
    BY <2>1, <2>2, <2>3, FS_Subset
<1>10. /\ n \in MadeRows /\ n.version = memory[i].version + 1 /\ n.supersedes = i /\ n.status = "approved"
       /\ n.source = "human" /\ n.decided_by \in Vouchers
  <2>1. memory[i].version + 1 \in Lore!Ids
    BY <1>6, <1>9, BoundsAssumption, MadeSizes DEF Lore!Ids
  <2> QED
    BY <1>3, <1>4, <2>1 DEF MadeRows, Lore!NewVersion
<1>11. request'[r] = Lore!Idle /\ \A s \in Requests \ {r} : request'[s] = request[s]
  BY <1>1 DEF LoreInv, Lore!TypeOK
<1>12. Lore!TypeOK'
  BY <1>1, <1>5, <1>7, <1>10 DEF LoreInv, Lore!TypeOK, Lore!Row, Lore!Idle, Lore!Ids, MadeRows
<1>13. \A j \in Lore!Made : /\ memory'[j].version = memory[j].version /\ memory'[j].supersedes = memory[j].supersedes
                            /\ memory[j].version \in Nat
  <2>1. ASSUME NEW j \in Lore!Made PROVE memory[j].version \in Nat
    <3>1. memory[j] \in MadeRows
      BY MadeIs DEF LoreInv
    <3> QED BY <3>1 DEF MadeRows, Lore!Ids
  <2>2. \A j \in Lore!Made : memory'[j].version = memory[j].version /\ memory'[j].supersedes = memory[j].supersedes
    BY <1>5, <1>7, MadeSizes, Zenon
  <2> QED BY <2>1, <2>2
<1>14. ChainInv'
  <2>1. ASSUME NEW j \in Lore!Made'
        PROVE  /\ memory'[j].version <= Cardinality(Lore!Made')
               /\ memory'[j].supersedes = None <=> memory'[j].version = 1
               /\ memory'[j].supersedes # None =>
                    /\ memory'[j].supersedes \in Lore!Made'
                    /\ memory'[j].version = memory'[memory'[j].supersedes].version + 1
    <3>1. CASE j = k
      <4>1. i # None /\ memory[i].version + 1 # 1
        BY <1>3, <1>6, NoneAssumption DEF Lore!Ids, MadeRows
      <4> QED
        BY <1>5, <1>6, <1>7, <1>8, <1>9, <1>10, <3>1, <4>1, MadeSizes
    <3>2. CASE j # k
      <4>1. j \in Lore!Made
        BY <1>8, <3>2
      <4> QED
        BY <1>8, <1>9, <1>13, <4>1, MadeSizes DEF LoreInv, ChainInv
    <3> QED BY <3>1, <3>2
  <2> QED
    BY <1>8, <1>11, <2>1, Zenon DEF LoreInv, ChainInv, Lore!Idle
<1>15. alone => AloneInv'
  <2> SUFFICES ASSUME alone PROVE AloneInv'
    OBVIOUS
  <2>1. \A s \in Requests : request'[s] = Lore!Idle
    BY <1>1, <1>11 DEF LoreInv, AloneInv
  <2>2. \A j \in Lore!Made' : memory'[j].supersedes # None => memory'[memory'[j].supersedes].status = "archived"
    <3>1. ASSUME NEW j \in Lore!Made, memory[j].supersedes # None
          PROVE  memory'[memory[j].supersedes].status = "archived"
      <4>1. memory[j].supersedes \in Lore!Made /\ memory[memory[j].supersedes].status = "archived"
        BY <3>1 DEF LoreInv, ChainInv, AloneInv
      <4> QED BY <1>5, <1>7, <4>1, MadeSizes, Zenon
    <3>2. memory'[k].supersedes = i /\ memory'[i].status = "archived"
      BY <1>5, <1>7, <1>10
    <3>3. ASSUME NEW j \in Lore!Made \cup {k}, memory'[j].supersedes # None
          PROVE  memory'[memory'[j].supersedes].status = "archived"
      BY <1>13, <3>1, <3>2, <3>3
    <3> QED BY <1>8, <3>3
  <2> QED
    BY <2>1, <2>2 DEF AloneInv, Lore!Idle, Lore!Expects
<1>16. Lore!PeopleVouch
  BY <1>5, <1>7, <1>8, <1>10, MadeSizes, Zenon DEF Lore!PeopleVouch, Lore!Told
<1>17. Lore!DecidedForGood
  BY <1>5, <1>7, <1>8, MadeSizes, Zenon DEF Lore!DecidedForGood, Lore!Told
<1> QED
  BY <1>12, <1>14, <1>15, <1>16, <1>17 DEF LoreInv

\* Every step on the memory keeps the invariant; only people vouch, and alone, a decision stays.
LEMMA LoreNext ==
  ASSUME LoreInv, Lore!Next, alone' = alone, alone => Lore!Serialised'
  PROVE  LoreInv' /\ Lore!PeopleVouch /\ (alone => Lore!DecidedForGood)
BY CreateMemoryStep, BeginRequestStep, DecideMemoryStep, EditMemoryStep DEF Lore!Next, Lore!Request

\* Whatever leaves the memory alone keeps its invariant.
LEMMA LoreStutters == ASSUME LoreInv, UNCHANGED <<loreVars, alone>> PROVE LoreInv'
<1>1. Lore!TypeOK'
  BY DEF loreVars, LoreInv, Lore!TypeOK, Lore!Row, Lore!Idle, Lore!Ids
<1>2. Lore!Made' = Lore!Made
  BY DEF loreVars, Lore!Made, Lore!Absent, Lore!Ids
<1> QED
  BY <1>1, <1>2, Zenon DEF loreVars, LoreInv, ChainInv, AloneInv, Lore!Idle, Lore!Expects

-----------------------------------------------------------------------------
\* One step of a memory's history: the versions before the ones that were reached.
Before == [s \in SUBSET Lore!Made |-> s \cup ({memory[j].supersedes : j \in s} \ {None})]

\* f is the walk of a history from i (history).
Walks(f, i) ==
  f = [n \in Lore!Ids |->
         IF n = 1 THEN {i} ELSE f[n - 1] \cup ({memory[j].supersedes : j \in f[n - 1]} \ {None})]

\* The walk exists, so that a history is what it says.
LEMMA HistoryWalks ==
  ASSUME LoreInv, NEW i \in Lore!Made
  PROVE  \E f : /\ Lore!History(i) = f[MaxRows] /\ f \in [Lore!Ids -> SUBSET Lore!Made]
                /\ \A n \in Lore!Ids : f[n] = IF n = 1 THEN {i} ELSE Before[f[n - 1]]
<1> DEFINE V == SUBSET Lore!Made
<1>1. Before \in [V -> V]
  BY DEF Before, LoreInv, ChainInv
<1>2. PICK g \in [1 .. MaxRows -> V] : \A n \in 1 .. MaxRows : g[n] = IF n = 1 THEN {i} ELSE Before[g[n - 1]]
  <2>1. {i} \in V /\ MaxRows \in Nat
    BY BoundsAssumption
  <2> HIDE DEF V
  <2> QED BY <1>1, <2>1, StepsExist
<1>3. ASSUME NEW f, f \in [Lore!Ids -> V] PROVE Walks(f, i) <=> \A n \in Lore!Ids : f[n] = IF n = 1 THEN {i} ELSE Before[f[n - 1]]
  <2>1. ASSUME NEW n \in Lore!Ids, n # 1 PROVE f[n - 1] \in V /\ Before[f[n - 1]] = f[n - 1] \cup ({memory[j].supersedes : j \in f[n - 1]} \ {None})
    <3>1. n - 1 \in Lore!Ids
      BY <2>1, BoundsAssumption DEF Lore!Ids
    <3> QED BY <1>3, <3>1 DEF Before
  <2>2. \A n \in Lore!Ids : (IF n = 1 THEN {i} ELSE f[n - 1] \cup ({memory[j].supersedes : j \in f[n - 1]} \ {None}))
                             = (IF n = 1 THEN {i} ELSE Before[f[n - 1]])
    BY <2>1, Zenon
  <2>3. f = [n \in Lore!Ids |-> f[n]]
    BY <1>3
  <2>4. ASSUME Walks(f, i) PROVE \A n \in Lore!Ids : f[n] = IF n = 1 THEN {i} ELSE Before[f[n - 1]]
    <3>1. \A n \in Lore!Ids : f[n] = IF n = 1 THEN {i} ELSE f[n - 1] \cup ({memory[j].supersedes : j \in f[n - 1]} \ {None})
      BY <2>4, Zenon DEF Walks
    <3> QED BY <2>2, <3>1, Zenon
  <2>5. ASSUME \A n \in Lore!Ids : f[n] = IF n = 1 THEN {i} ELSE Before[f[n - 1]] PROVE Walks(f, i)
    <3>1. \A n \in Lore!Ids : f[n] = IF n = 1 THEN {i} ELSE f[n - 1] \cup ({memory[j].supersedes : j \in f[n - 1]} \ {None})
      BY <2>2, <2>5, Zenon
    <3> QED BY <2>3, <3>1 DEF Walks
  <2> QED BY <2>4, <2>5, Zenon
<1>4. Walks(g, i) /\ g \in [Lore!Ids -> V]
  BY <1>2, <1>3, Zenon DEF Lore!Ids
<1> DEFINE h == CHOOSE f : Walks(f, i)
<1>5. Walks(h, i)
  BY <1>4
<1>6. Lore!History(i) = h[MaxRows]
  BY DEF Lore!History, Walks
<1> HIDE DEF h
<1>7. h = g
  <2> DEFINE T == {n \in Nat : n + 1 \in Lore!Ids => h[n + 1] = g[n + 1]}
  <2>1. 0 \in T
    BY <1>4, <1>5 DEF Walks
  <2>2. ASSUME NEW n \in T PROVE n + 1 \in T
    <3>1. SUFFICES ASSUME n + 1 + 1 \in Lore!Ids PROVE h[n + 1 + 1] = g[n + 1 + 1]
      OBVIOUS
    <3>2. n + 1 \in Lore!Ids /\ n + 1 + 1 # 1 /\ n + 1 + 1 - 1 = n + 1
      BY <3>1, BoundsAssumption DEF Lore!Ids
    <3>3. h[n + 1] = g[n + 1]
      BY <3>2
    <3>4. ASSUME NEW f, Walks(f, i), NEW m \in Lore!Ids, m # 1
          PROVE  f[m] = f[m - 1] \cup ({memory[j].supersedes : j \in f[m - 1]} \ {None})
      BY <3>4, Zenon DEF Walks
    <3>5. g[n + 1 + 1] = g[n + 1] \cup ({memory[j].supersedes : j \in g[n + 1]} \ {None})
      <4>1. \A m \in Lore!Ids : m # 1 => g[m] = g[m - 1] \cup ({memory[j].supersedes : j \in g[m - 1]} \ {None})
        BY <1>4, <3>4, Zenon
      <4> QED BY <3>1, <3>2, <4>1
    <3>6. h[n + 1 + 1] = h[n + 1] \cup ({memory[j].supersedes : j \in h[n + 1]} \ {None})
      BY <1>5, <3>1, <3>2, <3>4
    <3> QED BY <3>3, <3>5, <3>6
  <2>3. Nat \subseteq T
    <3>1. T \in SUBSET Nat
      OBVIOUS
    <3> HIDE DEF T
    <3> QED BY <2>1, <2>2, <3>1, NatSetInduction
  <2>4. \A n \in Lore!Ids : h[n] = g[n]
    <3>1. SUFFICES ASSUME NEW n \in Lore!Ids PROVE h[n] = g[n]
      OBVIOUS
    <3>2. n - 1 \in Nat /\ n - 1 + 1 = n
      BY BoundsAssumption DEF Lore!Ids
    <3> QED BY <2>3, <3>2
  <2>5. h = [n \in Lore!Ids |-> h[n]] /\ g = [n \in Lore!Ids |-> g[n]]
    BY <1>4, <1>5 DEF Walks
  <2> QED BY <2>4, <2>5
<1> QED
  BY <1>2, <1>4, <1>6, <1>7, Zenon DEF Lore!Ids

\* The history of a memory has every version from the first to it, each once.
LEMMA HistoriesAreWhole ==
  ASSUME LoreInv, NEW i \in Lore!Made
  PROVE  /\ {memory[j].version : j \in Lore!History(i)} = 1 .. memory[i].version
         /\ Cardinality(Lore!History(i)) = memory[i].version
<1>1. PICK f : /\ Lore!History(i) = f[MaxRows] /\ f \in [Lore!Ids -> SUBSET Lore!Made]
               /\ \A n \in Lore!Ids : f[n] = IF n = 1 THEN {i} ELSE Before[f[n - 1]]
  BY HistoryWalks
<1> DEFINE ver == [j \in Lore!Made |-> memory[j].version]  sup == [j \in Lore!Made |-> memory[j].supersedes]
           v == ver[i]
<1>2. /\ ver \in [Lore!Made -> Nat]
      /\ \A j \in Lore!Made : /\ ver[j] >= 1 /\ ver[j] <= MaxRows
                              /\ sup[j] = None <=> ver[j] = 1
                              /\ sup[j] # None => sup[j] \in Lore!Made /\ ver[j] = ver[sup[j]] + 1
  <2>1. ASSUME NEW j \in Lore!Made PROVE memory[j].version \in Nat /\ memory[j].version >= 1
    <3>1. memory[j] \in MadeRows
      BY MadeIs DEF LoreInv
    <3> QED BY <3>1 DEF MadeRows, Lore!Ids
  <2>2. \A j \in Lore!Made : memory[j].version <= MaxRows
    BY <2>1, MadeSizes, BoundsAssumption DEF LoreInv, ChainInv
  <2> QED BY <2>1, <2>2 DEF LoreInv, ChainInv
<1>3. \A n \in Lore!Ids : n # 1 => n - 1 \in Lore!Ids
                                 /\ f[n] = f[n - 1] \cup ({sup[j] : j \in f[n - 1]} \ {None})
  <2>1. ASSUME NEW n \in Lore!Ids, n # 1 PROVE n - 1 \in Lore!Ids /\ f[n] = f[n - 1] \cup ({sup[j] : j \in f[n - 1]} \ {None})
    <3>1. n - 1 \in Lore!Ids
      BY <2>1, BoundsAssumption DEF Lore!Ids
    <3>2. f[n - 1] \subseteq Lore!Made
      BY <1>1, <3>1
    <3>3. f[n] = f[n - 1] \cup ({memory[j].supersedes : j \in f[n - 1]} \ {None})
      BY <1>1, <2>1, <3>2, Zenon DEF Before
    <3> QED BY <3>1, <3>2, <3>3, Zenon
  <2> QED BY <2>1
<1>4. f[1] = {i} /\ 1 \in Lore!Ids /\ MaxRows \in Lore!Ids /\ \A n \in Lore!Ids : f[n] \subseteq Lore!Made
  <2>1. MaxRows >= 1
    <3>1. ver[i] \in Nat /\ ver[i] >= 1 /\ ver[i] <= MaxRows
      BY <1>2, Zenon
    <3> HIDE DEF ver
    <3> QED BY <3>1, BoundsAssumption
  <2> QED BY <1>1, <2>1, BoundsAssumption DEF Lore!Ids
<1>5. v \in Nat /\ v >= 1 /\ v <= MaxRows
  BY <1>2, Zenon
<1> HIDE DEF ver, sup, v
<1> DEFINE P(n) == /\ \A j \in f[n] : ver[j] <= v /\ ver[j] + n >= v + 1
                   /\ \A m \in 1 .. v : m + n >= v + 1 => \E j \in f[n] : ver[j] = m
                   /\ \A j, k \in f[n] : ver[j] = ver[k] => j = k
                   /\ \A j \in f[n] : ver[j] + n >= v + 2 /\ sup[j] # None => sup[j] \in f[n]
           T == {n \in Nat : n + 1 \in Lore!Ids => P(n + 1)}
<1>6. P(1)
  BY <1>2, <1>4, <1>5 DEF v
<1>7. ASSUME NEW n \in Lore!Ids, n + 1 \in Lore!Ids, P(n) PROVE P(n + 1)
  <2>0. n \in Nat /\ n + 1 # 1 /\ n + 1 - 1 = n
    BY BoundsAssumption DEF Lore!Ids
  <2>1. f[n] \subseteq Lore!Made /\ f[n + 1] = f[n] \cup ({sup[j] : j \in f[n]} \ {None})
    BY <1>3, <1>4, <1>7, <2>0
  <2>2. \A x \in f[n + 1] : x \in f[n] \/ \E j \in f[n] : x = sup[j] /\ sup[j] # None /\ ver[j] = ver[x] + 1
    BY <1>2, <2>1
  <2>3. \A x \in f[n + 1] : x \in Lore!Made /\ ver[x] \in Nat /\ ver[x] >= 1
    BY <1>2, <1>4, <1>7
  <2>4. \A x \in f[n + 1] : ver[x] <= v /\ ver[x] + (n + 1) >= v + 1
    BY <1>2, <1>5, <1>7, <2>0, <2>1, <2>2, <2>3
  <2>5. \A x \in f[n + 1] : ver[x] + n >= v + 1 => x \in f[n]
    BY <1>2, <1>5, <1>7, <2>0, <2>1, <2>2, <2>3
  <2>6. ASSUME NEW m \in 1 .. v, m + (n + 1) >= v + 1 PROVE \E j \in f[n + 1] : ver[j] = m
    <3>1. CASE m + n >= v + 1
      BY <1>7, <2>1, <3>1
    <3>2. CASE ~(m + n >= v + 1)
      <4>1. m + 1 \in 1 .. v /\ (m + 1) + n >= v + 1
        BY <1>5, <2>0, <2>6, <3>2
      <4>2. PICK j \in f[n] : ver[j] = m + 1
        BY <1>7, <4>1
      <4>3. sup[j] # None /\ ver[sup[j]] = m
        BY <1>2, <2>1, <4>2
      <4> QED BY <2>1, <4>3
    <3> QED BY <3>1, <3>2
  <2>7. ASSUME NEW x \in f[n + 1], NEW y \in f[n + 1], ver[x] = ver[y] PROVE x = y
    <3>1. CASE ver[x] + n >= v + 1
      BY <1>7, <2>5, <2>7, <3>1
    <3>2. CASE ~(ver[x] + n >= v + 1)
      <4>1. x \notin f[n] /\ y \notin f[n]
        BY <1>7, <2>7, <3>2
      <4>2. PICK j \in f[n] : x = sup[j] /\ ver[j] = ver[x] + 1
        BY <2>2, <4>1
      <4>3. PICK k \in f[n] : y = sup[k] /\ ver[k] = ver[y] + 1
        BY <2>2, <4>1
      <4> QED BY <1>7, <2>7, <4>2, <4>3
    <3> QED BY <3>1, <3>2
  <2>8. \A j \in f[n + 1] : ver[j] + (n + 1) >= v + 2 /\ sup[j] # None => sup[j] \in f[n + 1]
    BY <1>5, <2>0, <2>1, <2>3, <2>5
  <2> QED BY <2>4, <2>6, <2>7, <2>8
<1> HIDE DEF P
<1>8. 0 \in T
  BY <1>6
<1>9. ASSUME NEW n \in T PROVE n + 1 \in T
  <2>1. n + 1 + 1 \in Lore!Ids => n + 1 \in Lore!Ids
    BY BoundsAssumption DEF Lore!Ids
  <2> QED BY <1>7, <2>1
<1>10. Nat \subseteq T
  <2>1. T \in SUBSET Nat
    OBVIOUS
  <2> HIDE DEF T
  <2> QED BY <1>8, <1>9, <2>1, NatSetInduction
<1>11. P(MaxRows)
  <2>1. MaxRows - 1 \in T /\ MaxRows - 1 + 1 = MaxRows
    BY <1>4, <1>10, BoundsAssumption DEF Lore!Ids
  <2> QED BY <1>4, <2>1
<1> DEFINE H == f[MaxRows]  B == [j \in H |-> ver[j]]
<1>12. H \subseteq Lore!Made
  BY <1>4
<1>13. B \in Bijection(H, 1 .. v)
  <2>1. \A j \in H : ver[j] \in 1 .. v
    BY <1>2, <1>5, <1>11, <1>12 DEF P
  <2>2. \A m \in 1 .. v : \E j \in H : ver[j] = m
    BY <1>5, <1>11, BoundsAssumption DEF P
  <2>3. \A j, k \in H : ver[j] = ver[k] => j = k
    BY <1>11 DEF P
  <2> HIDE DEF H
  <2> QED BY <2>1, <2>2, <2>3 DEF Bijection, Injection, Surjection, IsInjective
<1>14. Cardinality(H) = v
  <2>1. IsFiniteSet(1 .. v) /\ Cardinality(1 .. v) = v
    BY <1>5, FS_Interval
  <2>2. IsFiniteSet(H)
    BY <1>12, MadeSizes, FS_Subset
  <2> HIDE DEF H, B
  <2>3. ExistsBijection(H, 1 .. v)
    BY <1>13 DEF ExistsBijection
  <2> QED BY <2>1, <2>2, <2>3, FS_Bijection
<1>15. {memory[j].version : j \in H} = 1 .. v
  <2>1. \A j \in H : memory[j].version = ver[j] /\ B[j] = ver[j]
    BY <1>12 DEF ver
  <2>2. \A j \in H : B[j] \in 1 .. v
    BY <1>13 DEF Bijection, Injection, Surjection
  <2>3. \A m \in 1 .. v : \E j \in H : B[j] = m
    BY <1>13 DEF Bijection, Surjection
  <2> HIDE DEF H, B
  <2> QED BY <2>1, <2>2, <2>3
<1> QED
  BY <1>1, <1>14, <1>15 DEF v, ver

\* Counting inside the instance is counting.
LEMMA LoreCounts == \A S : Lore!Cardinality(S) = Cardinality(S)
BY DEF Lore!Cardinality, Cardinality

\* The invariant is the one TeamIsToldRight asks of the memory.
LEMMA LoreSays == LoreInv => Lore!TypeOK /\ Lore!HistoryIsWhole /\ (alone => Lore!OneVoice)
<1> SUFFICES ASSUME LoreInv PROVE Lore!HistoryIsWhole /\ (alone => Lore!OneVoice)
  BY DEF LoreInv
<1>1. Lore!HistoryIsWhole
  BY HistoriesAreWhole, LoreCounts DEF Lore!HistoryIsWhole
<1>2. alone => Lore!OneVoice
  BY NoneAssumption DEF LoreInv, AloneInv, ChainInv, Lore!OneVoice, Lore!Told, Lore!Made, Lore!Ids
<1> QED BY <1>1, <1>2

-----------------------------------------------------------------------------
(***************************************************************************)
(* The knowledge base (Knowledge).                                         *)
(***************************************************************************)

\* The requests there are.
Uploads == [op : {"upload"}, doc : Docs, outcome : {"none", "ok", "bad", "no_embedding"},
            pages : SUBSET Base!Images, more : BOOLEAN]
Deletions == [op : {"delete"}, doc : Docs, all : SUBSET Base!Images, left : SUBSET Base!Images]
Questions == [op : {"ask"}, mode : {"semantic", "keyword"}, embedded : BOOLEAN, cited : Base!Shown,
              left : Base!Shown, attached : Base!Shown]

\* An upload has a document nobody else works on, and its images are those it counted.
UploadInv ==
  \A r \in Requests : asking[r].op = "upload" =>
    /\ row[asking[r].doc] = "none"
    /\ \A i \in asking[r].pages : i[1] = asking[r].doc
    /\ asking[r].outcome # "ok" => asking[r].pages = {}
    /\ ~transactional => {i \in image : i[1] = asking[r].doc} = asking[r].pages
    /\ \A s \in Requests : asking[s].op \in {"upload", "delete"} /\ asking[s].doc = asking[r].doc => s = r

\* A deletion knows the pages of its document while that is there, and what it removed
\* is gone.
DeletionInv ==
  \A r \in Requests : asking[r].op = "delete" =>
    /\ asking[r].left \subseteq asking[r].all
    /\ \A i \in asking[r].all : i[1] = asking[r].doc
    /\ row[asking[r].doc] # "none" => asking[r].all = {i \in leaf : i[1] = asking[r].doc}
    /\ ~transactional => (asking[r].all \ asking[r].left) \cap image = {}

\* Images without a row are of an upload that is open or was abandoned, and rows without
\* an image of a deletion that removed it and is open or was abandoned.
ImageInv ==
  /\ transactional => image = leaf
  /\ \A i \in image : row[i[1]] # "none" => i \in leaf
  /\ ~transactional =>
       /\ \A i \in image \ leaf : \/ i[1] \in abandoned
                                  \/ \E r \in Requests : asking[r].op = "upload" /\ asking[r].doc = i[1]
       /\ \A i \in leaf \ image : \/ i[1] \in abandoned
                                  \/ \E r \in Requests : asking[r].op = "delete" /\ asking[r].doc = i[1]
                                                         /\ i \in asking[r].all \ asking[r].left

\* An answer shows no more than it found.
QuestionInv ==
  \A r \in Requests : asking[r].op = "ask" =>
    /\ (asking[r].mode = "semantic") = asking[r].embedded
    /\ Len(asking[r].attached) + Len(asking[r].left) <= Len(asking[r].cited)

\* What has been shown of what was found, and what is still to be shown.
InOrder(q) ==
  /\ Len(q.attached) + Len(q.left) = Len(q.cited)
  /\ \A n \in 1 .. Len(q.attached) : q.attached[n] = q.cited[n]
  /\ \A n \in 1 .. Len(q.left) : q.left[n] = q.cited[Len(q.attached) + n]
  /\ \A n \in 1 .. Len(q.left) : q.left[n] \in image

\* One request at a time indexes a file while it is not, and shows every page it found.
OneByOneInv ==
  /\ \A r, s \in Requests : asking[r] # Base!Idle /\ asking[s] # Base!Idle => r = s
  /\ \A d, e \in Docs : row[d] = "completed" /\ row[e] = "completed" => d = e
  /\ \A r \in Requests : asking[r].op = "upload" => \A d \in Docs : row[d] # "completed"
  /\ abandoned = {} => \A r \in Requests : asking[r].op = "ask" => InOrder(asking[r])

BaseInv ==
  /\ Base!TypeOK /\ Base!SearchableIffCompleted
  /\ UploadInv /\ DeletionInv /\ ImageInv /\ QuestionInv
  /\ transactional \in BOOLEAN /\ (alone => OneByOneInv)

\* What a request in progress may be.
LEMMA AskingIs ==
  ASSUME BaseInv, NEW r \in Requests
  PROVE  /\ asking[r].op = "upload" => asking[r] \in Uploads
         /\ asking[r].op = "delete" => asking[r] \in Deletions
         /\ asking[r].op = "ask" => asking[r] \in Questions
         /\ asking[r].op \in {"idle", "upload", "delete", "ask"}
         /\ asking[r] = Base!Idle <=> asking[r].op = "idle"
<1>1. asking[r] \in {Base!Idle} \cup Uploads \cup Deletions \cup Questions
  BY DEF BaseInv, Base!TypeOK, Uploads, Deletions, Questions
<1>2. Base!Idle.op = "idle"
  BY DEF Base!Idle
<1>3. /\ \A q \in Uploads : q.op = "upload"
      /\ \A q \in Deletions : q.op = "delete"
      /\ \A q \in Questions : q.op = "ask"
  BY DEF Uploads, Deletions, Questions
<1> QED
  BY <1>1, <1>2, <1>3

\* What is shown is a sequence of pages no longer than the limit.
LEMMA ShownAre ==
  ASSUME NEW x
  PROVE  x \in Base!Shown <=> x \in Seq(Base!Images) /\ Len(x) <= TopK
<1>1. ASSUME x \in Base!Shown PROVE x \in Seq(Base!Images) /\ Len(x) <= TopK
  <2>1. PICK n \in 0 .. TopK : x \in [1 .. n -> Base!Images]
    BY <1>1 DEF Base!Shown
  <2> QED BY <2>1, BoundsAssumption
<1>2. ASSUME x \in Seq(Base!Images), Len(x) <= TopK PROVE x \in Base!Shown
  <2>1. Len(x) \in 0 .. TopK /\ x \in [1 .. Len(x) -> Base!Images]
    BY <1>2, BoundsAssumption
  <2> QED BY <2>1 DEF Base!Shown
<1> QED BY <1>1, <1>2

\* Counting inside the instance is counting.
LEMMA BaseCounts == \A S : Base!Cardinality(S) = Cardinality(S)
BY DEF Base!Cardinality, Cardinality

\* The invariant is the one SearchIsHonest asks of the knowledge base.
LEMMA BaseSays ==
  BaseInv => /\ Base!TypeOK /\ Base!SearchableIffCompleted /\ Base!RowsAndImages /\ Base!SaysDegraded
             /\ alone => Base!OneCopy /\ Base!CitedAreSeen
<1> SUFFICES ASSUME BaseInv
             PROVE  Base!RowsAndImages /\ Base!SaysDegraded /\ (alone => Base!OneCopy /\ Base!CitedAreSeen)
  BY DEF BaseInv
<1>1. Base!RowsAndImages
  BY DEF BaseInv, ImageInv, Base!RowsAndImages
<1>2. Base!SaysDegraded
  BY Zenon DEF BaseInv, QuestionInv, Base!SaysDegraded
<1>3. ASSUME alone PROVE Base!OneCopy
  <2> DEFINE C == {d \in Docs : row[d] = "completed"}
  <2>1. Cardinality(C) <= 1
    <3>1. CASE C = {}
      BY <3>1, FS_EmptySet
    <3>2. CASE C # {}
      <4>1. PICK d : C = {d}
        BY <1>3, <3>2 DEF BaseInv, OneByOneInv
      <4>2. Cardinality({d}) = 1
        BY FS_Singleton
      <4> QED BY <4>1, <4>2
    <3> QED BY <3>1, <3>2
  <2> QED BY <2>1, BaseCounts DEF Base!OneCopy
<1>4. ASSUME alone PROVE Base!CitedAreSeen
  <2>1. SUFFICES ASSUME abandoned = {}, NEW r \in Requests, asking[r].op = "ask", asking[r].left = <<>>
                 PROVE  asking[r].attached = asking[r].cited
    BY DEF Base!CitedAreSeen, Base!Cited
  <2>2. asking[r].attached \in Seq(Base!Images) /\ asking[r].cited \in Seq(Base!Images)
    BY <2>1, AskingIs, ShownAre DEF Questions
  <2>3. InOrder(asking[r])
    BY <1>4, <2>1 DEF BaseInv, OneByOneInv
  <2> QED
    BY <2>1, <2>2, <2>3 DEF InOrder
<1> QED
  BY <1>1, <1>2, <1>3, <1>4

\* An empty knowledge base satisfies the invariant.
LEMMA BaseInit == Base!Init => BaseInv
<1> SUFFICES ASSUME Base!Init PROVE BaseInv
  OBVIOUS
<1>1. \A r \in Requests : asking[r] = Base!Idle /\ asking[r].op = "idle"
  BY DEF Base!Init, Base!Idle
<1>2. Base!TypeOK
  BY DEF Base!Init, Base!TypeOK
<1>3. Base!SearchableIffCompleted /\ ImageInv
  BY DEF Base!Init, Base!SearchableIffCompleted, ImageInv
<1> QED
  BY <1>1, <1>2, <1>3, Zenon DEF BaseInv, Base!Init, UploadInv, DeletionInv, QuestionInv, OneByOneInv

\* One request at a time.
LEMMA OneAsking ==
  ASSUME alone, Base!Serialised'
  PROVE  \A r, s \in Requests : asking'[r] # Base!Idle /\ asking'[s] # Base!Idle => r = s
<1> DEFINE open == {r \in Requests : asking'[r] # Base!Idle}
<1>1. Cardinality(open) <= 1
  BY BaseCounts DEF Base!Serialised, Base!Idle
<1>2. IsFiniteSet(open)
  BY FiniteAssumption, FS_Subset
<1> QED
  BY <1>1, <1>2, AtMostOne

\* Request r becomes the upload q: one that begins, or that goes on with its document.
UploadGoesOn(r, q) ==
  /\ q \in Uploads /\ asking' = [asking EXCEPT ![r] = q]
  /\ asking[r].op = "idle" \/ (asking[r].op = "upload" /\ asking[r].doc = q.doc)
  /\ row[q.doc] = "none" /\ (alone => \A d \in Docs : row[d] # "completed")
  /\ \A i \in q.pages : i[1] = q.doc
  /\ q.outcome # "ok" => q.pages = {}
  /\ ~transactional => {i \in image' : i[1] = q.doc} = q.pages
  /\ \A s \in Requests \ {r} : asking[s].op \in {"upload", "delete"} => asking[s].doc # q.doc
  /\ \/ image' = image
     \/ ~transactional /\ \E i \in Base!Images : i[1] = q.doc /\ image' = image \cup {i}

\* An upload that goes on without touching the tables keeps the invariant.
LEMMA UploadMoves ==
  ASSUME BaseInv, alone' = alone, alone => Base!Serialised',
         UNCHANGED <<transactional, row, chunk, leaf, abandoned>>,
         NEW r \in Requests, NEW q, UploadGoesOn(r, q)
  PROVE  BaseInv'
<1> USE DEF UploadGoesOn
<1>1. asking'[r] = q /\ \A s \in Requests \ {r} : asking'[s] = asking[s]
  BY DEF BaseInv, Base!TypeOK
<1>2. q.op = "upload" /\ q.doc \in Docs /\ image' \subseteq Base!Images
  BY DEF Uploads, BaseInv, Base!TypeOK
<1>3. Base!TypeOK'
  BY <1>2 DEF Uploads, BaseInv, Base!TypeOK, Base!Idle, Base!Images, Base!Shown
<1>4. Base!SearchableIffCompleted'
  BY DEF BaseInv, Base!SearchableIffCompleted
<1>5. \A i \in image' : i \in image \/ (i[1] = q.doc /\ ~transactional)
  OBVIOUS
<1>6. UploadInv'
  <2>1. ASSUME NEW s \in Requests, asking[s].op = "upload", s # r, ~transactional
        PROVE  {i \in image' : i[1] = asking[s].doc} = asking[s].pages
    <3>1. asking[s].doc # q.doc
      BY <2>1
    <3>2. {i \in image' : i[1] = asking[s].doc} = {i \in image : i[1] = asking[s].doc}
      BY <3>1
    <3> QED BY <2>1, <3>2 DEF BaseInv, UploadInv
  <2>2. ASSUME NEW s \in Requests, asking'[s].op = "upload"
        PROVE  /\ row[asking'[s].doc] = "none" /\ \A i \in asking'[s].pages : i[1] = asking'[s].doc
               /\ asking'[s].outcome # "ok" => asking'[s].pages = {}
               /\ ~transactional => {i \in image' : i[1] = asking'[s].doc} = asking'[s].pages
    BY <1>1, <2>1, <2>2 DEF BaseInv, UploadInv
  <2>3. ASSUME NEW s \in Requests, NEW t \in Requests, asking'[s].op = "upload",
               asking'[t].op \in {"upload", "delete"}, asking'[t].doc = asking'[s].doc
        PROVE  s = t
    BY <1>1, <1>2, <2>3 DEF BaseInv, UploadInv
  <2> QED BY <2>2, <2>3 DEF UploadInv
<1>7. DeletionInv'
  <2>1. ASSUME NEW s \in Requests, asking'[s].op = "delete" PROVE asking[s].op = "delete" /\ asking'[s] = asking[s] /\ asking[s].doc # q.doc
    BY <1>1, <1>2, <2>1
  <2> QED BY <1>5, <2>1 DEF BaseInv, DeletionInv
<1>8. ImageInv'
  <2>1. transactional => image' = leaf
    BY DEF BaseInv, ImageInv
  <2>2. \A i \in image' : row[i[1]] # "none" => i \in leaf
    BY <1>5 DEF BaseInv, ImageInv
  <2>3. ~transactional => \A i \in image' \ leaf : \/ i[1] \in abandoned
                                                   \/ \E s \in Requests : asking'[s].op = "upload" /\ asking'[s].doc = i[1]
    BY <1>1, <1>2, <1>5 DEF BaseInv, ImageInv
  <2>4. ~transactional =>
          \A i \in leaf \ image' : \/ i[1] \in abandoned
                                   \/ \E s \in Requests : asking'[s].op = "delete" /\ asking'[s].doc = i[1]
                                                          /\ i \in asking'[s].all \ asking'[s].left
    BY <1>1 DEF BaseInv, ImageInv
  <2> QED BY <2>1, <2>2, <2>3, <2>4 DEF ImageInv
<1>9. QuestionInv'
  BY <1>1, <1>2, Zenon DEF BaseInv, QuestionInv
<1>10. alone => OneByOneInv'
  <2> SUFFICES ASSUME alone PROVE OneByOneInv'
    OBVIOUS
  <2>1. \A s \in Requests : asking'[s].op = "ask" => s = r
    BY <1>1, <1>2, AskingIs, OneAsking DEF Base!Idle
  <2> QED BY <1>1, <1>2, <2>1, OneAsking DEF BaseInv, OneByOneInv, Base!Idle
<1> QED
  BY <1>3, <1>4, <1>6, <1>7, <1>8, <1>9, <1>10 DEF BaseInv

\* An upload that begins keeps the invariant (upload_document).
LEMMA BeginUploadStep ==
  ASSUME BaseInv, alone' = alone, alone => Base!Serialised', NEW r \in Requests, Base!BeginUpload(r)
  PROVE  BaseInv'
<1>1. PICK d \in Base!Fresh :
        asking' = [asking EXCEPT ![r] = [op |-> "upload", doc |-> d, outcome |-> "none", pages |-> {}, more |-> TRUE]]
  BY Zenon DEF Base!BeginUpload, Base!Open
<1>2. PICK q : q = [op |-> "upload", doc |-> d, outcome |-> "none", pages |-> {}, more |-> TRUE]
  BY Zenon
<1>3. /\ UNCHANGED <<transactional, row, chunk, leaf, image, abandoned>>
      /\ asking[r] = Base!Idle /\ \A e \in Docs : row[e] # "completed"
  BY DEF Base!BeginUpload, Base!Open, Base!Existing
<1>4. /\ d \in Docs /\ row[d] = "none" /\ \A i \in image : i[1] # d
      /\ \A s \in Requests : asking[s].op \in {"upload", "delete"} => asking[s].doc # d
  BY DEF Base!Fresh, Base!Of, Base!Known, BaseInv, Base!TypeOK
<1>5. q \in Uploads /\ q.doc = d /\ q.outcome = "none" /\ q.pages = {}
  BY <1>2, <1>4 DEF Uploads
<1>6. asking' = [asking EXCEPT ![r] = q] /\ asking[r].op = "idle"
  BY <1>1, <1>2, <1>3 DEF Base!Idle
<1>7. UploadGoesOn(r, q)
  BY <1>3, <1>4, <1>5, <1>6 DEF UploadGoesOn
<1> QED
  BY <1>3, <1>7, UploadMoves

\* Indexing the text or a page keeps the invariant, and so does stopping early.
LEMMA UploadStep ==
  ASSUME BaseInv, alone' = alone, alone => Base!Serialised', NEW r \in Requests,
         Base!IndexText(r) \/ Base!IndexPage(r) \/ Base!StopPages(r)
  PROVE  BaseInv'
<1> DEFINE q == asking[r]
<1>1. /\ q.op = "upload" /\ q \in Uploads
      /\ UNCHANGED <<transactional, row, chunk, leaf, abandoned>>
  BY AskingIs, Zenon DEF Base!IndexText, Base!IndexPage, Base!StopPages
<1>2. /\ row[q.doc] = "none" /\ \A i \in q.pages : i[1] = q.doc
      /\ q.outcome # "ok" => q.pages = {}
      /\ ~transactional => {i \in image : i[1] = q.doc} = q.pages
      /\ \A s \in Requests \ {r} : asking[s].op \in {"upload", "delete"} => asking[s].doc # q.doc
  BY <1>1 DEF BaseInv, UploadInv
<1>3. alone => \A d \in Docs : row[d] # "completed"
  BY <1>1 DEF BaseInv, OneByOneInv
<1>4. CASE Base!IndexText(r)
  <2>1. PICK o \in {"ok", "bad", "no_embedding"} : asking' = [asking EXCEPT ![r] = [q EXCEPT !.outcome = o, !.more = o = "ok"]]
    BY <1>4, Zenon DEF Base!IndexText, Base!Turn
  <2>2. PICK w : w = [q EXCEPT !.outcome = o, !.more = o = "ok"]
    OBVIOUS
  <2>3. image' = image /\ q.outcome = "none"
    BY <1>4 DEF Base!IndexText
  <2>4. w \in Uploads /\ w.doc = q.doc /\ w.pages = q.pages /\ q.pages = {}
    BY <1>1, <1>2, <2>2, <2>3, Zenon DEF Uploads
  <2>5. asking' = [asking EXCEPT ![r] = w]
    BY <2>1, <2>2
  <2>6. UploadGoesOn(r, w)
    BY <1>1, <1>2, <1>3, <2>3, <2>4, <2>5 DEF UploadGoesOn
  <2> QED
    BY <1>1, <2>6, UploadMoves
<1>5. CASE Base!StopPages(r)
  <2>1. PICK w : w = [q EXCEPT !.more = FALSE]
    BY Zenon
  <2>2. asking' = [asking EXCEPT ![r] = w] /\ image' = image
    BY <1>5, <2>1 DEF Base!StopPages, Base!Turn
  <2>3. w \in Uploads /\ w.doc = q.doc /\ w.pages = q.pages /\ w.outcome = q.outcome
    BY <1>1, <2>1, Zenon DEF Uploads
  <2>4. UploadGoesOn(r, w)
    BY <1>1, <1>2, <1>3, <2>2, <2>3 DEF UploadGoesOn
  <2> QED
    BY <1>1, <2>4, UploadMoves
<1>6. CASE Base!IndexPage(r)
  <2>1. PICK i \in Base!Of(q.doc) \ q.pages, ok \in {TRUE, transactional} :
          /\ image' = IF ok /\ ~transactional THEN image \cup {i} ELSE image
          /\ asking' = [asking EXCEPT ![r] = [q EXCEPT !.pages = Base!Counted(q, i, ok), !.more = ok]]
    BY <1>6, Zenon DEF Base!IndexPage, Base!Turn
  <2>2. PICK w : w = [q EXCEPT !.pages = Base!Counted(q, i, ok), !.more = ok]
    OBVIOUS
  <2>3. i \in Base!Images /\ i[1] = q.doc /\ q.outcome = "ok" /\ ok \in BOOLEAN
    <3>1. i \in Base!Images /\ i[1] = q.doc
      BY DEF Base!Of
    <3>2. q.outcome = "ok"
      BY <1>6, Zenon DEF Base!IndexPage
    <3>3. transactional \in BOOLEAN
      BY DEF BaseInv
    <3>4. ok \in BOOLEAN
      BY <3>3, Zenon
    <3> QED BY <3>1, <3>2, <3>4
  <2>4. PICK n : n = Base!Counted(q, i, ok)
    OBVIOUS
  <2>5. /\ n \in SUBSET Base!Images /\ (\A j \in n : j[1] = q.doc)
        /\ n = IF ok THEN q.pages \cup {i} ELSE q.pages
    BY <1>1, <1>2, <2>3, <2>4 DEF Base!Counted, Uploads
  <2>6. w \in Uploads /\ w.doc = q.doc /\ w.pages = n /\ w.outcome = "ok"
    BY <1>1, <2>2, <2>3, <2>4, <2>5, Zenon DEF Uploads
  <2>7. asking' = [asking EXCEPT ![r] = w]
    BY <2>1, <2>2
  <2>8. ~transactional => \/ image' = image \cup {i} /\ n = q.pages \cup {i}
                          \/ image' = image /\ n = q.pages
    BY <2>1, <2>3, <2>5
  <2>9. ~transactional => {j \in image' : j[1] = q.doc} = n
    BY <1>2, <2>3, <2>8
  <2>10. transactional => image' = image
    BY <2>1
  <2>11. \/ image' = image
         \/ ~transactional /\ \E j \in Base!Images : j[1] = q.doc /\ image' = image \cup {j}
    BY <2>3, <2>8, <2>10
  <2>12. w \in Uploads /\ row[w.doc] = "none" /\ asking[r].op = "upload" /\ asking[r].doc = w.doc
    BY <1>1, <1>2, <2>6
  <2>13. UploadGoesOn(r, w)
    BY <1>2, <1>3, <2>5, <2>6, <2>7, <2>9, <2>11, <2>12 DEF UploadGoesOn
  <2> QED
    BY <1>1, <2>13, UploadMoves
<1> QED
  BY <1>4, <1>5, <1>6

\* A deletion begins, or removes an image.
LEMMA DeletionMoves ==
  ASSUME BaseInv, alone' = alone, alone => Base!Serialised',
         NEW r \in Requests, (\E d \in Docs : Base!BeginDelete(r, d)) \/ Base!RemoveImage(r)
  PROVE  BaseInv'
<1>1. PICK q \in Deletions :
        /\ asking' = [asking EXCEPT ![r] = q]
        /\ asking[r].op = "idle" \/ (asking[r].op = "delete" /\ asking[r].doc = q.doc /\ asking[r].all = q.all)
        /\ q.left \subseteq q.all /\ (\A i \in q.all : i[1] = q.doc)
        /\ row[q.doc] # "none" => q.all = {i \in leaf : i[1] = q.doc}
        /\ UNCHANGED <<transactional, row, chunk, leaf, abandoned>>
        /\ \/ image' = image /\ (transactional \/ asking[r].op = "idle") /\ (asking[r].op = "idle" => q.left = q.all)
           \/ /\ ~transactional /\ asking[r].op = "delete"
              /\ \E i \in q.all : image' = image \ {i} /\ q.left = asking[r].left \ {i}
        /\ asking[r].op = "idle" => row[q.doc] # "none"
  <2>1. ASSUME NEW d \in Docs, Base!BeginDelete(r, d)
        PROVE  \E q \in Deletions :
                 /\ asking' = [asking EXCEPT ![r] = q]
                 /\ asking[r].op = "idle" /\ row[q.doc] # "none" /\ q.left = q.all
                 /\ q.all = {i \in leaf : i[1] = q.doc}
                 /\ UNCHANGED <<transactional, row, chunk, leaf, image, abandoned>>
    <3>1. PICK all : all = Base!References(d)
      OBVIOUS
    <3>2. all \subseteq Base!Images /\ all = {i \in leaf : i[1] = d}
      BY <3>1 DEF Base!References, Base!Of, BaseInv, Base!TypeOK
    <3>3. PICK q : q = [op |-> "delete", doc |-> d, all |-> all, left |-> all]
      BY Zenon
    <3>4. q \in Deletions /\ q.doc = d /\ q.all = all /\ q.left = all
      BY <3>2, <3>3 DEF Deletions
    <3>5. /\ asking' = [asking EXCEPT ![r] = q] /\ asking[r].op = "idle" /\ row[d] # "none"
          /\ UNCHANGED <<transactional, row, chunk, leaf, image, abandoned>>
      BY <2>1, <3>1, <3>3 DEF Base!BeginDelete, Base!Open, Base!Idle
    <3> QED
      BY <3>2, <3>4, <3>5, Zenon
  <2>2. ASSUME Base!RemoveImage(r)
        PROVE  \E q \in Deletions : \E i \in q.all :
                 /\ asking' = [asking EXCEPT ![r] = q]
                 /\ asking[r].op = "delete" /\ asking[r].doc = q.doc /\ asking[r].all = q.all
                 /\ q.left = asking[r].left \ {i} /\ asking[r].left \subseteq q.all
                 /\ image' = IF transactional THEN image ELSE image \ {i}
                 /\ UNCHANGED <<transactional, row, chunk, leaf, abandoned>>
    <3> DEFINE p == asking[r]
    <3>1. p.op = "delete" /\ p \in Deletions /\ p.left \subseteq p.all
      BY <2>2, AskingIs DEF Base!RemoveImage, BaseInv, DeletionInv
    <3>2. PICK i \in p.left : /\ asking' = [asking EXCEPT ![r] = [p EXCEPT !.left = @ \ {i}]]
                              /\ image' = IF transactional THEN image ELSE image \ {i}
      BY <2>2, Zenon DEF Base!RemoveImage, Base!Turn
    <3>3. PICK q : q = [p EXCEPT !.left = @ \ {i}]
      BY Zenon
    <3>4. q \in Deletions /\ q.doc = p.doc /\ q.all = p.all /\ q.left = p.left \ {i}
      BY <3>1, <3>3 DEF Deletions
    <3>5. UNCHANGED <<transactional, row, chunk, leaf, abandoned>>
      BY <2>2 DEF Base!RemoveImage
    <3>6. asking' = [asking EXCEPT ![r] = q] /\ i \in q.all
      BY <3>1, <3>2, <3>3, <3>4
    <3> QED
      BY <3>1, <3>2, <3>4, <3>5, <3>6, Zenon
  <2>3. CASE \E d \in Docs : Base!BeginDelete(r, d)
    BY <2>1, <2>3
  <2>4. CASE Base!RemoveImage(r)
    <3>1. PICK q \in Deletions : \E i \in q.all :
                 /\ asking' = [asking EXCEPT ![r] = q]
                 /\ asking[r].op = "delete" /\ asking[r].doc = q.doc /\ asking[r].all = q.all
                 /\ q.left = asking[r].left \ {i} /\ asking[r].left \subseteq q.all
                 /\ image' = IF transactional THEN image ELSE image \ {i}
                 /\ UNCHANGED <<transactional, row, chunk, leaf, abandoned>>
      BY <2>2, <2>4
    <3>2. (\A j \in q.all : j[1] = q.doc) /\ (row[q.doc] # "none" => q.all = {j \in leaf : j[1] = q.doc})
      BY <3>1 DEF BaseInv, DeletionInv
    <3> QED BY <3>1, <3>2, Zenon
  <2> QED BY <2>3, <2>4
<1>2. asking'[r] = q /\ \A s \in Requests \ {r} : asking'[s] = asking[s]
  BY <1>1 DEF BaseInv, Base!TypeOK
<1>3. q.op = "delete" /\ q.doc \in Docs /\ image' \subseteq image /\ image' \subseteq Base!Images
  BY <1>1 DEF Deletions, BaseInv, Base!TypeOK
<1>4. Base!TypeOK'
  BY <1>1, <1>3 DEF Deletions, BaseInv, Base!TypeOK, Base!Idle, Base!Images, Base!Shown
<1>5. Base!SearchableIffCompleted'
  BY <1>1 DEF BaseInv, Base!SearchableIffCompleted
<1>6. \A s \in Requests : asking[s].op = "upload" => asking[s].doc # q.doc /\ s # r /\ asking'[s] = asking[s]
  BY <1>1, <1>2 DEF BaseInv, UploadInv
<1>7. \A i \in image \ image' : i \in q.all \ q.left /\ i[1] = q.doc
  BY <1>1
<1>8. UploadInv'
  <2>1. ASSUME NEW s \in Requests, asking'[s].op = "upload"
        PROVE  asking[s].op = "upload" /\ s # r /\ asking'[s] = asking[s] /\ asking[s].doc # q.doc
    BY <1>2, <1>3, <1>6, <2>1
  <2>2. ASSUME NEW s \in Requests, asking'[s].op = "upload", ~transactional
        PROVE  {i \in image' : i[1] = asking[s].doc} = asking[s].pages
    <3>1. {i \in image' : i[1] = asking[s].doc} = {i \in image : i[1] = asking[s].doc}
      BY <1>3, <1>7, <2>1, <2>2
    <3> QED BY <2>1, <2>2, <3>1 DEF BaseInv, UploadInv
  <2>3. ASSUME NEW s \in Requests, NEW t \in Requests, asking'[s].op = "upload",
               asking'[t].op \in {"upload", "delete"}, asking'[t].doc = asking'[s].doc
        PROVE  t = s
    BY <1>2, <1>3, <2>1, <2>3 DEF BaseInv, UploadInv
  <2> QED BY <1>1, <2>1, <2>2, <2>3 DEF BaseInv, UploadInv
<1>9. DeletionInv'
  <2>1. ASSUME ~transactional PROVE (q.all \ q.left) \cap image' = {}
    BY <1>1, <2>1 DEF BaseInv, DeletionInv
  <2>2. ASSUME NEW s \in Requests \ {r}, asking'[s].op = "delete"
        PROVE  /\ asking'[s].left \subseteq asking'[s].all
               /\ \A i \in asking'[s].all : i[1] = asking'[s].doc
               /\ row[asking'[s].doc] # "none" => asking'[s].all = {i \in leaf : i[1] = asking'[s].doc}
               /\ ~transactional => (asking'[s].all \ asking'[s].left) \cap image' = {}
    BY <1>2, <1>3, <2>2 DEF BaseInv, DeletionInv
  <2> QED BY <1>1, <1>2, <2>1, <2>2 DEF DeletionInv
<1>10. ImageInv'
  <2>1. transactional => image' = leaf
    BY <1>1 DEF BaseInv, ImageInv
  <2>2. \A i \in image' : row[i[1]] # "none" => i \in leaf
    BY <1>3 DEF BaseInv, ImageInv
  <2>3. ASSUME ~transactional, NEW i \in image' \ leaf, i[1] \notin abandoned
        PROVE  \E s \in Requests : asking'[s].op = "upload" /\ asking'[s].doc = i[1]
    <3>1. PICK s \in Requests : asking[s].op = "upload" /\ asking[s].doc = i[1]
      BY <1>3, <2>3 DEF BaseInv, ImageInv
    <3> QED BY <1>6, <3>1
  <2>4. ASSUME ~transactional, NEW i \in leaf \ image', i[1] \notin abandoned
        PROVE  \E s \in Requests : /\ asking'[s].op = "delete" /\ asking'[s].doc = i[1]
                                   /\ i \in asking'[s].all \ asking'[s].left
    <3>1. CASE i \in image
      BY <1>2, <1>3, <1>7, <2>4, <3>1
    <3>2. CASE i \notin image
      <4>1. PICK s \in Requests : /\ asking[s].op = "delete" /\ asking[s].doc = i[1]
                                  /\ i \in asking[s].all \ asking[s].left
        BY <2>4, <3>2 DEF BaseInv, ImageInv
      <4>2. CASE s = r
        <5>1. i \in q.all \ q.left /\ q.doc = i[1]
          BY <1>1, <2>4, <4>1, <4>2
        <5> QED BY <1>2, <1>3, <5>1
      <4>3. CASE s # r
        BY <1>2, <4>1, <4>3
      <4> QED BY <4>2, <4>3
    <3> QED BY <3>1, <3>2
  <2> QED BY <1>1, <2>1, <2>2, <2>3, <2>4 DEF ImageInv
<1>11. QuestionInv'
  BY <1>2, <1>3, Zenon DEF BaseInv, QuestionInv
<1>12. ASSUME alone PROVE OneByOneInv'
  <2>1. Base!Serialised'
    BY <1>12
  <2>2. \A s, t \in Requests : asking'[s] # Base!Idle /\ asking'[t] # Base!Idle => s = t
    BY <1>12, <2>1, OneAsking
  <2>3. \A s \in Requests : asking'[s].op \in {"ask", "upload", "delete"} => s = r
    BY <1>2, <1>3, <2>2 DEF Base!Idle
  <2>4. \A d, e \in Docs : row[d] = "completed" /\ row[e] = "completed" => d = e
    BY <1>12 DEF BaseInv, OneByOneInv
  <2> QED BY <1>1, <1>2, <1>3, <2>2, <2>3, <2>4 DEF OneByOneInv
<1> QED
  BY <1>1, <1>4, <1>5, <1>8, <1>9, <1>10, <1>11, <1>12 DEF BaseInv

\* A question is asked, or goes on with its pages.
QuestionGoesOn(r, q) ==
  /\ q \in Questions /\ asking' = [asking EXCEPT ![r] = q]
  /\ asking[r].op \in {"idle", "ask"}
  /\ (q.mode = "semantic") = q.embedded
  /\ Len(q.attached) + Len(q.left) <= Len(q.cited)
  /\ alone /\ abandoned = {} => InOrder(q)
  /\ UNCHANGED <<transactional, row, chunk, leaf, image, abandoned>>

\* A question that goes on keeps the invariant.
LEMMA QuestionMoves ==
  ASSUME BaseInv, alone' = alone, alone => Base!Serialised',
         NEW r \in Requests, NEW q, QuestionGoesOn(r, q)
  PROVE  BaseInv'
<1> USE DEF QuestionGoesOn
<1>1. asking'[r] = q /\ \A s \in Requests \ {r} : asking'[s] = asking[s]
  BY DEF BaseInv, Base!TypeOK
<1>2. q.op = "ask"
  BY DEF Questions
<1>3. Base!TypeOK'
  BY DEF Questions, BaseInv, Base!TypeOK, Base!Idle, Base!Images, Base!Shown
<1>4. Base!SearchableIffCompleted'
  BY DEF BaseInv, Base!SearchableIffCompleted
<1>5. \A s \in Requests : (asking[s].op \in {"upload", "delete"} \/ asking'[s].op \in {"upload", "delete"})
                          => asking'[s] = asking[s]
  BY <1>1, <1>2
<1>6. UploadInv'
  BY <1>5 DEF BaseInv, UploadInv
<1>7. DeletionInv'
  BY <1>5 DEF BaseInv, DeletionInv
<1>8. ImageInv'
  BY <1>5 DEF BaseInv, ImageInv
<1>9. QuestionInv'
  BY <1>1, Zenon DEF BaseInv, QuestionInv
<1>10. ASSUME alone PROVE OneByOneInv'
  <2>1. Base!Serialised'
    BY <1>10
  <2>2. \A s, t \in Requests : asking'[s] # Base!Idle /\ asking'[t] # Base!Idle => s = t
    BY <1>10, <2>1, OneAsking
  <2>3. \A s \in Requests : asking'[s].op \in {"ask", "upload", "delete"} => s = r
    BY <1>1, <1>2, <2>2 DEF Base!Idle
  <2>4. \A d, e \in Docs : row[d] = "completed" /\ row[e] = "completed" => d = e
    BY <1>10 DEF BaseInv, OneByOneInv
  <2>5. abandoned = {} => InOrder(q)'
    <3>1. ASSUME abandoned = {} PROVE \A n \in 1 .. Len(q.left) : q.left[n] \in image'
      BY <1>10, <3>1 DEF InOrder
    <3> QED BY <1>10, <3>1, Zenon DEF InOrder
  <2> QED BY <1>1, <1>2, <1>10, <2>2, <2>3, <2>4, <2>5, Zenon DEF OneByOneInv, InOrder
<1> QED
  BY <1>3, <1>4, <1>6, <1>7, <1>8, <1>9, <1>10 DEF BaseInv

\* Nothing abandoned and nobody else at work, every page has its image.
LEMMA PagesHaveImages ==
  ASSUME BaseInv, alone, Base!Serialised', abandoned = {}, NEW r \in Requests,
         asking[r] = Base!Idle, asking'[r] # Base!Idle,
         \A s \in Requests \ {r} : asking'[s] = asking[s]
  PROVE  leaf \subseteq image
<1>1. \A s \in Requests : asking[s] = Base!Idle
  BY OneAsking
<1>2. \A s \in Requests : asking[s].op # "delete"
  BY <1>1 DEF Base!Idle
<1>3. CASE transactional
  BY <1>3 DEF BaseInv, ImageInv
<1>4. CASE ~transactional
  BY <1>2, <1>4 DEF BaseInv, ImageInv
<1> QED BY <1>3, <1>4

\* A question that begins keeps the invariant (ask, up to its first image).
LEMMA BeginAskStep ==
  ASSUME BaseInv, alone' = alone, alone => Base!Serialised', NEW r \in Requests, Base!BeginAsk(r)
  PROVE  BaseInv'
<1>1. PICK embedded \in BOOLEAN, hit \in BOOLEAN, cited \in Base!SearchPages :
        asking' = [asking EXCEPT ![r] = [op |-> "ask", mode |-> Base!Mode(embedded, hit), embedded |-> embedded,
                                         cited |-> cited, left |-> cited, attached |-> <<>>]]
  BY Zenon DEF Base!BeginAsk, Base!Open
<1>2. PICK q : q = [op |-> "ask", mode |-> Base!Mode(embedded, hit), embedded |-> embedded,
                    cited |-> cited, left |-> cited, attached |-> <<>>]
  BY Zenon
<1>3. asking[r] = Base!Idle /\ UNCHANGED <<transactional, row, chunk, leaf, image, abandoned>>
  BY DEF Base!BeginAsk, Base!Open
<1>4. cited \in Seq(leaf) /\ Len(cited) <= TopK
  <2>1. CASE cited = <<>>
    BY <2>1, BoundsAssumption
  <2>2. CASE cited \in Base!RankedPages
    <3>1. PICK n \in 0 .. TopK : cited \in [1 .. n -> leaf]
      BY <2>2 DEF Base!RankedPages
    <3> QED BY <3>1, BoundsAssumption
  <2> QED BY <2>1, <2>2 DEF Base!SearchPages
<1>5. leaf \subseteq Base!Images
  BY DEF BaseInv, Base!TypeOK
<1>6. cited \in Seq(Base!Images) /\ <<>> \in Seq(Base!Images) /\ Len(<<>>) <= TopK
  BY <1>4, <1>5, BoundsAssumption
<1>7. cited \in Base!Shown /\ <<>> \in Base!Shown
  BY <1>4, <1>6, ShownAre, Zenon
<1>8. q \in Questions
  BY <1>2, <1>7 DEF Questions, Base!Mode
<1>9. (q.mode = "semantic") = q.embedded /\ q.cited = cited /\ q.left = cited /\ q.attached = <<>>
  BY <1>2 DEF Base!Mode
<1>10. ASSUME alone, abandoned = {} PROVE InOrder(q)
  <2>1. asking'[r] = q /\ \A s \in Requests \ {r} : asking'[s] = asking[s]
    BY <1>1, <1>2 DEF BaseInv, Base!TypeOK
  <2>2. q # Base!Idle
    BY <1>8 DEF Questions, Base!Idle
  <2>3. leaf \subseteq image
    BY <1>3, <1>10, <2>1, <2>2, PagesHaveImages
  <2>4. \A n \in 1 .. Len(cited) : cited[n] \in image
    BY <1>4, <2>3
  <2>5. Len(<<>>) = 0 /\ Len(cited) \in Nat
    BY <1>4
  <2> QED BY <1>9, <2>4, <2>5 DEF InOrder
<1>11. asking' = [asking EXCEPT ![r] = q] /\ asking[r].op = "idle"
  BY <1>1, <1>2, <1>3 DEF Base!Idle
<1>12. Len(q.attached) + Len(q.left) <= Len(q.cited)
  BY <1>4, <1>9
<1>13. QuestionGoesOn(r, q)
  BY <1>3, <1>8, <1>9, <1>10, <1>11, <1>12 DEF QuestionGoesOn
<1> QED BY <1>13, QuestionMoves

\* Loading an image, or leaving its page out, keeps the invariant.
LEMMA LoadImageStep ==
  ASSUME BaseInv, alone' = alone, alone => Base!Serialised', NEW r \in Requests, Base!LoadImage(r)
  PROVE  BaseInv'
<1> DEFINE p == asking[r]
<1>1. /\ p.op = "ask" /\ p.left # <<>> /\ p \in Questions
      /\ UNCHANGED <<transactional, row, chunk, leaf, image, abandoned>>
  BY AskingIs DEF Base!LoadImage
<1>2. PICK w : w = IF Base!Loads(Head(p.left)) THEN Append(p.attached, Head(p.left)) ELSE p.attached
  BY Zenon
<1>3. PICK q : q = [p EXCEPT !.left = Tail(@), !.attached = w]
  OBVIOUS
<1>4. asking' = [asking EXCEPT ![r] = q]
  BY <1>2, <1>3 DEF Base!LoadImage, Base!Turn
<1>5. /\ p.attached \in Seq(Base!Images) /\ Len(p.attached) <= TopK
      /\ p.left \in Seq(Base!Images) /\ Len(p.left) <= TopK /\ Len(p.left) > 0
      /\ p.cited \in Seq(Base!Images) /\ Len(p.cited) <= TopK
  BY <1>1, ShownAre DEF Questions
<1>6. Len(p.attached) + Len(p.left) <= Len(p.cited) /\ (p.mode = "semantic") = p.embedded
  BY <1>1, Zenon DEF BaseInv, QuestionInv
<1>7. /\ Tail(p.left) \in Seq(Base!Images) /\ Len(Tail(p.left)) = Len(p.left) - 1
      /\ \A n \in 1 .. Len(p.left) - 1 : Tail(p.left)[n] = p.left[n + 1]
      /\ Head(p.left) = p.left[1] /\ Head(p.left) \in Base!Images
  BY <1>5
<1>8. w \in Seq(Base!Images) /\ Len(w) <= Len(p.attached) + 1
  BY <1>2, <1>5, <1>7
<1>a. PICK a \in Nat, l \in Nat, c \in Nat, t \in Nat, k \in Nat :
          a = Len(p.attached) /\ l = Len(p.left) /\ c = Len(p.cited) /\ t = Len(Tail(p.left)) /\ k = Len(w)
  <2>1. \A s \in Seq(Base!Images) : Len(s) \in Nat
    OBVIOUS
  <2> QED BY <1>5, <1>7, <1>8, <2>1, Zenon
<1>b. l > 0 /\ a <= TopK /\ l <= TopK /\ c <= TopK /\ TopK \in Nat /\ a + l <= c /\ t = l - 1 /\ k <= a + 1
  BY <1>5, <1>6, <1>7, <1>8, <1>a, BoundsAssumption, Zenon
<1>9. Tail(p.left) \in Base!Shown /\ w \in Base!Shown
  <2>1. t <= TopK /\ k <= TopK
    BY <1>b
  <2> QED BY <1>7, <1>8, <1>a, <2>1, ShownAre, Zenon
<1>10. /\ q \in Questions /\ q.left = Tail(p.left) /\ q.attached = w
       /\ q.cited = p.cited /\ q.mode = p.mode /\ q.embedded = p.embedded
  BY <1>1, <1>3, <1>9, Zenon DEF Questions
<1>11. Len(q.attached) + Len(q.left) <= Len(q.cited)
  <2>1. k + t <= c
    BY <1>b
  <2> QED BY <1>10, <1>a, <2>1
<1>12. ASSUME alone, abandoned = {} PROVE InOrder(q)
  <2>1. InOrder(p)
    BY <1>1, <1>12 DEF BaseInv, OneByOneInv
  <2>2. p.left[1] \in image /\ p.left[1] = p.cited[Len(p.attached) + 1]
    BY <1>5, <2>1 DEF InOrder
  <2>3. w = Append(p.attached, p.left[1])
    BY <1>2, <1>7, <2>2, Zenon DEF Base!Loads
  <2>4. /\ Len(w) = Len(p.attached) + 1
        /\ \A n \in 1 .. Len(p.attached) : w[n] = p.attached[n]
        /\ w[Len(p.attached) + 1] = p.left[1]
    BY <1>5, <2>3
  <2>5. Len(w) + Len(Tail(p.left)) = Len(p.cited)
    <3>1. a + l = c
      BY <1>a, <2>1, Zenon DEF InOrder
    <3>2. k = a + 1
      BY <1>a, <2>4
    <3>3. k + t = c
      BY <1>b, <3>1, <3>2
    <3> QED BY <1>a, <3>3
  <2>6. \A n \in 1 .. Len(w) : w[n] = p.cited[n]
    BY <1>5, <2>1, <2>2, <2>4 DEF InOrder
  <2>7. \A n \in 1 .. Len(Tail(p.left)) : Tail(p.left)[n] = p.cited[Len(w) + n]
    <3> SUFFICES ASSUME NEW n \in 1 .. Len(Tail(p.left)) PROVE Tail(p.left)[n] = p.cited[Len(w) + n]
      OBVIOUS
    <3>1. n + 1 \in 1 .. Len(p.left) /\ n \in 1 .. Len(p.left) - 1
      BY <1>5, <1>7
    <3>2. p.left[n + 1] = p.cited[Len(p.attached) + (n + 1)]
      BY <2>1, <3>1, Zenon DEF InOrder
    <3>3. Len(p.attached) + (n + 1) = Len(w) + n
      <4>1. k = a + 1 /\ n \in Nat
        BY <1>a, <2>4
      <4>2. a + (n + 1) = k + n
        BY <4>1
      <4> QED BY <1>a, <4>2, Zenon
    <3> QED BY <1>7, <3>1, <3>2, <3>3, Zenon
  <2>8. \A n \in 1 .. Len(Tail(p.left)) : Tail(p.left)[n] \in image
    BY <1>5, <1>7, <2>1 DEF InOrder
  <2> QED BY <1>10, <2>5, <2>6, <2>7, <2>8 DEF InOrder
<1>13. QuestionGoesOn(r, q)
  BY <1>1, <1>4, <1>6, <1>10, <1>11, <1>12 DEF QuestionGoesOn
<1> QED BY <1>13, QuestionMoves

\* Whoever closes one request at a time leaves none open.
LEMMA AloneAfter ==
  ASSUME BaseInv, alone, NEW r \in Requests, asking[r] # Base!Idle,
         asking' = [asking EXCEPT ![r] = Base!Idle],
         \A d, e \in Docs : row'[d] = "completed" /\ row'[e] = "completed" => d = e
  PROVE  OneByOneInv'
<1>1. \A s \in Requests : asking'[s] = Base!Idle
  BY DEF BaseInv, OneByOneInv, Base!TypeOK
<1>2. \A s \in Requests : asking'[s].op = "idle"
  BY <1>1 DEF Base!Idle
<1> QED BY <1>1, <1>2 DEF OneByOneInv

\* The commit of an upload keeps the invariant.
LEMMA CommitUploadStep ==
  ASSUME BaseInv, alone' = alone, NEW r \in Requests, Base!CommitUpload(r)
  PROVE  BaseInv'
<1> DEFINE q == asking[r]
<1>1. /\ q.op = "upload" /\ q \in Uploads
      /\ row' = [row EXCEPT ![q.doc] = IF q.outcome = "ok" THEN "completed" ELSE "failed"]
      /\ chunk' = IF q.outcome = "ok" THEN chunk \cup {q.doc} ELSE chunk
      /\ leaf' = leaf \cup q.pages
      /\ image' = IF transactional THEN image \cup q.pages ELSE image
      /\ asking' = [asking EXCEPT ![r] = Base!Idle] /\ UNCHANGED <<transactional, abandoned>>
  BY AskingIs DEF Base!CommitUpload, Base!Close, Base!HasChunks
<1>2. /\ row[q.doc] = "none" /\ (\A i \in q.pages : i[1] = q.doc)
      /\ q.outcome # "ok" => q.pages = {}
      /\ ~transactional => {i \in image : i[1] = q.doc} = q.pages
      /\ \A s \in Requests \ {r} : asking[s].op \in {"upload", "delete"} => asking[s].doc # q.doc
  BY <1>1 DEF BaseInv, UploadInv
<1>3. /\ q.doc \in Docs /\ q.pages \subseteq Base!Images
      /\ row'[q.doc] = (IF q.outcome = "ok" THEN "completed" ELSE "failed")
      /\ \A d \in Docs \ {q.doc} : row'[d] = row[d]
  BY <1>1 DEF Uploads, BaseInv, Base!TypeOK
<1>4. asking'[r].op = "idle" /\ \A s \in Requests \ {r} : asking'[s] = asking[s]
  BY <1>1 DEF BaseInv, Base!TypeOK, Base!Idle
<1>5. Base!TypeOK'
  <2>1. row' \in [Docs -> {"none", "completed", "failed"}] /\ chunk' \subseteq Docs
    BY <1>1, <1>3 DEF BaseInv, Base!TypeOK
  <2>2. leaf' \subseteq Base!Images /\ image' \subseteq Base!Images /\ abandoned' \subseteq Docs
    BY <1>1, <1>3 DEF BaseInv, Base!TypeOK
  <2> QED BY <1>1, <2>1, <2>2 DEF BaseInv, Base!TypeOK, Base!Idle, Base!Images, Base!Shown
<1>6. Base!SearchableIffCompleted'
  BY <1>1, <1>2, <1>3 DEF BaseInv, Base!SearchableIffCompleted
<1>7. \A s \in Requests : asking'[s].op \in {"upload", "delete"} =>
        /\ s # r /\ asking'[s] = asking[s] /\ asking[s].doc # q.doc
        /\ asking[s].doc \in Docs /\ row'[asking[s].doc] = row[asking[s].doc]
  BY <1>2, <1>3, <1>4, AskingIs DEF Uploads, Deletions
<1>8. UploadInv'
  BY <1>1, <1>7 DEF BaseInv, UploadInv
<1>9. DeletionInv'
  <2>1. ASSUME NEW s \in Requests, asking'[s].op = "delete"
        PROVE  {i \in leaf' : i[1] = asking[s].doc} = {i \in leaf : i[1] = asking[s].doc}
    BY <1>1, <1>2, <1>7, <2>1
  <2> QED BY <1>1, <1>7, <2>1 DEF BaseInv, DeletionInv
<1>10. ImageInv'
  <2>1. transactional => image' = leaf'
    BY <1>1 DEF BaseInv, ImageInv
  <2>2. ASSUME ~transactional, NEW i \in image', row'[i[1]] # "none" PROVE i \in leaf'
    <3>1. i \in image /\ i[1] \in Docs
      BY <1>1, <2>2 DEF BaseInv, Base!TypeOK, Base!Images
    <3> QED BY <1>1, <1>2, <1>3, <2>2, <3>1 DEF BaseInv, ImageInv
  <2>3. ASSUME ~transactional, NEW i \in image' \ leaf', i[1] \notin abandoned
        PROVE  \E s \in Requests : asking'[s].op = "upload" /\ asking'[s].doc = i[1]
    <3>1. i \in image \ leaf /\ i[1] # q.doc
      BY <1>1, <1>2, <2>3
    <3>2. PICK s \in Requests : asking[s].op = "upload" /\ asking[s].doc = i[1]
      BY <2>3, <3>1 DEF BaseInv, ImageInv
    <3> QED BY <1>4, <3>1, <3>2
  <2>4. ASSUME ~transactional, NEW i \in leaf' \ image', i[1] \notin abandoned
        PROVE  \E s \in Requests : /\ asking'[s].op = "delete" /\ asking'[s].doc = i[1]
                                   /\ i \in asking'[s].all \ asking'[s].left
    <3>1. i \in leaf \ image
      BY <1>1, <1>2, <2>4
    <3>2. PICK s \in Requests : /\ asking[s].op = "delete" /\ asking[s].doc = i[1]
                                /\ i \in asking[s].all \ asking[s].left
      BY <2>4, <3>1 DEF BaseInv, ImageInv
    <3> QED BY <1>1, <1>4, <3>2
  <2>5. ASSUME transactional PROVE \A i \in image' : row'[i[1]] # "none" => i \in leaf'
    BY <2>1, <2>5
  <2> QED BY <1>1, <2>1, <2>2, <2>3, <2>4, <2>5 DEF ImageInv
<1>11. QuestionInv'
  BY <1>4, Zenon DEF BaseInv, QuestionInv
<1>12. ASSUME alone PROVE OneByOneInv'
  <2>1. \A d \in Docs : row[d] # "completed"
    BY <1>1, <1>12 DEF BaseInv, OneByOneInv
  <2>2. \A d, e \in Docs : row'[d] = "completed" /\ row'[e] = "completed" => d = e
    BY <1>3, <2>1
  <2>3. asking[r] # Base!Idle
    BY <1>1 DEF Base!Idle
  <2> QED BY <1>1, <1>12, <2>2, <2>3, AloneAfter, Zenon
<1> QED
  BY <1>1, <1>5, <1>6, <1>8, <1>9, <1>10, <1>11, <1>12 DEF BaseInv

\* The commit of a deletion keeps the invariant.
LEMMA CommitDeleteStep ==
  ASSUME BaseInv, alone' = alone, NEW r \in Requests, Base!CommitDelete(r)
  PROVE  BaseInv'
<1> DEFINE q == asking[r]
<1>1. /\ q.op = "delete" /\ q \in Deletions /\ q.left = {} /\ q # Base!Idle
      /\ asking' = [asking EXCEPT ![r] = Base!Idle] /\ transactional' = transactional
  BY AskingIs DEF Base!CommitDelete, Base!Close, Base!Idle
<1>2. /\ q.doc \in Docs /\ \A i \in q.all : i[1] = q.doc
      /\ row[q.doc] # "none" => q.all = {i \in leaf : i[1] = q.doc}
      /\ ~transactional => q.all \cap image = {}
  BY <1>1 DEF BaseInv, DeletionInv, Deletions
<1>3. asking'[r].op = "idle" /\ \A s \in Requests \ {r} : asking'[s] = asking[s]
  BY <1>1 DEF BaseInv, Base!TypeOK, Base!Idle
<1>4. QuestionInv'
  BY <1>3, Zenon DEF BaseInv, QuestionInv
<1>5. CASE row[q.doc] = "none"
  <2>1. UNCHANGED <<row, chunk, leaf, image, abandoned>>
    BY <1>5 DEF Base!CommitDelete
  <2>2. Base!TypeOK' /\ Base!SearchableIffCompleted'
    BY <1>1, <2>1 DEF BaseInv, Base!TypeOK, Base!SearchableIffCompleted, Base!Idle, Base!Images, Base!Shown
  <2>3. UploadInv' /\ DeletionInv'
    BY <1>1, <1>3, <2>1 DEF BaseInv, UploadInv, DeletionInv
  <2>4. \A i \in leaf : i[1] # q.doc
    BY <1>2, <1>5 DEF BaseInv, Base!SearchableIffCompleted
  <2>5. ImageInv'
    BY <1>1, <1>3, <2>1, <2>4 DEF BaseInv, ImageInv
  <2>6. ASSUME alone PROVE OneByOneInv'
    <3>1. \A d, e \in Docs : row'[d] = "completed" /\ row'[e] = "completed" => d = e
      BY <2>1, <2>6 DEF BaseInv, OneByOneInv
    <3> QED BY <1>1, <2>6, <3>1, AloneAfter, Zenon
  <2> QED BY <1>1, <1>4, <2>2, <2>3, <2>5, <2>6 DEF BaseInv
<1>6. CASE row[q.doc] # "none"
  <2>1. /\ row' = [row EXCEPT ![q.doc] = "none"]
        /\ chunk' = chunk \ {q.doc} /\ leaf' = leaf \ Base!Of(q.doc)
        /\ image' = IF transactional THEN image \ q.all ELSE image
        /\ abandoned' = abandoned \ {q.doc}
    BY <1>6 DEF Base!CommitDelete
  <2>2. /\ row'[q.doc] = "none" /\ \A d \in Docs \ {q.doc} : row'[d] = row[d]
        /\ leaf' = {i \in leaf : i[1] # q.doc}
    <3>1. row'[q.doc] = "none" /\ \A d \in Docs \ {q.doc} : row'[d] = row[d]
      BY <1>2, <2>1 DEF BaseInv, Base!TypeOK
    <3>2. leaf \subseteq Base!Images
      BY DEF BaseInv, Base!TypeOK
    <3>3. leaf' = {i \in leaf : i[1] # q.doc}
      BY <2>1, <3>2 DEF Base!Of
    <3> QED BY <3>1, <3>3
  <2>3. Base!TypeOK'
    BY <1>1, <2>1 DEF BaseInv, Base!TypeOK, Base!Idle, Base!Images, Base!Shown
  <2>4. Base!SearchableIffCompleted'
    BY <2>1, <2>2 DEF BaseInv, Base!SearchableIffCompleted
  <2>5. UploadInv'
    <3>1. \A s \in Requests : asking'[s].op = "upload" =>
            s # r /\ asking[s].doc # q.doc /\ asking[s].doc \in Docs
      BY <1>1, <1>3, <1>6, AskingIs DEF BaseInv, UploadInv, Uploads
    <3> QED BY <1>1, <1>3, <2>1, <2>2, <3>1 DEF BaseInv, UploadInv
  <2>6. DeletionInv'
    <3>1. \A s \in Requests : asking'[s].op = "delete" =>
            s # r /\ asking'[s] = asking[s] /\ asking[s].doc \in Docs
      BY <1>3, AskingIs DEF Deletions
    <3>2. ASSUME NEW s \in Requests, asking'[s].op = "delete", row'[asking[s].doc] # "none"
          PROVE  asking[s].all = {i \in leaf' : i[1] = asking[s].doc}
      BY <2>2, <3>1, <3>2 DEF BaseInv, DeletionInv
    <3> QED BY <1>1, <2>1, <3>1, <3>2 DEF BaseInv, DeletionInv
  <2>7. ImageInv'
    <3>1. transactional => image' = leaf'
      BY <1>2, <1>6, <2>1, <2>2 DEF BaseInv, ImageInv
    <3>2. ASSUME NEW i \in image', row'[i[1]] # "none" PROVE i \in leaf'
      <4>1. i \in image /\ i[1] \in Docs
        BY <2>1, <3>2 DEF BaseInv, Base!TypeOK, Base!Images
      <4> QED BY <2>2, <3>2, <4>1 DEF BaseInv, ImageInv
    <3>3. ASSUME ~transactional, NEW i \in image' \ leaf', i[1] \notin abandoned'
          PROVE  \E s \in Requests : asking'[s].op = "upload" /\ asking'[s].doc = i[1]
      <4>1. i \in image \ leaf
        BY <1>2, <1>6, <2>1, <2>2, <3>3
      <4>2. i[1] # q.doc
        BY <1>6, <4>1 DEF BaseInv, ImageInv
      <4>3. PICK s \in Requests : asking[s].op = "upload" /\ asking[s].doc = i[1]
        BY <2>1, <3>3, <4>1, <4>2 DEF BaseInv, ImageInv
      <4> QED BY <1>3, <4>2, <4>3
    <3>4. ASSUME ~transactional, NEW i \in leaf' \ image', i[1] \notin abandoned'
          PROVE  \E s \in Requests : /\ asking'[s].op = "delete" /\ asking'[s].doc = i[1]
                                     /\ i \in asking'[s].all \ asking'[s].left
      <4>1. i \in leaf \ image /\ i[1] # q.doc
        BY <2>1, <2>2, <3>4
      <4>2. PICK s \in Requests : /\ asking[s].op = "delete" /\ asking[s].doc = i[1]
                                  /\ i \in asking[s].all \ asking[s].left
        BY <2>1, <3>4, <4>1 DEF BaseInv, ImageInv
      <4> QED BY <1>3, <4>1, <4>2
    <3> QED BY <1>1, <3>1, <3>2, <3>3, <3>4 DEF ImageInv
  <2>8. ASSUME alone PROVE OneByOneInv'
    <3>1. \A d, e \in Docs : row'[d] = "completed" /\ row'[e] = "completed" => d = e
      BY <2>2, <2>8 DEF BaseInv, OneByOneInv
    <3> QED BY <1>1, <2>8, <3>1, AloneAfter, Zenon
  <2> QED BY <1>1, <1>4, <2>3, <2>4, <2>5, <2>6, <2>7, <2>8 DEF BaseInv
<1> QED BY <1>5, <1>6

\* A request that ends without a commit keeps the invariant, even where images are not part of its transaction.
LEMMA AbandonStep ==
  ASSUME BaseInv, alone' = alone, NEW r \in Requests, Base!Abandon(r)
  PROVE  BaseInv'
<1> DEFINE q == asking[r]
<1>1. /\ q # Base!Idle /\ asking' = [asking EXCEPT ![r] = Base!Idle]
      /\ UNCHANGED <<transactional, row, chunk, leaf, image>>
      /\ abandoned' = IF \/ q.op = "upload" /\ q.pages # {} /\ ~transactional
                         \/ q.op = "delete" /\ q.left # q.all /\ ~transactional /\ row[q.doc] # "none"
                      THEN abandoned \cup {q.doc} ELSE abandoned
  BY DEF Base!Abandon, Base!Close
<1>2. asking'[r].op = "idle" /\ \A s \in Requests \ {r} : asking'[s] = asking[s]
  BY <1>1 DEF BaseInv, Base!TypeOK, Base!Idle
<1>3. abandoned \subseteq abandoned' /\ abandoned' \subseteq Docs
  <2>1. q.op \in {"upload", "delete"} => q.doc \in Docs
    BY AskingIs DEF Uploads, Deletions
  <2> QED BY <1>1, <2>1 DEF BaseInv, Base!TypeOK
<1>4. Base!TypeOK' /\ Base!SearchableIffCompleted'
  BY <1>1, <1>3 DEF BaseInv, Base!TypeOK, Base!SearchableIffCompleted, Base!Idle, Base!Images, Base!Shown
<1>5. UploadInv' /\ DeletionInv' /\ QuestionInv'
  <2>1. UploadInv'
    BY <1>1, <1>2 DEF BaseInv, UploadInv
  <2>2. DeletionInv'
    BY <1>1, <1>2 DEF BaseInv, DeletionInv
  <2>3. QuestionInv'
    BY <1>1, <1>2, Zenon DEF BaseInv, QuestionInv
  <2> QED BY <2>1, <2>2, <2>3
<1>6. ImageInv'
  <2>1. ASSUME ~transactional, NEW i \in image \ leaf, i[1] \notin abandoned'
        PROVE  \E s \in Requests : asking'[s].op = "upload" /\ asking'[s].doc = i[1]
    <3>1. PICK s \in Requests : asking[s].op = "upload" /\ asking[s].doc = i[1]
      BY <1>3, <2>1 DEF BaseInv, ImageInv
    <3>2. s # r
      <4>1. ASSUME s = r PROVE i \in q.pages
        BY <2>1, <3>1, <4>1 DEF BaseInv, UploadInv
      <4> QED BY <1>1, <2>1, <3>1, <4>1
    <3> QED BY <1>2, <3>1, <3>2
  <2>2. ASSUME ~transactional, NEW i \in leaf \ image, i[1] \notin abandoned'
        PROVE  \E s \in Requests : /\ asking'[s].op = "delete" /\ asking'[s].doc = i[1]
                                   /\ i \in asking'[s].all \ asking'[s].left
    <3>1. PICK s \in Requests : /\ asking[s].op = "delete" /\ asking[s].doc = i[1]
                                /\ i \in asking[s].all \ asking[s].left
      BY <1>3, <2>2 DEF BaseInv, ImageInv
    <3>2. row[i[1]] # "none"
      BY <2>2 DEF BaseInv, Base!SearchableIffCompleted
    <3>3. s # r
      BY <1>1, <2>2, <3>1, <3>2
    <3> QED BY <1>2, <3>1, <3>3
  <2> QED BY <1>1, <2>1, <2>2 DEF BaseInv, ImageInv
<1>7. ASSUME alone PROVE OneByOneInv'
  <2>1. \A d, e \in Docs : row'[d] = "completed" /\ row'[e] = "completed" => d = e
    BY <1>1, <1>7 DEF BaseInv, OneByOneInv
  <2> QED BY <1>1, <1>7, <2>1, AloneAfter, Zenon
<1> QED BY <1>1, <1>4, <1>5, <1>6, <1>7 DEF BaseInv

\* Every step on the knowledge base keeps the invariant.
LEMMA BaseNext ==
  ASSUME BaseInv, Base!Next, alone' = alone, alone => Base!Serialised'
  PROVE  BaseInv'
<1>1. PICK r \in Requests :
        \/ Base!BeginUpload(r)
        \/ Base!IndexText(r) \/ Base!IndexPage(r) \/ Base!StopPages(r) \/ Base!CommitUpload(r)
        \/ (\E d \in Docs : Base!BeginDelete(r, d)) \/ Base!RemoveImage(r)
        \/ Base!CommitDelete(r) \/ Base!Abandon(r) \/ Base!BeginAsk(r) \/ Base!LoadImage(r)
  BY DEF Base!Next
<1>2. CASE Base!BeginUpload(r)
  BY <1>2, BeginUploadStep
<1>3. CASE Base!IndexText(r) \/ Base!IndexPage(r) \/ Base!StopPages(r)
  BY <1>3, UploadStep
<1>4. CASE Base!CommitUpload(r)
  BY <1>4, CommitUploadStep
<1>5. CASE (\E d \in Docs : Base!BeginDelete(r, d)) \/ Base!RemoveImage(r)
  BY <1>5, DeletionMoves
<1>6. CASE Base!CommitDelete(r)
  BY <1>6, CommitDeleteStep
<1>7. CASE Base!Abandon(r)
  BY <1>7, AbandonStep
<1>8. CASE Base!BeginAsk(r)
  BY <1>8, BeginAskStep
<1>9. CASE Base!LoadImage(r)
  BY <1>9, LoadImageStep
<1> QED BY <1>1, <1>2, <1>3, <1>4, <1>5, <1>6, <1>7, <1>8, <1>9

\* Whatever leaves the knowledge base alone keeps its invariant.
LEMMA BaseStutters == BaseInv /\ UNCHANGED <<baseVars, alone>> => BaseInv'
<1> SUFFICES ASSUME BaseInv, UNCHANGED <<baseVars, alone>> PROVE BaseInv'
  OBVIOUS
<1>1. UNCHANGED <<transactional, row, chunk, leaf, image, asking, abandoned, alone>>
  BY DEF baseVars
<1>2. Base!TypeOK' /\ Base!SearchableIffCompleted'
  BY <1>1 DEF BaseInv, Base!TypeOK, Base!SearchableIffCompleted, Base!Idle, Base!Images, Base!Shown
<1>3. UploadInv' /\ DeletionInv'
  BY <1>1 DEF BaseInv, UploadInv, DeletionInv
<1>4. ImageInv' /\ QuestionInv'
  BY <1>1, Zenon DEF BaseInv, ImageInv, QuestionInv
<1>5. OneByOneInv => OneByOneInv'
  BY <1>1, Zenon DEF OneByOneInv, InOrder, Base!Idle
<1> QED BY <1>1, <1>2, <1>3, <1>4, <1>5 DEF BaseInv

-----------------------------------------------------------------------------
(***************************************************************************)
(* The assistant's side as a whole (MCAssistant).                          *)
(***************************************************************************)

\* Whether requests come one at a time is settled when the rule's world is.
LEMMA AloneStays == Monitor!Next => alone' = alone
<1> USE DEF Monitor!world
<1>1. ASSUME NEW e \in Events, Monitor!Happen(e) \/ Monitor!Appear(e) PROVE alone' = alone
  BY <1>1 DEF Monitor!Happen, Monitor!Appear
<1>2. ASSUME NEW c \in Checks, Monitor!CheckStep(c) PROVE alone' = alone
  BY <1>2, Zenon DEF Monitor!CheckStep, Monitor!Due, Monitor!CheckNow, Monitor!Start, Monitor!Evaluate, Monitor!Record,
     Monitor!Commit, Monitor!Notify, Monitor!NotifyNow, Monitor!Fail
<1>3. ASSUME Monitor!Change \/ Monitor!Request PROVE alone' = alone
  BY <1>3, Zenon DEF Monitor!Change, Monitor!Request, Monitor!Update, Monitor!Delete, Monitor!Answer
<1> QED BY <1>1, <1>2, <1>3 DEF Monitor!Next

\* A step is one of one component; one at a time, it leaves one request open.
LEMMA OneMoves ==
  ASSUME [MCNext]_MCvars
  PROVE  /\ part' = part /\ alone' = alone
         /\ UNCHANGED teamVars \/ (Team!Next /\ (alone => Team!Serialised'))
         /\ UNCHANGED documentVars \/ (Documents!Next /\ (alone => Documents!Serialised'))
         /\ UNCHANGED loreVars \/ (Lore!Next /\ (alone => Lore!Serialised'))
         /\ UNCHANGED baseVars \/ (Base!Next /\ (alone => Base!Serialised'))
<1>1. CASE UNCHANGED MCvars
  BY <1>1 DEF MCvars, monitorVars
<1>2. CASE MCNext
  <2>1. alone' = alone
    BY <1>2, AloneStays DEF MCNext, OnlyChat, OnlyMemory, OnlyMonitor, OnlyTeam, OnlyDocuments, OnlyLore, OnlyBase,
       OnlyMap, OnlyImpact, monitorVars
  <2>2. part' = part
    BY <1>2 DEF MCNext, OnlyChat, OnlyMemory, OnlyMonitor, OnlyTeam, OnlyDocuments, OnlyLore, OnlyBase, OnlyMap,
       OnlyImpact
  <2> QED
    BY <1>2, <2>1, <2>2 DEF MCNext, OnlyChat, OnlyMemory, OnlyMonitor, OnlyTeam, OnlyDocuments, OnlyLore, OnlyBase,
       OnlyMap, OnlyImpact
<1> QED BY <1>1, <1>2

\* What search can find is exactly the documents indexed whole, page rows and stored images
\* go together, and an answer says when it rests on keyword matches (upload_document,
\* delete_document, SearchOutcome).  One request at a time, one file is one document, and
\* every page an answer cites was shown to the model, under that number (ask).
THEOREM SearchStaysHonest == MCSpec => []SearchIsHonest
<1>1. MCInit => BaseInv
  BY BaseInit DEF MCInit
<1>2. BaseInv /\ [MCNext]_MCvars => BaseInv'
  BY OneMoves, BaseNext, BaseStutters
<1>3. BaseInv => SearchIsHonest
  BY BaseSays DEF SearchIsHonest
<1> QED
  BY <1>1, <1>2, <1>3, PTL DEF MCSpec

\* A work item never shows a viewer what they may not read now (timeline); documents exceed
\* their limit by no more than the saves that overlapped; the history of a memory has every
\* version from the first.  One request at a time, a reference names one item and only a
\* memory's latest version is told.
THEOREM TeamStaysToldRight == MCSpec => []TeamIsToldRight
<1> DEFINE I == TeamInv /\ DocumentInv /\ LoreInv
<1>1. MCInit => I
  BY TeamInit, DocumentInit, LoreInit DEF MCInit
<1>2. I /\ [MCNext]_MCvars => I'
  <2> SUFFICES ASSUME I, [MCNext]_MCvars PROVE I'
    OBVIOUS
  <2>1. TeamInv'
    BY OneMoves, TeamNext, TeamStutters
  <2>2. DocumentInv'
    BY OneMoves, DocumentNext, DocumentStutters
  <2>3. LoreInv'
    BY OneMoves, LoreNext, LoreStutters
  <2> QED BY <2>1, <2>2, <2>3
<1>3. I => TeamIsToldRight
  BY TeamSays, DocumentSays, LoreSays DEF TeamIsToldRight
<1> QED
  BY <1>1, <1>2, <1>3, PTL DEF MCSpec

\* The map's invariant, in the behaviours in which the map moves.
MapMoves == part = "map" => MapInv

\* Every step of the whole keeps what MapMoves says, and the map keeps its nodes.
LEMMA MapInduction == MapMoves /\ [MCNext]_MCvars => MapMoves' /\ (part = "map" /\ map.nodes # {} => map'.nodes # {})
<1> SUFFICES ASSUME part = "map", MapInv, [MCNext]_MCvars
             PROVE  MapInv' /\ (map.nodes # {} => map'.nodes # {})
  BY OneMoves DEF MapMoves
<1>1. Map!Next \/ UNCHANGED mapVars
  BY DEF MCNext, MCvars, OnlyChat, OnlyMemory, OnlyMonitor, OnlyTeam, OnlyDocuments, OnlyLore, OnlyBase, OnlyImpact
<1>2. CASE Map!Next
  BY <1>2, MapNext
<1>3. CASE UNCHANGED mapVars
  BY <1>3, MapStutters DEF mapVars
<1> QED BY <1>1, <1>2, <1>3

\* No step takes back what was recorded or decided: a turn or an edit removes nothing from a
\* task (_locked), an answered occurrence is never raised again (_raise), the assistant is
\* told only what a person with the right stands for (create, decide), a mapped connection
\* stays mapped (run_extraction).  One request at a time, every text of a document has a
\* version of its own (save) and a rejected or archived memory is never told again (archive).
THEOREM NothingIsTakenBack == MCSpec => NothingTakenBack
<1> DEFINE I == MemoryInv /\ MonitorInv /\ DocumentInv /\ LoreInv /\ MapMoves
           A == /\ part = "memory" => Memory!NothingErased
                /\ part = "monitor" => Monitor!AlertsOnce
                /\ part = "documents" /\ alone => Documents!VersionsRise
                /\ part = "lore" => Lore!PeopleVouch /\ (alone => Lore!DecidedForGood)
                /\ part = "map" /\ map.nodes # {} => map'.nodes # {}
<1>1. MCInit => I
  BY MemoryInit, MonitorInit, DocumentInit, LoreInit, MapInit DEF MCInit, MapMoves
<1>2. ASSUME I, [MCNext]_MCvars PROVE I' /\ [A]_MCvars
  <2>1. MemoryInv' /\ MonitorInv'
    BY <1>2, MemoryNext, MemoryStutters, MonitorNext, MonitorStutters
    DEF MCNext, MCvars, OnlyChat, OnlyMemory, OnlyMonitor, OnlyTeam, OnlyDocuments, OnlyLore, OnlyBase, OnlyMap, OnlyImpact
  <2>2. DocumentInv' /\ LoreInv' /\ MapMoves'
    BY <1>2, OneMoves, DocumentNext, DocumentStutters, LoreNext, LoreStutters, MapInduction
  <2>3. ASSUME MCNext, part = "memory" PROVE Memory!NothingErased
    BY <1>2, <2>3, MemoryNext DEF MCNext, OnlyChat, OnlyMonitor, OnlyTeam, OnlyDocuments, OnlyLore, OnlyBase, OnlyMap, OnlyImpact
  <2>4. ASSUME MCNext, part = "monitor" PROVE Monitor!AlertsOnce
    BY <1>2, <2>4, MonitorNext DEF MCNext, OnlyChat, OnlyMemory, OnlyTeam, OnlyDocuments, OnlyLore, OnlyBase, OnlyMap, OnlyImpact
  <2>5. ASSUME MCNext, part = "documents", alone PROVE Documents!VersionsRise
    <3>1. Documents!Next /\ Documents!Serialised' /\ alone' = alone
      BY <2>5, OneMoves DEF MCNext, OnlyChat, OnlyMemory, OnlyMonitor, OnlyTeam, OnlyLore, OnlyBase, OnlyMap, OnlyImpact
    <3> QED BY <1>2, <2>5, <3>1, DocumentNext
  <2>6. ASSUME MCNext, part = "lore" PROVE Lore!PeopleVouch /\ (alone => Lore!DecidedForGood)
    <3>1. Lore!Next /\ (alone => Lore!Serialised') /\ alone' = alone
      BY <2>6, OneMoves DEF MCNext, OnlyChat, OnlyMemory, OnlyMonitor, OnlyTeam, OnlyDocuments, OnlyBase, OnlyMap, OnlyImpact
    <3> QED BY <1>2, <3>1, LoreNext
  <2>7. part = "map" /\ map.nodes # {} => map'.nodes # {}
    BY <1>2, MapInduction
  <2> QED
    BY <1>2, <2>1, <2>2, <2>3, <2>4, <2>5, <2>6, <2>7
<1> QED
  BY <1>1, <1>2, PTL DEF MCSpec, NothingTakenBack
=============================================================================

-------------------------- MODULE AssistantProofs ---------------------------
(***************************************************************************)
(* The assistant's side, part by part as MCAssistant has it: the tasks of  *)
(* a conversation are true of the changes they tell of, monitoring's       *)
(* alerts are exact, and the dependency map is replaced whole or not at    *)
(* all, for any constants.  TeamProofs goes on with the team's parts.      *)
(***************************************************************************)
EXTENDS MCAssistant, WellFoundedInduction, FiniteSetTheorems, SequenceTheorems, TLAPS

\* Induction over the subsets of a finite set.
LEMMA FiniteSetInduction ==
  ASSUME NEW S, IsFiniteSet(S), NEW T \in SUBSET SUBSET S, {} \in T,
         \A U \in T, x \in S : U \cup {x} \in T
  PROVE  S \in T
<1> SUFFICES ASSUME S \notin T PROVE FALSE
  OBVIOUS
<1> DEFINE R == StrictSubsetOrdering(S)  F == FiniteSubsetsOf(S)  B == {U \in F : U \notin T}
<1>1. IsWellFoundedOn(R, F)
  BY FS_StrictSubsetOrderingWellFounded
<1>2. B \subseteq F /\ B # {}
  BY DEF FiniteSubsetsOf
<1>3. \A U \in B : U \in SUBSET S /\ IsFiniteSet(U) /\ U \notin T
  BY DEF FiniteSubsetsOf
<1>4. \A U \in F, V \in F : V \subseteq U /\ V # U => <<V, U>> \in R
  BY DEF FiniteSubsetsOf, StrictSubsetOrdering
<1>7. \A U \in SUBSET S : IsFiniteSet(U) => U \in F
  BY DEF FiniteSubsetsOf
<1> HIDE DEF R, F
<1>5. PICK U \in B : \A V \in B : ~(<<V, U>> \in R)
  <2> HIDE DEF B
  <2> QED BY <1>1, <1>2, WFMin
<1>6. PICK x \in U : TRUE
  BY <1>3, <1>5
<1>8. U \ {x} \in F
  BY <1>3, <1>5, <1>7, FS_RemoveElement
<1>9. U \ {x} \in T
  BY <1>2, <1>4, <1>5, <1>6, <1>8, Zenon
<1>10. U = (U \ {x}) \cup {x}
  BY <1>6
<1> QED
  BY <1>3, <1>5, <1>6, <1>9, <1>10

\* Induction over numbers, as a fact about the set of numbers a claim is true of.
LEMMA NatSetInduction ==
  ASSUME NEW T \in SUBSET Nat, 0 \in T, \A n \in T : n + 1 \in T
  PROVE  Nat \subseteq T
<1> SUFFICES ASSUME NEW n \in Nat PROVE n \in T
  OBVIOUS
<1> DEFINE S == 1 .. n  C == {U \in SUBSET S : Cardinality(U) \in T}
<1>1. IsFiniteSet(S) /\ Cardinality(S) = n
  BY FS_Interval
<1>2. {} \in C
  BY FS_EmptySet
<1>3. ASSUME NEW U \in C, NEW x \in S PROVE U \cup {x} \in C
  <2>1. IsFiniteSet(U)
    BY <1>1, FS_Subset, Zenon
  <2>2. Cardinality(U \cup {x}) \in {Cardinality(U), Cardinality(U) + 1}
    BY <2>1, FS_AddElement
  <2> QED
    BY <2>2, Zenon
<1>4. S \in C
  <2>1. C \in SUBSET SUBSET S
    OBVIOUS
  <2> HIDE DEF S, C
  <2> QED
    BY <1>1, <1>2, <1>3, <2>1, FiniteSetInduction, Zenon
<1> QED
  BY <1>1, <1>4

\* A finite set of numbers has a greatest one.
LEMMA MaxExists ==
  ASSUME NEW S \in SUBSET Nat, IsFiniteSet(S), S # {}
  PROVE  \E x \in S : \A y \in S : x >= y
<1> DEFINE T == {U \in SUBSET S : U = {} \/ \E x \in U : \A y \in U : x >= y}
<1>1. {} \in T
  OBVIOUS
<1>2. ASSUME NEW U \in T, NEW x \in S PROVE U \cup {x} \in T
  <2>1. CASE U = {}
    BY <2>1
  <2>2. CASE U # {}
    <3>1. PICK m \in U : \A y \in U : m >= y
      BY <2>2, Zenon
    <3>2. CASE m >= x
      BY <3>1, <3>2
    <3>3. CASE x >= m
      BY <3>1, <3>3
    <3> QED BY <3>1, <3>2, <3>3
  <2> QED BY <2>1, <2>2
<1>3. S \in T
  <2> HIDE DEF T
  <2>1. T \in SUBSET SUBSET S
    BY DEF T
  <2> QED BY <1>1, <1>2, <2>1, FiniteSetInduction, Zenon
<1> QED
  BY <1>3, Zenon

\* A set of numbers has a least one.
LEMMA MinExists ==
  ASSUME NEW S \in SUBSET Nat, S # {}
  PROVE  \E x \in S : \A y \in S : x <= y
<1> SUFFICES ASSUME \A x \in S : \E y \in S : y < x PROVE FALSE
  OBVIOUS
<1> DEFINE T == {n \in Nat : \A m \in 0 .. n : m \notin S}
<1>1. 0 \in T
  OBVIOUS
<1>2. ASSUME NEW n \in T PROVE n + 1 \in T
  <2>1. n \in Nat /\ \A m \in 0 .. n : m \notin S
    OBVIOUS
  <2>2. n + 1 \notin S
    <3>1. SUFFICES ASSUME n + 1 \in S PROVE FALSE
      OBVIOUS
    <3>2. PICK y \in S : y < n + 1
      BY <3>1
    <3>3. y \in 0 .. n
      BY <2>1, <3>2
    <3> QED BY <2>1, <3>3
  <2> QED BY <2>1, <2>2
<1>3. Nat \subseteq T
  <2> HIDE DEF T
  <2>1. T \in SUBSET Nat
    BY DEF T
  <2> QED BY <1>1, <1>2, <2>1, NatSetInduction
<1>4. PICK x \in S : TRUE
  BY Zenon
<1> QED
  BY <1>3, <1>4

\* What is computed one step after the other, from the first to the last, exists.
LEMMA StepsExist ==
  ASSUME NEW V, NEW a \in V, NEW G \in [V -> V], NEW N \in Nat
  PROVE  \E f \in [1 .. N -> V] : \A n \in 1 .. N : f[n] = IF n = 1 THEN a ELSE G[f[n - 1]]
<1> DEFINE Q(f, k) == \A n \in 1 .. k : f[n] = IF n = 1 THEN a ELSE G[f[n - 1]]
           T == {k \in Nat : \E f \in [1 .. k -> V] : Q(f, k)}
<1>1. 0 \in T
  <2>1. [n \in 1 .. 0 |-> a] \in [1 .. 0 -> V]
    OBVIOUS
  <2>2. 1 .. 0 = {}
    OBVIOUS
  <2> QED BY <2>1, <2>2, Zenon
<1>2. ASSUME NEW k \in T PROVE k + 1 \in T
  <2>1. PICK f \in [1 .. k -> V] : \A n \in 1 .. k : f[n] = IF n = 1 THEN a ELSE G[f[n - 1]]
    OBVIOUS
  <2>2. k \in Nat
    OBVIOUS
  <2> DEFINE last == IF k = 0 THEN a ELSE G[f[k]]
             g == [n \in 1 .. (k + 1) |-> IF n = k + 1 THEN last ELSE f[n]]
  <2>3. last \in V
    BY <2>2
  <2>4. g \in [1 .. (k + 1) -> V]
    BY <2>2, <2>3
  <2>5. ASSUME NEW n \in 1 .. (k + 1) PROVE g[n] = IF n = 1 THEN a ELSE G[g[n - 1]]
    <3>1. CASE n = k + 1 /\ k = 0
      BY <3>1
    <3>2. CASE n = k + 1 /\ k # 0
      <4>1. n # 1 /\ n - 1 = k /\ k \in 1 .. (k + 1) /\ k # k + 1
        BY <2>2, <3>2
      <4>2. g[n - 1] = f[k] /\ g[n] = G[f[k]]
        BY <3>2, <4>1
      <4> QED BY <4>1, <4>2
    <3>3. CASE n # k + 1
      <4>1. n \in 1 .. k /\ (n # 1 => n - 1 \in 1 .. k)
        BY <2>2, <3>3
      <4>2. g[n] = f[n] /\ (n # 1 => g[n - 1] = f[n - 1])
        BY <2>2, <4>1
      <4> QED BY <2>1, <4>1, <4>2
    <3> QED BY <3>1, <3>2, <3>3
  <2> HIDE DEF g
  <2>6. Q(g, k + 1)
    BY <2>5
  <2> HIDE DEF Q
  <2>7. k + 1 \in Nat
    BY <2>2
  <2> QED BY <2>4, <2>6, <2>7
<1>3. Nat \subseteq T
  <2> HIDE DEF T
  <2>1. T \in SUBSET Nat
    BY DEF T
  <2> QED BY <1>1, <1>2, <2>1, NatSetInduction
<1> QED
  BY <1>3

-----------------------------------------------------------------------------
(***************************************************************************)
(* The tasks of a conversation (TaskMemory).                               *)
(***************************************************************************)

\* What a row says of a change is true of the change's record.
RowIsTrue(r, recorded) ==
  \A c \in Changes : /\ r.actions[c] \in {"none", "draft", recorded[c]}
                     /\ recorded[c] = "none" => r.actions[c] = "none"

\* A row that waits for approval has something to approve.
RowIsPending(r) == r.status = "waiting_for_approval" => Memory!HasDraft(r)

\* A row has all that was recorded in an earlier one.
Keeps(r, old) ==
  old # None => /\ old.findings \subseteq r.findings
                /\ \A c \in Changes : old.actions[c] # "none" => r.actions[c] # "none"

\* A row is locked by one turn, which holds a later version of it.
LocksInv ==
  \A q \in TaskTurns :
    /\ folding[q].on # None =>
         /\ folding[q].row \in Memory!Rows
         /\ RowIsTrue(folding[q].row, change)
         /\ folding[q].on \notin torn => RowIsPending(folding[q].row)
         /\ Keeps(folding[q].row, task[folding[q].on])
         /\ \A p \in TaskTurns : folding[p].on = folding[q].on => p = q
    /\ folding[q].at = "working" => folding[q].of \in Memory!Known
    /\ folding[q].at = "locked" => folding[q].of \in Memory!Known \cup {folding[q].on}

\* An open page holds what was true of its task when it was read.
PageInv ==
  page.on # None => page.on \in Memory!Known /\ page.row \in Memory!Rows /\ RowIsTrue(page.row, change)

MemoryInv ==
  /\ Memory!TypeOK /\ Memory!RecordsAreTrue /\ Memory!ApprovalIsPending
  /\ LocksInv /\ PageInv

\* A conversation without tasks satisfies the invariant.
LEMMA MemoryInit == Memory!Init => MemoryInv
  BY NoneAssumption
  DEF Memory!Init, MemoryInv, Memory!TypeOK, Memory!Idle, Memory!Closing, Memory!Decisions,
      Memory!RecordsAreTrue, Memory!ApprovalIsPending, Memory!Known, LocksInv, PageInv

\* A task begins with a row of its own, with nothing recorded (Fresh).
LEMMA FreshIsARow ==
  ASSUME MemoryInv
  PROVE  /\ Memory!Fresh \in Memory!Rows
         /\ Memory!Fresh.status = "active"
         /\ \A c \in Changes : Memory!Fresh.actions[c] = "none"
<1> DEFINE B == Memory!Born \cup {0}
<1>1. B \in SUBSET Nat
  BY DEF Memory!Born, MemoryInv, Memory!TypeOK, LocksInv, Memory!Known, Memory!Rows
<1>2. IsFiniteSet(B)
  <2> DEFINE K == Memory!Known  Q == {p \in TaskTurns : folding[p].on # None}
             Of == [k \in K |-> task[k].born]  On == [q \in Q |-> folding[q].row.born]
             A == {Of[k] : k \in K}  C == {On[q] : q \in Q}
  <2>1. IsFiniteSet(K) /\ IsFiniteSet(Q)
    BY FiniteAssumption, FS_Subset DEF Memory!Known
  <2>2. Of \in Surjection(K, A) /\ On \in Surjection(Q, C)
    BY DEF Surjection
  <2>3. IsFiniteSet(A) /\ IsFiniteSet(C)
    <3> HIDE DEF K, Q, Of, On, A, C
    <3> QED BY <2>1, <2>2, FS_Surjection
  <2>4. B = (A \cup C) \cup {0}
    BY Zenon DEF Memory!Born
  <2> HIDE DEF A, C
  <2>5. IsFiniteSet(A \cup C)
    BY <2>3, FS_Union, Zenon
  <2> QED
    BY <2>4, <2>5, FS_AddElement
<1> HIDE DEF B
<1>3. 0 \in B
  BY DEF B
<1>4. PICK m \in B : \A y \in B : m >= y
  BY <1>1, <1>2, <1>3, MaxExists
<1>5. Memory!Max(B) \in Nat
  BY <1>1, <1>4, Zenon DEF Memory!Max
<1> QED
  BY <1>5 DEF B, Memory!Fresh, Memory!Rows, Memory!Statuses

\* The current task is one of the conversation's (current).
LEMMA CurrentIsKnown ==
  ASSUME MemoryInv, Memory!Current # None
  PROVE  Memory!Current \in Memory!Known
<1> DEFINE O == {k \in Memory!Known : task[k].status # "archived"}
           Of == [k \in O |-> task[k].born]  A == {Of[k] : k \in O}
<1>1. O # {}
  BY DEF Memory!Current
<1>2. A \in SUBSET Nat /\ A # {}
  <2>1. \A k \in O : task[k] \in Memory!Rows
    BY DEF Memory!Known, MemoryInv, Memory!TypeOK
  <2>2. \A k \in O : Of[k] \in Nat
    BY <2>1 DEF Memory!Rows
  <2> HIDE DEF O, Of
  <2> QED BY <1>1, <2>2
<1>3. IsFiniteSet(A)
  <2>1. Of \in Surjection(O, A)
    BY DEF Surjection
  <2>2. IsFiniteSet(O)
    BY FiniteAssumption, FS_Subset DEF Memory!Known
  <2> HIDE DEF O, Of, A
  <2> QED BY <2>1, <2>2, FS_Surjection
<1>4. PICK m \in A : \A y \in A : m >= y
  <2> HIDE DEF A
  <2> QED BY <1>2, <1>3, MaxExists
<1>5. PICK k \in O : \A j \in O : task[j].born <= task[k].born
  BY <1>4, Zenon
<1>6. Memory!Current \in O
  BY <1>1, <1>5 DEF Memory!Current
<1> QED
  BY <1>6

\* What a change's record may do: be drafted, be decided.
ChangesMove ==
  /\ change' \in [Changes -> {"none", "draft"} \cup Memory!Decisions]
  /\ \A c \in Changes : \/ change'[c] = change[c]
                        \/ change[c] = "none" /\ change'[c] = "draft"
                        \/ change[c] = "draft" /\ change'[c] \in Memory!Decisions

\* What a row says stays true, for it is never ahead of the record (refresh_actions).
LEMMA TruthLasts ==
  ASSUME ChangesMove, NEW r, RowIsTrue(r, change)
  PROVE  RowIsTrue(r, change')
BY DEF ChangesMove, RowIsTrue, Memory!Decisions

\* Refreshing a row keeps it a row and keeps it true (_refresh).
LEMMA RefreshedIsTrue ==
  ASSUME MemoryInv, NEW r \in Memory!Rows, RowIsTrue(r, change)
  PROVE  /\ Memory!Refreshed(r) \in Memory!Rows
         /\ RowIsTrue(Memory!Refreshed(r), change)
         /\ RowIsPending(r) => RowIsPending(Memory!Refreshed(r))
         /\ Memory!Refreshed(r).findings = r.findings
         /\ \A c \in Changes : r.actions[c] # "none" => Memory!Refreshed(r).actions[c] # "none"
<1> DEFINE back == [c \in Changes |-> IF r.actions[c] = "none" THEN "none" ELSE change[c]]
           new == [r EXCEPT !.actions = back]
<1>1. back \in [Changes -> {"none", "draft"} \cup Memory!Decisions]
  BY DEF MemoryInv, Memory!TypeOK
<1>2. new \in Memory!Rows
  BY <1>1 DEF Memory!Rows
<1>3. new.findings = r.findings /\ new.actions = back /\ new.status = r.status
  BY DEF Memory!Rows
<1>4. RowIsTrue(new, change)
  BY <1>3 DEF RowIsTrue
<1>5. \A c \in Changes : r.actions[c] # "none" => new.actions[c] # "none"
  BY <1>3 DEF RowIsTrue
<1>6. CASE new # r /\ r.status = "waiting_for_approval" /\ ~Memory!HasDraft(new)
  <2>1. Memory!Refreshed(r) = [new EXCEPT !.status = "active"]
    BY <1>6 DEF Memory!Refreshed
  <2> HIDE DEF new
  <2> QED
    BY <2>1, <1>2, <1>3, <1>4, <1>5 DEF Memory!Rows, Memory!Statuses, RowIsTrue, RowIsPending
<1>7. CASE ~(new # r /\ r.status = "waiting_for_approval" /\ ~Memory!HasDraft(new))
  <2>1. Memory!Refreshed(r) = new
    BY <1>7 DEF Memory!Refreshed
  <2>2. RowIsPending(r) => RowIsPending(new)
    BY <1>3, <1>7 DEF RowIsPending
  <2> HIDE DEF new
  <2> QED
    BY <2>1, <2>2, <1>2, <1>3, <1>4, <1>5
<1> QED
  BY <1>6, <1>7

\* A turn that leaves with nothing locked, or locks a row nobody has and holds a later
\* version of it.
LEMMA TurnMoves ==
  ASSUME MemoryInv, ChangesMove, UNCHANGED <<task, page, torn>>,
         NEW q \in TaskTurns,
         NEW w \in [at : {"idle", "locked", "working", "done"}, of : Tasks \cup {None},
                    on : Tasks \cup {None}, row : Memory!Rows \cup {None}],
         folding' = [folding EXCEPT ![q] = w],
         w.on # None =>
           /\ w.row \in Memory!Rows /\ RowIsTrue(w.row, change')
           /\ w.on \notin torn => RowIsPending(w.row)
           /\ Keeps(w.row, task[w.on])
           /\ Memory!Lockable(w.on),
         w.at = "working" => w.of \in Memory!Known,
         w.at = "locked" => w.of \in Memory!Known \cup {w.on}
  PROVE  MemoryInv' /\ Memory!NothingErased
<1>1. Memory!TypeOK'
  BY DEF MemoryInv, Memory!TypeOK, ChangesMove
<1>2. Memory!Known' = Memory!Known
  BY DEF Memory!Known
<1>3. Memory!RecordsAreTrue'
  BY <1>2 DEF MemoryInv, Memory!RecordsAreTrue, ChangesMove, Memory!Decisions
<1>4. Memory!ApprovalIsPending'
  BY <1>2 DEF MemoryInv, Memory!ApprovalIsPending, Memory!HasDraft
<1>5. LocksInv'
  <2>1. ASSUME NEW p \in TaskTurns, folding'[p].on # None
        PROVE  /\ folding'[p].row \in Memory!Rows /\ RowIsTrue(folding'[p].row, change')
               /\ folding'[p].on \notin torn => RowIsPending(folding'[p].row)
               /\ Keeps(folding'[p].row, task[folding'[p].on])
    BY <2>1, TruthLasts DEF MemoryInv, Memory!TypeOK, LocksInv
  <2>2. ASSUME NEW p \in TaskTurns
        PROVE  /\ folding'[p].at = "working" => folding'[p].of \in Memory!Known
               /\ folding'[p].at = "locked" => folding'[p].of \in Memory!Known \cup {folding'[p].on}
    BY DEF MemoryInv, Memory!TypeOK, LocksInv
  <2>3. ASSUME NEW p \in TaskTurns, NEW s \in TaskTurns,
               folding'[p].on # None, folding'[s].on = folding'[p].on
        PROVE  p = s
    BY <2>3 DEF MemoryInv, Memory!TypeOK, LocksInv, Memory!Lockable
  <2> QED
    BY <1>2, <2>1, <2>2, <2>3 DEF LocksInv, RowIsPending, Memory!HasDraft, RowIsTrue, Keeps, Memory!Rows, Memory!Decisions, Memory!Statuses
<1>6. PageInv'
  BY <1>2, TruthLasts DEF MemoryInv, PageInv, RowIsTrue, Memory!Rows, Memory!Decisions, Memory!Statuses
<1>7. Memory!NothingErased
  BY DEF Memory!NothingErased
<1> QED
  BY <1>1, <1>3, <1>4, <1>5, <1>6, <1>7 DEF MemoryInv

\* A turn's row is one of the task's, as the type says.
LEMMA RowsOfTasks ==
  ASSUME MemoryInv, NEW k \in Memory!Known
  PROVE  /\ task[k] \in Memory!Rows /\ RowIsTrue(task[k], change)
         /\ k \notin torn => RowIsPending(task[k])
         /\ Keeps(task[k], task[k])
BY DEF MemoryInv, Memory!TypeOK, Memory!Known, Memory!RecordsAreTrue, RowIsTrue,
       Memory!ApprovalIsPending, RowIsPending, Keeps

\* No row is the mark of a missing one.
LEMMA RowsAreRows == None \notin Memory!Rows
BY NoneAssumption

\* begin_turn on a task there is.
LEMMA ContinueStep ==
  ASSUME MemoryInv, NEW q \in TaskTurns, Memory!Continue(q)
  PROVE  MemoryInv' /\ Memory!NothingErased
<1>1. PICK k \in Memory!Known :
        /\ Memory!Lockable(k)
        /\ folding' = [folding EXCEPT ![q] = [at |-> "locked", of |-> k, on |-> k,
                         row |-> Memory!Refreshed(Memory!Resumed(task[k]))]]
  BY Zenon DEF Memory!Continue
<1> DEFINE r == Memory!Resumed(task[k])
           w == [at |-> "locked", of |-> k, on |-> k, row |-> Memory!Refreshed(r)]
<1>2. /\ r \in Memory!Rows /\ RowIsTrue(r, change) /\ Keeps(r, task[k])
      /\ k \notin torn => RowIsPending(r)
  BY RowsOfTasks DEF Memory!Resumed, Memory!Rows, Memory!Statuses, RowIsTrue, RowIsPending,
     Keeps, Memory!HasDraft
<1> HIDE DEF r
<1>3. /\ Memory!Refreshed(r) \in Memory!Rows /\ RowIsTrue(Memory!Refreshed(r), change)
      /\ Keeps(Memory!Refreshed(r), task[k])
      /\ k \notin torn => RowIsPending(Memory!Refreshed(r))
  BY <1>2, RefreshedIsTrue DEF Keeps
<1>4. k \in Tasks
  BY DEF Memory!Known
<1>5. ChangesMove /\ UNCHANGED <<task, page, torn>> /\ change' = change
  BY DEF Memory!Continue, ChangesMove, MemoryInv, Memory!TypeOK
<1>6. folding' = [folding EXCEPT ![q] = w]
  BY <1>1 DEF r
<1> QED
  BY <1>1, <1>3, <1>4, <1>5, <1>6, TurnMoves, Zenon

\* A turn at work locks a task there is and holds a later version of its row.
LEMMA LockStep ==
  ASSUME MemoryInv, ChangesMove, UNCHANGED <<task, page, torn>>,
         NEW q \in TaskTurns, folding[q].at = "working",
         NEW k \in Memory!Known, Memory!Lockable(k),
         NEW r \in Memory!Rows, RowIsTrue(r, change'), k \notin torn => RowIsPending(r),
         Keeps(r, task[k]), Memory!Lock(q, k, r)
  PROVE  MemoryInv' /\ Memory!NothingErased
<1> DEFINE w == [folding[q] EXCEPT !.at = "locked", !.on = k, !.row = r]
<1>1. k \in Tasks
  BY DEF Memory!Known
<1>2. /\ w \in [at : {"idle", "locked", "working", "done"}, of : Tasks \cup {None},
                on : Tasks \cup {None}, row : Memory!Rows \cup {None}]
      /\ w.on = k /\ w.row = r /\ w.at = "locked" /\ w.of = folding[q].of
  BY <1>1, Zenon DEF MemoryInv, Memory!TypeOK
<1>3. folding' = [folding EXCEPT ![q] = w]
  BY DEF Memory!Lock
<1>4. folding[q].of \in Memory!Known
  BY DEF MemoryInv, LocksInv
<1> HIDE DEF w
<1> QED
  BY <1>2, <1>3, <1>4, TurnMoves, Zenon

\* begin_turn starts a task.
LEMMA CreateStep ==
  ASSUME MemoryInv, NEW q \in TaskTurns, Memory!Create(q)
  PROVE  MemoryInv' /\ Memory!NothingErased
<1>1. PICK k \in Tasks \ Memory!Known :
        /\ Memory!Lockable(k)
        /\ folding' = [folding EXCEPT ![q] = [at |-> "locked", of |-> k, on |-> k, row |-> Memory!Fresh]]
  BY Zenon DEF Memory!Create, Memory!Lockable
<1> DEFINE w == [at |-> "locked", of |-> k, on |-> k, row |-> Memory!Fresh]
<1>2. task[k] = None
  BY DEF Memory!Known
<1>3. RowIsTrue(Memory!Fresh, change) /\ RowIsPending(Memory!Fresh) /\ Keeps(Memory!Fresh, task[k])
  BY <1>2, FreshIsARow DEF RowIsTrue, RowIsPending, Keeps
<1>4. ChangesMove /\ UNCHANGED <<task, page, torn>> /\ change' = change
  BY DEF Memory!Create, ChangesMove, MemoryInv, Memory!TypeOK
<1>5. /\ w \in [at : {"idle", "locked", "working", "done"}, of : Tasks \cup {None},
                on : Tasks \cup {None}, row : Memory!Rows \cup {None}]
      /\ w.on = k /\ w.row = Memory!Fresh /\ w.at = "locked" /\ w.of = k
  BY FreshIsARow
<1>6. folding' = [folding EXCEPT ![q] = w]
  BY <1>1
<1> HIDE DEF w
<1>7. Memory!Fresh \in Memory!Rows
  BY FreshIsARow
<1>8. RowIsTrue(w.row, change') /\ w.row \in Memory!Rows /\ RowIsPending(w.row) /\ Keeps(w.row, task[w.on])
  BY <1>3, <1>4, <1>5, <1>7
<1>9. Memory!Lockable(w.on)
  BY <1>1, <1>5
<1> QED
  BY <1>4, <1>5, <1>6, <1>8, <1>9, TurnMoves, Zenon

\* Only a change's record moves.
LEMMA RecordsMove ==
  ASSUME MemoryInv, ChangesMove, UNCHANGED <<task, folding, page, torn>>
  PROVE  MemoryInv' /\ Memory!NothingErased
<1>1. Memory!TypeOK'
  BY DEF MemoryInv, Memory!TypeOK, ChangesMove
<1>2. Memory!Known' = Memory!Known
  BY DEF Memory!Known
<1>3. Memory!RecordsAreTrue'
  BY <1>2 DEF MemoryInv, Memory!RecordsAreTrue, ChangesMove, Memory!Decisions
<1>4. Memory!ApprovalIsPending'
  BY <1>2 DEF MemoryInv, Memory!ApprovalIsPending, Memory!HasDraft
<1>5. LocksInv'
  <2>1. \A q \in TaskTurns : folding[q].on # None => RowIsTrue(folding[q].row, change')
    BY TruthLasts DEF MemoryInv, LocksInv
  <2> QED
    BY <1>2, <2>1 DEF MemoryInv, LocksInv, RowIsPending, Memory!HasDraft, RowIsTrue, Keeps,
       Memory!Rows, Memory!Decisions, Memory!Statuses
<1>6. PageInv'
  BY <1>2, TruthLasts DEF MemoryInv, PageInv, RowIsTrue, Memory!Rows, Memory!Decisions, Memory!Statuses
<1>7. Memory!NothingErased
  BY DEF Memory!NothingErased
<1> QED
  BY <1>1, <1>3, <1>4, <1>5, <1>6, <1>7 DEF MemoryInv

\* record_tool adds a drafted change to the current task.
LEMMA RecordToolStep ==
  ASSUME MemoryInv, NEW q \in TaskTurns, Memory!RecordTool(q)
  PROVE  MemoryInv' /\ Memory!NothingErased
<1>1. PICK c \in Changes :
        /\ change[c] = "none" /\ change' = [change EXCEPT ![c] = "draft"]
        /\ \/ /\ Memory!Current # None /\ Memory!Lockable(Memory!Current)
              /\ Memory!Lock(q, Memory!Current, [task[Memory!Current] EXCEPT !.actions[c] = "draft"])
           \/ UNCHANGED folding
  BY Zenon DEF Memory!RecordTool
<1>2. ChangesMove /\ UNCHANGED <<task, page, torn>> /\ folding[q].at = "working"
  BY <1>1 DEF Memory!RecordTool, ChangesMove, MemoryInv, Memory!TypeOK
<1>3. CASE UNCHANGED folding
  BY <1>2, <1>3, RecordsMove
<1>4. CASE Memory!Current # None /\ Memory!Lockable(Memory!Current)
           /\ Memory!Lock(q, Memory!Current, [task[Memory!Current] EXCEPT !.actions[c] = "draft"])
  <2>1. PICK k \in Memory!Known : k = Memory!Current
    BY <1>4, CurrentIsKnown
  <2>2. PICK r : r = [task[k] EXCEPT !.actions[c] = "draft"]
    BY Zenon
  <2>3. task[k] \in Memory!Rows /\ RowIsTrue(task[k], change)
    BY RowsOfTasks
  <2>4. /\ r \in Memory!Rows /\ r.status = task[k].status /\ r.findings = task[k].findings
        /\ r.actions = [task[k].actions EXCEPT ![c] = "draft"]
    BY <2>2, <2>3 DEF Memory!Rows
  <2>5. RowIsTrue(task[k], change')
    BY <1>2, <2>3, TruthLasts
  <2>6. RowIsTrue(r, change')
    BY <1>1, <2>3, <2>4, <2>5 DEF RowIsTrue, Memory!Rows, MemoryInv, Memory!TypeOK
  <2>7. RowIsPending(r)
    BY <2>3, <2>4 DEF RowIsPending, Memory!HasDraft, Memory!Rows
  <2>8. Keeps(r, task[k])
    BY <2>3, <2>4 DEF Keeps, Memory!Rows
  <2>9. Memory!Lock(q, k, r)
    BY <1>4, <2>1, <2>2
  <2> QED
    BY <1>2, <1>4, <2>1, <2>4, <2>6, <2>7, <2>8, <2>9, LockStep
<1> QED
  BY <1>1, <1>3, <1>4

\* apply_update by the assistant.
LEMMA UpdateStep ==
  ASSUME MemoryInv, NEW q \in TaskTurns, Memory!Update(q)
  PROVE  MemoryInv' /\ Memory!NothingErased
<1>1. PICK k \in Memory!Known : k = Memory!Current /\ Memory!Lockable(k)
  BY CurrentIsKnown DEF Memory!Update
<1>2. ChangesMove /\ UNCHANGED <<task, page, torn>> /\ change' = change /\ folding[q].at = "working"
  BY DEF Memory!Update, ChangesMove, MemoryInv, Memory!TypeOK
<1>3. PICK r : /\ Memory!Lock(q, k, r)
               /\ \/ \E f \in Findings : r = [task[k] EXCEPT !.findings = @ \cup {f}]
                  \/ \E s \in Memory!SETTABLE : r = [task[k] EXCEPT !.status = s]
  BY <1>1, Zenon DEF Memory!Update
<1>4. task[k] \in Memory!Rows /\ RowIsTrue(task[k], change) /\ (k \notin torn => RowIsPending(task[k]))
  BY RowsOfTasks
<1>5. /\ r \in Memory!Rows /\ r.actions = task[k].actions /\ task[k].findings \subseteq r.findings
      /\ r.status = task[k].status \/ r.status # "waiting_for_approval"
  BY <1>3, <1>4 DEF Memory!Rows, Memory!SETTABLE, Memory!Statuses
<1>6. RowIsTrue(r, change) /\ (k \notin torn => RowIsPending(r)) /\ Keeps(r, task[k])
  BY <1>4, <1>5 DEF RowIsTrue, RowIsPending, Memory!HasDraft, Keeps
<1> QED
  BY <1>1, <1>2, <1>3, <1>5, <1>6, LockStep

\* end_turn refreshes the task the turn began with and leaves it waiting.
LEMMA EndTurnStep ==
  ASSUME MemoryInv, NEW q \in TaskTurns, Memory!EndTurn(q)
  PROVE  MemoryInv' /\ Memory!NothingErased
<1>1. PICK k \in Memory!Known : k = folding[q].of
  BY DEF Memory!EndTurn, MemoryInv, LocksInv
<1>2. ChangesMove /\ UNCHANGED <<task, page, torn>> /\ change' = change /\ Memory!Lockable(k)
  BY <1>1 DEF Memory!EndTurn, ChangesMove, MemoryInv, Memory!TypeOK
<1>3. PICK n : n = Memory!Refreshed(task[k])
  OBVIOUS
<1>4. /\ n \in Memory!Rows /\ RowIsTrue(n, change) /\ Keeps(n, task[k])
      /\ k \notin torn => RowIsPending(n)
  BY <1>3, RowsOfTasks, RefreshedIsTrue DEF Keeps
<1>5. PICK r : r = Memory!Waiting(n)
  OBVIOUS
<1>6. r \in Memory!Rows /\ r.actions = n.actions /\ r.findings = n.findings
  BY <1>4, <1>5 DEF Memory!Waiting, Memory!Rows, Memory!Statuses
<1>7. RowIsTrue(r, change) /\ Keeps(r, task[k])
  BY <1>4, <1>6 DEF RowIsTrue, Keeps
<1>8. k \notin torn => RowIsPending(r)
  BY <1>4, <1>5, <1>6 DEF Memory!Waiting, RowIsPending, Memory!HasDraft, Memory!Rows
<1> DEFINE w == [folding[q] EXCEPT !.at = "done", !.on = k, !.row = r]
<1>9. /\ w \in [at : {"idle", "locked", "working", "done"}, of : Tasks \cup {None},
                on : Tasks \cup {None}, row : Memory!Rows \cup {None}]
      /\ w.on = k /\ w.row = r /\ w.at = "done"
  BY <1>6, Zenon DEF MemoryInv, Memory!TypeOK, Memory!Known
<1>10. folding' = [folding EXCEPT ![q] = w]
  BY <1>1, <1>3, <1>5 DEF Memory!EndTurn
<1> HIDE DEF w
<1> QED
  BY <1>2, <1>6, <1>7, <1>8, <1>9, <1>10, TurnMoves, Zenon

\* A turn that is cut or fails leaves rows that are true.
LEMMA CutStep ==
  ASSUME MemoryInv, NEW q \in TaskTurns, Memory!Cut(q)
  PROVE  MemoryInv' /\ Memory!NothingErased
<1>1. ChangesMove /\ UNCHANGED <<task, page, torn>> /\ change' = change
  BY DEF Memory!Cut, ChangesMove, MemoryInv, Memory!TypeOK
<1>2. /\ Memory!Over \in [at : {"idle", "locked", "working", "done"}, of : Tasks \cup {None},
                          on : Tasks \cup {None}, row : Memory!Rows \cup {None}]
      /\ Memory!Over.on = None /\ Memory!Over.at = "done"
  BY DEF Memory!Over, Memory!Idle
<1>3. folding' = [folding EXCEPT ![q] = Memory!Over]
  BY DEF Memory!Cut
<1> QED
  BY <1>1, <1>2, <1>3, TurnMoves, Zenon

\* _release_db and get_db commit the row a turn has locked.
LEMMA ReleaseStep ==
  ASSUME MemoryInv, NEW q \in TaskTurns, Memory!Release(q)
  PROVE  MemoryInv' /\ Memory!NothingErased
<1>1. PICK k \in Tasks : k = folding[q].on
  BY DEF Memory!Release, MemoryInv, Memory!TypeOK
<1>2. PICK r : r = folding[q].row
  OBVIOUS
<1>3. k # None
  BY NoneAssumption
<1>4. /\ r \in Memory!Rows /\ RowIsTrue(r, change) /\ Keeps(r, task[k]) /\ r # None
      /\ k \notin torn => RowIsPending(r)
      /\ \A p \in TaskTurns : folding[p].on = k => p = q
  BY <1>1, <1>2, <1>3, NoneAssumption DEF MemoryInv, LocksInv
<1>5. task' = [task EXCEPT ![k] = r] /\ UNCHANGED <<change, page, torn>>
  BY <1>1, <1>2 DEF Memory!Release
<1>6. Memory!Known' = Memory!Known \cup {k} /\ task' \in [Tasks -> Memory!Rows \cup {None}]
  BY <1>4, <1>5 DEF Memory!Known, MemoryInv, Memory!TypeOK
<1>7. PICK w : /\ folding' = [folding EXCEPT ![q] = w]
               /\ w \in [at : {"idle", "locked", "working", "done"}, of : Tasks \cup {None},
                         on : Tasks \cup {None}, row : Memory!Rows \cup {None}]
               /\ w.on = None /\ w.at \in {"working", "done"}
               /\ w.at = "working" => folding[q].at = "locked" /\ w.of = folding[q].of
  <2>1. CASE folding[q].at = "done"
    <3>1. folding' = [folding EXCEPT ![q] = Memory!Over]
      BY <2>1 DEF Memory!Release
    <3>2. /\ Memory!Over \in [at : {"idle", "locked", "working", "done"}, of : Tasks \cup {None},
                              on : Tasks \cup {None}, row : Memory!Rows \cup {None}]
          /\ Memory!Over.on = None /\ Memory!Over.at = "done"
      BY DEF Memory!Over, Memory!Idle
    <3> QED
      BY <3>1, <3>2, Zenon
  <2>2. CASE folding[q].at # "done"
    <3> DEFINE w == [folding[q] EXCEPT !.at = "working", !.on = None, !.row = None]
    <3>1. folding' = [folding EXCEPT ![q] = w]
      BY <2>2 DEF Memory!Release
    <3>2. folding[q].at = "locked"
      BY <2>2 DEF Memory!Release
    <3>3. /\ w \in [at : {"idle", "locked", "working", "done"}, of : Tasks \cup {None},
                    on : Tasks \cup {None}, row : Memory!Rows \cup {None}]
          /\ w.on = None /\ w.at = "working" /\ w.of = folding[q].of
      BY Zenon DEF MemoryInv, Memory!TypeOK
    <3> QED
      BY <3>1, <3>2, <3>3, Zenon
  <2> QED
    BY <2>1, <2>2
<1>8. Memory!TypeOK'
  BY <1>5, <1>6, <1>7 DEF MemoryInv, Memory!TypeOK
<1>9. Memory!RecordsAreTrue'
  BY <1>4, <1>5, <1>6 DEF MemoryInv, Memory!TypeOK, Memory!RecordsAreTrue, RowIsTrue, Memory!Known
<1>10. Memory!ApprovalIsPending'
  BY <1>4, <1>5, <1>6 DEF MemoryInv, Memory!TypeOK, Memory!ApprovalIsPending, RowIsPending,
     Memory!HasDraft, Memory!Known
<1>11. LocksInv'
  <2>1. folding'[q] = w /\ \A p \in TaskTurns \ {q} : folding'[p] = folding[p]
    BY <1>7 DEF MemoryInv, Memory!TypeOK
  <2>2. w.at = "working" => w.of \in Memory!Known'
    BY <1>1, <1>6, <1>7 DEF MemoryInv, LocksInv
  <2>3. \A p \in TaskTurns \ {q} : folding[p].on # k
    BY <1>4
  <2>4. ASSUME NEW p \in TaskTurns \ {q}
        PROVE  /\ folding[p].on # None =>
                    /\ folding[p].row \in Memory!Rows
                    /\ RowIsTrue(folding[p].row, change)
                    /\ folding[p].on \notin torn => RowIsPending(folding[p].row)
                    /\ Keeps(folding[p].row, task'[folding[p].on])
                    /\ \A s \in TaskTurns \ {q} : folding[s].on = folding[p].on => s = p
               /\ folding[p].at = "working" => folding[p].of \in Memory!Known'
               /\ folding[p].at = "locked" => folding[p].of \in Memory!Known' \cup {folding[p].on}
    BY <1>5, <1>6, <2>3 DEF MemoryInv, Memory!TypeOK, LocksInv
  <2> QED
    BY <1>5, <1>7, <2>1, <2>2, <2>4 DEF LocksInv, RowIsPending, Memory!HasDraft, RowIsTrue, Keeps,
       Memory!Rows, Memory!Decisions, Memory!Statuses
<1>12. PageInv'
  BY <1>5, <1>6 DEF MemoryInv, PageInv, RowIsTrue, Memory!Rows, Memory!Decisions, Memory!Statuses
<1>13. Memory!NothingErased
  BY <1>4, <1>5 DEF MemoryInv, Memory!TypeOK, Memory!NothingErased, Memory!Known, Keeps
<1> QED
  BY <1>8, <1>9, <1>10, <1>11, <1>12, <1>13 DEF MemoryInv

\* Only the row of one task moves, which nobody has locked.
LEMMA RowMoves ==
  ASSUME MemoryInv, UNCHANGED <<change, folding>>,
         NEW k \in Memory!Known, Memory!Lockable(k),
         NEW r \in Memory!Rows, RowIsTrue(r, change),
         task' = [task EXCEPT ![k] = r],
         torn' \in SUBSET Tasks, torn \subseteq torn', torn' \subseteq torn \cup {k},
         k \notin torn' => RowIsPending(r) /\ Keeps(r, task[k]),
         \/ page' = page
         \/ page' = Memory!Closing
  PROVE  MemoryInv' /\ Memory!NothingErased
<1>1. k \in Tasks /\ r # None /\ k # None
  BY NoneAssumption DEF Memory!Known
<1>2. Memory!Known' = Memory!Known /\ task' \in [Tasks -> Memory!Rows \cup {None}]
  BY <1>1 DEF Memory!Known, MemoryInv, Memory!TypeOK
<1>3. task'[k] = r /\ \A j \in Tasks \ {k} : task'[j] = task[j]
  BY <1>1 DEF MemoryInv, Memory!TypeOK
<1>4. Memory!TypeOK'
  BY <1>2 DEF MemoryInv, Memory!TypeOK, Memory!Closing
<1>5. Memory!RecordsAreTrue'
  BY <1>2, <1>3 DEF MemoryInv, Memory!RecordsAreTrue, RowIsTrue, Memory!Known
<1>6. Memory!ApprovalIsPending'
  BY <1>2, <1>3 DEF MemoryInv, Memory!ApprovalIsPending, RowIsPending, Memory!HasDraft, Memory!Known
<1>7. LocksInv'
  <2>1. \A p \in TaskTurns : folding[p].on # k
    BY DEF Memory!Lockable
  <2>2. \A p \in TaskTurns : folding[p].on # None => folding[p].on \in Tasks \ {k}
    BY <2>1 DEF MemoryInv, Memory!TypeOK
  <2> QED
    BY <1>2, <1>3, <2>2 DEF MemoryInv, LocksInv, RowIsPending, Memory!HasDraft, RowIsTrue, Keeps,
       Memory!Rows, Memory!Decisions, Memory!Statuses
<1>8. PageInv'
  BY <1>2 DEF MemoryInv, PageInv, Memory!Closing, RowIsTrue, Memory!Rows, Memory!Decisions, Memory!Statuses
<1>9. Memory!NothingErased
  BY <1>1, <1>3 DEF MemoryInv, Memory!TypeOK, Memory!NothingErased, Memory!Known, Keeps
<1> QED
  BY <1>4, <1>5, <1>6, <1>7, <1>8, <1>9 DEF MemoryInv

\* Its owner adds to a task and sets its status (PATCH /ai/tasks/{id}).
LEMMA EditStep ==
  ASSUME MemoryInv, NEW k \in Tasks, Memory!Edit(k)
  PROVE  MemoryInv' /\ Memory!NothingErased
<1>1. k \in Memory!Known /\ Memory!Lockable(k) /\ UNCHANGED <<change, folding, page, torn>>
  BY DEF Memory!Edit
<1>2. PICK f \in SUBSET Findings, s \in Memory!SETTABLE :
        task' = [task EXCEPT ![k].findings = @ \cup f, ![k].status = s]
  BY Zenon DEF Memory!Edit
<1>3. PICK r : r = [task[k] EXCEPT !.findings = @ \cup f, !.status = s]
  OBVIOUS
<1>4. task[k] \in Memory!Rows /\ RowIsTrue(task[k], change)
  BY <1>1, RowsOfTasks
<1>5. /\ r \in Memory!Rows /\ r.actions = task[k].actions /\ task[k].findings \subseteq r.findings
      /\ r.status = s
  BY <1>3, <1>4, Zenon DEF Memory!Rows, Memory!SETTABLE, Memory!Statuses
<1>6. task' = [task EXCEPT ![k] = r]
  BY <1>2, <1>3, <1>4, Zenon DEF MemoryInv, Memory!TypeOK, Memory!Rows
<1>7. RowIsTrue(r, change) /\ RowIsPending(r) /\ Keeps(r, task[k])
  BY <1>4, <1>5 DEF RowIsTrue, RowIsPending, Keeps, Memory!SETTABLE
<1>8. torn' \in SUBSET Tasks
  BY <1>1 DEF MemoryInv, Memory!TypeOK
<1> QED
  BY <1>1, <1>5, <1>6, <1>7, <1>8, RowMoves, Zenon

\* The page's flush writes what it read, and whatever is not a later version of the row
\* is said to be torn (GET /ai/tasks/{id}).
LEMMA SavePageStep ==
  ASSUME MemoryInv, Memory!SavePage
  PROVE  MemoryInv' /\ Memory!NothingErased
<1>1. PICK k \in Memory!Known : k = page.on
  BY DEF Memory!SavePage, MemoryInv, PageInv
<1>2. /\ Memory!Lockable(k) /\ page.row \in Memory!Rows /\ RowIsTrue(page.row, change)
      /\ UNCHANGED <<change, folding>> /\ page' = Memory!Closing
  BY <1>1 DEF Memory!SavePage, MemoryInv, PageInv
<1>3. PICK new : new = [task[k] EXCEPT !.findings = page.row.findings, !.actions = page.row.actions,
                                       !.status = IF page.row.status = "active" THEN "active" ELSE @]
  OBVIOUS
<1>4. task[k] \in Memory!Rows /\ RowIsTrue(task[k], change) /\ (k \notin torn => RowIsPending(task[k]))
  BY RowsOfTasks
<1>5. new \in Memory!Rows /\ new.actions = page.row.actions
  BY <1>2, <1>3, <1>4, Zenon DEF Memory!Rows, Memory!Statuses
<1>6. RowIsTrue(new, change)
  BY <1>2, <1>5 DEF RowIsTrue
<1>7. /\ task' = [task EXCEPT ![k] = new]
      /\ torn' = IF new # Memory!Refreshed(task[k]) THEN torn \cup {k} ELSE torn
  BY <1>1, <1>3 DEF Memory!SavePage
<1>8. k \notin torn' => RowIsPending(new) /\ Keeps(new, task[k])
  <2>1. SUFFICES ASSUME k \notin torn' PROVE RowIsPending(new) /\ Keeps(new, task[k])
    OBVIOUS
  <2>2. new = Memory!Refreshed(task[k]) /\ k \notin torn
    BY <1>7, <2>1
  <2> QED
    BY <1>4, <2>2, RefreshedIsTrue DEF Keeps
<1>9. torn' \in SUBSET Tasks /\ torn \subseteq torn' /\ torn' \subseteq torn \cup {k}
  BY <1>7 DEF MemoryInv, Memory!TypeOK, Memory!Known
<1> QED
  BY <1>2, <1>5, <1>6, <1>7, <1>8, <1>9, RowMoves, Zenon

\* A page reads its row and refreshes what it has read (GET /ai/tasks/{id}).
LEMMA OpenPageStep ==
  ASSUME MemoryInv, NEW k \in Tasks, Memory!OpenPage(k)
  PROVE  MemoryInv' /\ Memory!NothingErased
<1>1. PICK n : n = Memory!Refreshed(task[k])
  OBVIOUS
<1>2. n \in Memory!Rows /\ RowIsTrue(n, change) /\ k \in Memory!Known
  BY <1>1, RowsOfTasks, RefreshedIsTrue DEF Memory!OpenPage
<1>3. page' = [on |-> k, row |-> n] /\ UNCHANGED <<task, change, folding, torn>>
  BY <1>1 DEF Memory!OpenPage
<1>4. Memory!TypeOK' /\ Memory!Known' = Memory!Known
  BY <1>2, <1>3 DEF MemoryInv, Memory!TypeOK, Memory!Known
<1>5. Memory!RecordsAreTrue' /\ Memory!ApprovalIsPending'
  BY <1>3, <1>4 DEF MemoryInv, Memory!RecordsAreTrue, Memory!ApprovalIsPending, Memory!HasDraft
<1>6. LocksInv'
  BY <1>3, <1>4 DEF MemoryInv, LocksInv, RowIsPending, Memory!HasDraft, RowIsTrue, Keeps, Memory!Rows,
     Memory!Decisions, Memory!Statuses
<1>7. PageInv'
  BY <1>2, <1>3, <1>4 DEF MemoryInv, PageInv, RowIsTrue, Memory!Rows, Memory!Decisions, Memory!Statuses
<1>8. Memory!NothingErased
  BY <1>3 DEF Memory!NothingErased
<1> QED
  BY <1>4, <1>5, <1>6, <1>7, <1>8 DEF MemoryInv

\* A change is decided in the console.
LEMMA DecideStep ==
  ASSUME MemoryInv, NEW c \in Changes, Memory!Decide(c)
  PROVE  MemoryInv' /\ Memory!NothingErased
<1>1. ChangesMove /\ UNCHANGED <<task, folding, page, torn>>
  BY DEF Memory!Decide, ChangesMove, MemoryInv, Memory!TypeOK
<1> QED
  BY <1>1, RecordsMove

\* Every step of the tasks keeps them true and erases nothing.
LEMMA MemoryNext ==
  ASSUME MemoryInv, Memory!Next
  PROVE  MemoryInv' /\ Memory!NothingErased
<1>1. ASSUME NEW q \in TaskTurns, Memory!TurnStep(q) PROVE MemoryInv' /\ Memory!NothingErased
  BY <1>1, ContinueStep, CreateStep, ReleaseStep, RecordToolStep, UpdateStep, EndTurnStep, CutStep
  DEF Memory!TurnStep
<1>2. CASE Memory!Request
  BY <1>2, EditStep, OpenPageStep, SavePageStep DEF Memory!Request
<1> QED
  BY <1>1, <1>2, DecideStep DEF Memory!Next

\* Whatever leaves the tasks alone keeps them true.
LEMMA MemoryStutters ==
  ASSUME MemoryInv, UNCHANGED memoryVars
  PROVE  MemoryInv'
BY DEF memoryVars, MemoryInv, Memory!TypeOK, Memory!RecordsAreTrue, Memory!ApprovalIsPending,
       Memory!Known, Memory!HasDraft, LocksInv, PageInv, RowIsTrue, RowIsPending, Keeps,
       Memory!Rows, Memory!Decisions, Memory!Statuses

\* What a task says of a change is true of the change's record, and a task that waits for
\* approval has a drafted change to approve (refresh_actions, end_turn).
THEOREM TasksStayTrue == MCSpec => []TasksAreTrue
<1>1. MCInit => MemoryInv
  BY MemoryInit DEF MCInit
<1>2. MemoryInv /\ [MCNext]_MCvars => MemoryInv'
  BY MemoryNext, MemoryStutters
  DEF MCNext, MCvars, OnlyChat, OnlyMemory, OnlyMonitor, OnlyTeam, OnlyDocuments, OnlyLore, OnlyBase,
      OnlyMap, OnlyImpact
<1>3. MemoryInv => TasksAreTrue
  BY DEF MemoryInv, TasksAreTrue
<1> QED
  BY <1>1, <1>2, <1>3, PTL DEF MCSpec

-----------------------------------------------------------------------------
(***************************************************************************)
(* Monitoring rules and their alerts (MonitorRules).                       *)
(***************************************************************************)

\* Nothing is from later than now, and an event whose record was never late can be read.
ClockInv ==
  /\ rule.last <= now /\ rule.born <= now
  /\ \A e \in Events : /\ happened[e] <= now
                       /\ e \notin late /\ happened[e] # 0 => e \in shown
                       /\ kind # "events" => happened[e] = 0
  /\ \A c \in Checks : check[c].at = "started" \/ check[c].at = "found" \/ check[c].at = "recorded" =>
                         check[c].started <= now /\ check[c].since <= now

\* An event up to a moment has its alert, or is among those a check raises.
AlertedUpTo(t, raised) ==
  \A e \in Events \ (late \cup cut) :
    happened[e] >= rule.born + 1 /\ happened[e] <= t =>
      alert[<<"event", e>>] # "none" \/ <<"event", e>> \in raised

\* What was checked before a check began has its alerts; what it found is among them.
CheckedInv ==
  rule.status # "deleted" =>
    /\ AlertedUpTo(rule.last, {})
    /\ \A c \in Checks :
         /\ check[c].at = "started" => AlertedUpTo(check[c].since, {})
         /\ check[c].at = "found" /\ check[c].ok => AlertedUpTo(check[c].started, check[c].found)
         /\ check[c].at = "recorded" /\ check[c].ok => AlertedUpTo(check[c].started, check[c].new)

\* One check writes the rule; what it raises nobody was told of, and what waits to be
\* mailed waits in one check.
RaisedInv ==
  \A c \in Checks :
    /\ check[c].at = "recorded" =>
         /\ rule.status # "deleted"
         /\ \A o \in check[c].new : alert[o] = "none"
         /\ ~check[c].ok => check[c].new \subseteq Monitor!Found(c)
         /\ \A d \in Checks : check[d].at = "recorded" => d = c
    /\ check[c].at = "mail" =>
         /\ \A o \in check[c].new : /\ o \notin again => mails[o] = 0
                                    /\ rule.status # "deleted" => alert[o] # "none"
         /\ \A d \in Checks : check[d].at = "mail" /\ d # c => check[d].new \cap check[c].new = {}

\* Checked by one pass at a time, the failures counted are the rule's, and after a
\* "cannot check" the count has passed the limit.
SaidInv ==
  alone =>
    /\ \A c, d \in Checks : check[c].at # "idle" /\ check[d].at # "idle" => c = d
    /\ \A c \in Checks : check[c].at = "started" \/ check[c].at = "found" \/ check[c].at = "recorded" =>
                           check[c].errors = rule.errors
    /\ down <= 1 /\ (down = 1 => rule.errors >= MaxErrors)

MonitorInv ==
  /\ Monitor!TypeOK /\ ClockInv /\ CheckedInv /\ Monitor!MailedOnce /\ RaisedInv /\ SaidInv

\* Where a check is and what it holds.
CheckStates ==
  [at : {"idle", "due", "started", "found", "recorded", "mail"}, hand : BOOLEAN,
   since : Monitor!Times, started : Monitor!Times, errors : Nat, ok : BOOLEAN,
   found : SUBSET Monitor!Occurrences, base : 0..MaxValue, new : SUBSET Monitor!Occurrences]

\* The invariant is the one AlertsAreExact asks of monitoring.
LEMMA MonitorSays == MonitorInv => Monitor!TypeOK /\ Monitor!NoneMissed /\ Monitor!MailedOnce /\ Monitor!DownSaidOnce
BY BoundsAssumption DEF MonitorInv, CheckedInv, AlertedUpTo, SaidInv, Monitor!NoneMissed, Monitor!DownSaidOnce,
   Monitor!TypeOK, Monitor!Times

\* Rules that were never checked satisfy the invariant.
LEMMA MonitorInit == Monitor!Init => MonitorInv
<1> SUFFICES ASSUME Monitor!Init PROVE MonitorInv
  OBVIOUS
<1>0. Monitor!Idle \in CheckStates /\ Monitor!Idle.at = "idle"
  BY BoundsAssumption DEF Monitor!Idle, CheckStates, Monitor!Times
<1>1. Monitor!TypeOK
  BY <1>0, BoundsAssumption DEF Monitor!Init, Monitor!TypeOK, CheckStates, Monitor!Times, Monitor!Values,
     Monitor!Created, Monitor!Statuses
<1>2. ClockInv /\ CheckedInv /\ Monitor!MailedOnce /\ RaisedInv /\ SaidInv
  BY <1>0 DEF Monitor!Init, ClockInv, CheckedInv, AlertedUpTo, Monitor!MailedOnce, RaisedInv, SaidInv,
     Monitor!Created
<1> QED
  BY <1>1, <1>2 DEF MonitorInv

\* An event happens or becomes readable, or the server changes.
LEMMA WorldMoves ==
  ASSUME MonitorInv, (\E e \in Events : Monitor!Happen(e) \/ Monitor!Appear(e)) \/ Monitor!Change
  PROVE  MonitorInv' /\ Monitor!AlertsOnce
<1>1. UNCHANGED <<kind, alone, rule, alert, check, mails, again, cut, down>>
  BY DEF Monitor!Happen, Monitor!Appear, Monitor!Change, Monitor!book, Monitor!ledger
<1>2. /\ now' \in Monitor!Times /\ now <= now' /\ value' \in Monitor!Values
      /\ happened' \in [Events -> Monitor!Times] /\ shown' \subseteq Events /\ late' \subseteq Events
      /\ late \subseteq late' /\ shown \subseteq shown'
      /\ \A e \in Events : \/ happened'[e] = happened[e] /\ (e \in late' => e \in late)
                           \/ /\ happened[e] = 0 /\ happened'[e] = now' /\ now' = now + 1
                              /\ kind = "events" /\ (e \in late' \/ e \in shown')
  BY BoundsAssumption DEF Monitor!Happen, Monitor!Appear, Monitor!Change, MonitorInv, Monitor!TypeOK, Monitor!Times
<1>3. Monitor!TypeOK'
  BY <1>1, <1>2 DEF MonitorInv, Monitor!TypeOK
<1>4. ClockInv'
  BY <1>1, <1>2, BoundsAssumption DEF MonitorInv, Monitor!TypeOK, Monitor!Times, ClockInv
<1>5. CheckedInv'
  <2>1. ASSUME NEW t \in Monitor!Times, t <= now, NEW x, AlertedUpTo(t, x)
        PROVE  AlertedUpTo(t, x)'
    BY <1>1, <1>2, <2>1, BoundsAssumption DEF AlertedUpTo, Monitor!Times, MonitorInv, Monitor!TypeOK
  <2> QED
    BY <1>1, <2>1 DEF MonitorInv, CheckedInv, ClockInv, Monitor!TypeOK
<1>6. Monitor!MailedOnce' /\ RaisedInv' /\ SaidInv' /\ Monitor!AlertsOnce
  BY <1>1 DEF MonitorInv, Monitor!MailedOnce, RaisedInv, Monitor!Found, Monitor!Silent, SaidInv, Monitor!AlertsOnce
<1> QED
  BY <1>3, <1>4, <1>5, <1>6 DEF MonitorInv

\* What a check in progress may be.
LEMMA CheckIs ==
  ASSUME MonitorInv, NEW c \in Checks
  PROVE  check[c] \in CheckStates /\ 0 \in Monitor!Times /\ 0 \in 0..MaxValue
BY BoundsAssumption DEF MonitorInv, Monitor!TypeOK, CheckStates, Monitor!Times

\* A check that is idle, due or over holds nothing.
LEMMA CheckRests ==
  ASSUME MonitorInv, NEW c \in Checks, NEW w \in CheckStates,
         w.at = "idle" \/ (w.at = "due" /\ (alone => \A d \in Checks : check[d].at = "idle")),
         check' = [check EXCEPT ![c] = w],
         UNCHANGED <<kind, alone, now, happened, shown, late, value, rule, alert, mails, again, cut, down>>
  PROVE  MonitorInv' /\ Monitor!AlertsOnce
<1>1. check'[c] = w /\ \A d \in Checks \ {c} : check'[d] = check[d]
  BY DEF MonitorInv, Monitor!TypeOK
<1>2. Monitor!TypeOK'
  BY DEF MonitorInv, Monitor!TypeOK, CheckStates
<1>3. ClockInv'
  BY <1>1 DEF MonitorInv, ClockInv
<1>4. CheckedInv'
  BY <1>1 DEF MonitorInv, CheckedInv, AlertedUpTo
<1>5. Monitor!MailedOnce' /\ Monitor!AlertsOnce
  BY DEF MonitorInv, Monitor!MailedOnce, Monitor!AlertsOnce
<1>6. RaisedInv'
  BY <1>1 DEF MonitorInv, RaisedInv, Monitor!Found, Monitor!Silent
<1>7. SaidInv'
  BY <1>1 DEF MonitorInv, SaidInv
<1> QED
  BY <1>2, <1>3, <1>4, <1>5, <1>6, <1>7 DEF MonitorInv

\* A check is listed or asked for, or ends before it commits: the alerts stay (run_due_monitors, check_now).
LEMMA EntryStep ==
  ASSUME MonitorInv, NEW c \in Checks, Monitor!Due(c) \/ Monitor!CheckNow(c) \/ Monitor!Fail(c)
  PROVE  MonitorInv' /\ Monitor!AlertsOnce
<1>1. UNCHANGED <<kind, alone, now, happened, shown, late, value, rule, alert, mails, again, cut, down>>
  BY DEF Monitor!Due, Monitor!CheckNow, Monitor!Fail, Monitor!world, Monitor!book, Monitor!ledger
<1>2. PICK w \in CheckStates :
        /\ check' = [check EXCEPT ![c] = w]
        /\ w.at = "idle" \/ (w.at = "due" /\ (alone => \A d \in Checks : check[d].at = "idle"))
  <2>1. Monitor!Idle \in CheckStates /\ Monitor!Idle.at = "idle"
    BY CheckIs DEF Monitor!Idle, CheckStates
  <2>2. [Monitor!Idle EXCEPT !.at = "due"] \in CheckStates /\ [Monitor!Idle EXCEPT !.at = "due"].at = "due"
    BY <2>1 DEF CheckStates
  <2>3. /\ [Monitor!Idle EXCEPT !.at = "due", !.hand = TRUE] \in CheckStates
        /\ [Monitor!Idle EXCEPT !.at = "due", !.hand = TRUE].at = "due"
    BY <2>1, Zenon DEF CheckStates
  <2> QED
    BY <2>1, <2>2, <2>3, Zenon DEF Monitor!Due, Monitor!CheckNow, Monitor!Fail
<1> QED
  BY <1>1, <1>2, CheckRests, Zenon

\* check_rule reads the rule and notes the time before it looks.
LEMMA StartStep ==
  ASSUME MonitorInv, NEW c \in Checks, Monitor!Start(c)
  PROVE  MonitorInv' /\ Monitor!AlertsOnce
<1> DEFINE since == IF rule.last = 0 THEN rule.born ELSE rule.last
           w == [check[c] EXCEPT !.at = "started", !.started = now', !.errors = rule.errors,
                                 !.since = since, !.base = rule.base]
<1>1. /\ UNCHANGED <<kind, alone, happened, shown, late, value, rule, alert, mails, again, cut, down>>
      /\ check[c].at = "due" /\ now' = now + 1 /\ now' \in Monitor!Times
      /\ check' = [check EXCEPT ![c] = w]
  BY BoundsAssumption DEF Monitor!Start, Monitor!world, Monitor!book, Monitor!ledger, MonitorInv,
     Monitor!TypeOK, Monitor!Times
<1>2. /\ since \in Monitor!Times /\ since <= now
      /\ rule.status # "deleted" => AlertedUpTo(since, {})
  BY BoundsAssumption DEF MonitorInv, Monitor!TypeOK, Monitor!Times, ClockInv, CheckedInv, AlertedUpTo
<1>3. /\ w \in CheckStates /\ w.at = "started" /\ w.since = since /\ w.started = now'
      /\ w.errors = rule.errors
  <2>1. rule.errors \in Nat /\ rule.base \in 0..MaxValue
    BY DEF MonitorInv, Monitor!TypeOK
  <2> HIDE DEF since
  <2> QED
    BY <1>1, <1>2, <2>1, CheckIs, Zenon DEF CheckStates
<1>4. PICK x : x = w
  OBVIOUS
<1> HIDE DEF w, since
<1>5. check'[c] = x /\ \A d \in Checks \ {c} : check'[d] = check[d]
  BY <1>1, <1>4 DEF MonitorInv, Monitor!TypeOK
<1>6. Monitor!TypeOK'
  BY <1>1, <1>3, <1>4 DEF MonitorInv, Monitor!TypeOK, CheckStates
<1>7. ClockInv'
  BY <1>1, <1>2, <1>3, <1>4, <1>5, BoundsAssumption DEF MonitorInv, Monitor!TypeOK, Monitor!Times, ClockInv
<1>8. CheckedInv'
  BY <1>1, <1>2, <1>3, <1>4, <1>5 DEF MonitorInv, CheckedInv, AlertedUpTo
<1>9. Monitor!MailedOnce' /\ Monitor!AlertsOnce
  BY <1>1 DEF MonitorInv, Monitor!MailedOnce, Monitor!AlertsOnce
<1>10. RaisedInv'
  BY <1>1, <1>3, <1>4, <1>5 DEF MonitorInv, RaisedInv, Monitor!Found, Monitor!Silent
<1>11. SaidInv'
  BY <1>1, <1>3, <1>4, <1>5 DEF MonitorInv, SaidInv
<1> QED
  BY <1>6, <1>7, <1>8, <1>9, <1>10, <1>11 DEF MonitorInv

\* What is found occurs (the evaluators).
LEMMA EvaluatedOccurs ==
  ASSUME MonitorInv, NEW c \in Checks
  PROVE  /\ Monitor!Evaluated(c).found \in SUBSET Monitor!Occurrences
         /\ Monitor!Evaluated(c).base \in 0..MaxValue
         /\ kind = "events" => Monitor!Evaluated(c).found = {<<"event", e>> : e \in Monitor!NewEvents(c)}
<1>1. check[c].base \in 0..MaxValue /\ value \in 1..MaxValue /\ Monitor!NewEvents(c) \subseteq Events
  BY DEF MonitorInv, Monitor!TypeOK, Monitor!Values, Monitor!NewEvents
<1>2. CASE kind = "events"
  <2>1. Monitor!Evaluated(c) = [found |-> {<<"event", e>> : e \in Monitor!NewEvents(c)}, base |-> 0]
    BY <1>2 DEF Monitor!Evaluated
  <2> QED
    BY <1>1, <2>1, BoundsAssumption DEF Monitor!Occurrences
<1>3. CASE kind = "growth"
  <2>1. Monitor!Evaluated(c) = Monitor!Grown(c)
    BY <1>3 DEF Monitor!Evaluated
  <2> QED
    BY <1>1, <1>3, <2>1, BoundsAssumption DEF Monitor!Grown, Monitor!Occurrences, Monitor!Values
<1>4. CASE kind = "security"
  <2>1. Monitor!Evaluated(c) = Monitor!SecurityChanged(c)
    BY <1>4 DEF Monitor!Evaluated
  <2> QED
    BY <1>1, <1>4, <2>1, BoundsAssumption DEF Monitor!SecurityChanged, Monitor!Occurrences, Monitor!Values
<1> QED
  BY <1>2, <1>3, <1>4 DEF MonitorInv, Monitor!TypeOK

\* The evaluators look: what is new is raised or cut, or nobody answers.
LEMMA EvaluateStep ==
  ASSUME MonitorInv, NEW c \in Checks, Monitor!Evaluate(c)
  PROVE  MonitorInv' /\ Monitor!AlertsOnce
<1>1. /\ UNCHANGED <<kind, alone, now, happened, shown, late, value, rule, alert, mails, again, down>>
      /\ check[c].at = "started"
  BY Zenon DEF Monitor!Evaluate, Monitor!world, Monitor!book
<1>2. PICK x \in CheckStates :
        /\ check' = [check EXCEPT ![c] = x]
        /\ x.at = "found" /\ x.since = 0 /\ x.started = check[c].started /\ x.errors = check[c].errors
        /\ cut \subseteq cut' /\ cut' \subseteq Events
        /\ x.ok /\ kind = "events" =>
             \A e \in Monitor!NewEvents(c) : e \in cut' \/ <<"event", e>> \in x.found
  <2>1. CASE \E s \in Monitor!Raised(Monitor!Evaluated(c).found) :
               /\ check' = [check EXCEPT ![c] = [@ EXCEPT !.at = "found", !.since = 0, !.found = s,
                                                          !.base = Monitor!Evaluated(c).base]]
               /\ cut' = IF kind = "events" THEN cut \cup {o[2] : o \in Monitor!Evaluated(c).found \ s} ELSE cut
    <3>1. PICK s \in Monitor!Raised(Monitor!Evaluated(c).found) :
               /\ check' = [check EXCEPT ![c] = [@ EXCEPT !.at = "found", !.since = 0, !.found = s,
                                                          !.base = Monitor!Evaluated(c).base]]
               /\ cut' = IF kind = "events" THEN cut \cup {o[2] : o \in Monitor!Evaluated(c).found \ s} ELSE cut
      BY <2>1, Zenon
    <3>2. s \in SUBSET Monitor!Evaluated(c).found
      BY DEF Monitor!Raised
    <3>3. s \in SUBSET Monitor!Occurrences
      BY <3>2, EvaluatedOccurs
    <3> DEFINE w == [check[c] EXCEPT !.at = "found", !.since = 0, !.found = s, !.base = Monitor!Evaluated(c).base]
    <3>4. /\ w \in CheckStates /\ w.at = "found" /\ w.since = 0 /\ w.started = check[c].started
          /\ w.errors = check[c].errors /\ w.found = s
      BY <3>3, EvaluatedOccurs, CheckIs, Zenon DEF CheckStates
    <3>5. check' = [check EXCEPT ![c] = w]
      BY <3>1
    <3>6. kind = "events" =>
             \A e \in Monitor!NewEvents(c) : e \in cut' \/ <<"event", e>> \in s
      <4>1. SUFFICES ASSUME kind = "events", NEW e \in Monitor!NewEvents(c), <<"event", e>> \notin s
                     PROVE  e \in cut'
        BY Zenon
      <4>2. <<"event", e>> \in Monitor!Evaluated(c).found \ s
        BY <4>1, EvaluatedOccurs
      <4>3. <<"event", e>>[2] \in {o[2] : o \in Monitor!Evaluated(c).found \ s}
        BY <4>2
      <4> QED
        BY <3>1, <4>1, <4>3
    <3>7. cut \subseteq cut' /\ cut' \subseteq Events
      <4>1. kind = "events" => \A o \in Monitor!Evaluated(c).found : o[2] \in Events
        BY EvaluatedOccurs DEF Monitor!NewEvents, MonitorInv, Monitor!TypeOK
      <4> QED
        BY <3>1, <4>1 DEF MonitorInv, Monitor!TypeOK
    <3> HIDE DEF w
    <3> QED
      BY <3>4, <3>5, <3>6, <3>7, Zenon
  <2>2. CASE check' = [check EXCEPT ![c] = [@ EXCEPT !.at = "found", !.since = 0, !.ok = FALSE, !.base = 0]]
             /\ UNCHANGED cut
    <3> DEFINE w == [check[c] EXCEPT !.at = "found", !.since = 0, !.ok = FALSE, !.base = 0]
    <3>1. /\ w \in CheckStates /\ w.at = "found" /\ w.since = 0 /\ w.started = check[c].started
          /\ w.errors = check[c].errors /\ ~w.ok
      BY CheckIs, Zenon DEF CheckStates
    <3>2. check' = [check EXCEPT ![c] = w] /\ cut \subseteq cut' /\ cut' \subseteq Events
      BY <2>2 DEF MonitorInv, Monitor!TypeOK
    <3> HIDE DEF w
    <3> QED
      BY <3>1, <3>2, Zenon
  <2> QED
    BY <2>1, <2>2, Zenon DEF Monitor!Evaluate
<1>3. check'[c] = x /\ \A d \in Checks \ {c} : check'[d] = check[d]
  BY <1>2 DEF MonitorInv, Monitor!TypeOK
<1>4. Monitor!TypeOK'
  BY <1>1, <1>2 DEF MonitorInv, Monitor!TypeOK, CheckStates
<1>5. ClockInv'
  BY <1>1, <1>2, <1>3, BoundsAssumption DEF MonitorInv, Monitor!TypeOK, Monitor!Times, ClockInv
<1>6. CheckedInv'
  <2>1. rule.status # "deleted" /\ x.ok => AlertedUpTo(x.started, x.found)'
    <3>1. SUFFICES ASSUME rule.status # "deleted", x.ok,
                          NEW e \in Events \ (late \cup cut'),
                          happened[e] >= rule.born + 1, happened[e] <= x.started,
                          alert[<<"event", e>>] = "none"
                   PROVE  <<"event", e>> \in x.found
      BY <1>1 DEF AlertedUpTo
    <3>2. happened[e] > check[c].since /\ happened[e] # 0
      BY <1>1, <1>2, <3>1, BoundsAssumption DEF MonitorInv, CheckedInv, AlertedUpTo, Monitor!TypeOK, Monitor!Times
    <3>3. e \in Monitor!NewEvents(c) /\ kind = "events"
      BY <3>1, <3>2 DEF MonitorInv, ClockInv, Monitor!NewEvents
    <3> QED
      BY <1>2, <3>1, <3>3
  <2> QED
    BY <1>1, <1>2, <1>3, <2>1 DEF MonitorInv, CheckedInv, AlertedUpTo
<1>7. Monitor!MailedOnce' /\ Monitor!AlertsOnce
  BY <1>1 DEF MonitorInv, Monitor!MailedOnce, Monitor!AlertsOnce
<1>8. RaisedInv'
  BY <1>1, <1>2, <1>3 DEF MonitorInv, RaisedInv, Monitor!Found, Monitor!Silent
<1>9. SaidInv'
  BY <1>1, <1>2, <1>3 DEF MonitorInv, SaidInv
<1> QED
  BY <1>4, <1>5, <1>6, <1>7, <1>8, <1>9 DEF MonitorInv

\* Counting inside the instance is counting.
LEMMA MonitorCounts == \A S : Monitor!Cardinality(S) = Cardinality(S)
BY DEF Monitor!Cardinality, Cardinality

\* What a check found is of the rule's occurrences; of a failed one at most "cannot check".
LEMMA FoundOccurs ==
  ASSUME MonitorInv, NEW c \in Checks, check[c].at = "found" \/ check[c].at = "recorded"
  PROVE  /\ Monitor!Found(c) \subseteq Monitor!Occurrences
         /\ ~check[c].ok => /\ Monitor!Found(c) \subseteq {<<"down", check[c].started>>}
                            /\ check[c].errors + 1 # MaxErrors => Monitor!Found(c) = {}
<1>1. check[c].started \in Monitor!Times /\ check[c].found \subseteq Monitor!Occurrences
  BY CheckIs DEF CheckStates
<1> QED
  BY <1>1 DEF Monitor!Found, Monitor!Silent, Monitor!Occurrences

\* _raise inserts what is not there yet.
LEMMA RecordStep ==
  ASSUME MonitorInv, NEW c \in Checks, Monitor!Record(c)
  PROVE  MonitorInv' /\ Monitor!AlertsOnce
<1> DEFINE new == {o \in Monitor!Found(c) : alert[o] = "none"}
           w == [check[c] EXCEPT !.at = "recorded", !.new = new]
<1>1. /\ UNCHANGED <<kind, alone, now, happened, shown, late, value, rule, alert, mails, again, cut, down>>
      /\ check[c].at = "found" /\ rule.status # "deleted"
      /\ \A d \in Checks : check[d].at # "recorded"
      /\ check' = [check EXCEPT ![c] = w]
  BY DEF Monitor!Record, Monitor!Locked, Monitor!world, Monitor!book, Monitor!ledger
<1>2. new \in SUBSET Monitor!Occurrences
  BY <1>1, FoundOccurs
<1>3. PICK x \in CheckStates :
        /\ check' = [check EXCEPT ![c] = x]
        /\ x.at = "recorded" /\ x.new = new /\ x.ok = check[c].ok /\ x.started = check[c].started
        /\ x.since = check[c].since /\ x.errors = check[c].errors /\ x.found = check[c].found
  <2> HIDE DEF new
  <2>1. w \in CheckStates
    BY <1>2, CheckIs, Zenon DEF CheckStates
  <2>2. /\ w.at = "recorded" /\ w.new = new /\ w.ok = check[c].ok /\ w.started = check[c].started
        /\ w.since = check[c].since /\ w.errors = check[c].errors /\ w.found = check[c].found
    BY CheckIs DEF CheckStates
  <2> HIDE DEF w
  <2> QED
    BY <1>1, <2>1, <2>2, Zenon
<1> HIDE DEF w, new
<1>4. check'[c] = x /\ \A d \in Checks \ {c} : check'[d] = check[d]
  BY <1>3 DEF MonitorInv, Monitor!TypeOK
<1>5. Monitor!TypeOK'
  BY <1>1, <1>3 DEF MonitorInv, Monitor!TypeOK, CheckStates
<1>6. ClockInv'
  BY <1>1, <1>3, <1>4 DEF MonitorInv, ClockInv
<1>7. CheckedInv'
  <2>1. x.ok => AlertedUpTo(x.started, x.new)'
    BY <1>1, <1>3, Zenon DEF new, MonitorInv, CheckedInv, AlertedUpTo, Monitor!Found
  <2> QED
    BY <1>1, <1>3, <1>4, <2>1 DEF MonitorInv, CheckedInv, AlertedUpTo
<1>8. Monitor!MailedOnce' /\ Monitor!AlertsOnce
  BY <1>1 DEF MonitorInv, Monitor!MailedOnce, Monitor!AlertsOnce
<1>9. RaisedInv'
  <2>1. Monitor!Found(c)' = Monitor!Found(c)
    BY <1>3, <1>4 DEF Monitor!Found, Monitor!Silent
  <2> QED
    BY <1>1, <1>3, <1>4, <2>1 DEF new, MonitorInv, RaisedInv, Monitor!Found, Monitor!Silent
<1>10. SaidInv'
  BY <1>1, <1>3, <1>4 DEF MonitorInv, SaidInv
<1> QED
  BY <1>5, <1>6, <1>7, <1>8, <1>9, <1>10 DEF MonitorInv

\* What a commit leaves in the rule's row (After).
LEMMA RowAfter ==
  ASSUME MonitorInv, NEW c \in Checks
  PROVE  /\ Monitor!After(c) \in [status : {"proposed", "active", "paused", "deleted"}, born : Monitor!Times,
                                  last : Monitor!Times, errors : Nat, base : 0..MaxValue]
         /\ Monitor!After(c).status = rule.status /\ Monitor!After(c).born = rule.born
         /\ check[c].ok => Monitor!After(c).last = check[c].started
         /\ ~check[c].ok => Monitor!After(c).last = rule.last /\ Monitor!After(c).errors = check[c].errors + 1
<1>1. rule \in [status : {"proposed", "active", "paused", "deleted"}, born : Monitor!Times,
                last : Monitor!Times, errors : Nat, base : 0..MaxValue]
  BY DEF MonitorInv, Monitor!TypeOK
<1>2. /\ check[c].started \in Monitor!Times /\ check[c].base \in 0..MaxValue /\ check[c].errors \in Nat
      /\ check[c].ok \in BOOLEAN
  BY CheckIs DEF CheckStates
<1>3. CASE check[c].ok
  <2>1. Monitor!After(c) = [rule EXCEPT !.last = check[c].started, !.errors = 0, !.base = check[c].base]
    BY <1>3 DEF Monitor!After
  <2>2. PICK n : n = [rule EXCEPT !.last = check[c].started, !.errors = 0, !.base = check[c].base]
    OBVIOUS
  <2>3. /\ n \in [status : {"proposed", "active", "paused", "deleted"}, born : Monitor!Times,
                 last : Monitor!Times, errors : Nat, base : 0..MaxValue]
        /\ n.status = rule.status /\ n.born = rule.born /\ n.last = check[c].started
    BY <1>1, <1>2, <2>2, Zenon
  <2> QED
    BY <1>3, <2>1, <2>2, <2>3
<1>4. CASE ~check[c].ok
  <2>1. Monitor!After(c) = [rule EXCEPT !.errors = check[c].errors + 1]
    BY <1>4 DEF Monitor!After
  <2> QED
    BY <1>1, <1>2, <1>4, <2>1
<1> QED
  BY <1>3, <1>4

\* A check's row and alerts are committed, and its mails wait or have gone out.
LEMMA CommitMoves ==
  ASSUME MonitorInv, NEW c \in Checks, check[c].at = "recorded",
         NEW w \in CheckStates, check' = [check EXCEPT ![c] = w],
         w.at = "idle" \/ w.at = "mail", w.at = "mail" => w.new = check[c].new,
         rule' = Monitor!After(c),
         alert' = [o \in Monitor!Occurrences |-> IF o \in check[c].new THEN "open" ELSE alert[o]],
         down' = IF check[c].ok THEN 0 ELSE down + Monitor!Cardinality(check[c].new),
         \/ mails' = mails
         \/ mails' = [o \in Monitor!Occurrences |-> IF o \in check[c].new THEN mails[o] + 1 ELSE mails[o]]
            /\ w.at = "idle",
         UNCHANGED <<kind, alone, now, happened, shown, late, value, again, cut>>
  PROVE  MonitorInv' /\ Monitor!AlertsOnce
<1> DEFINE new == check[c].new
<1>0. down' = IF check[c].ok THEN 0 ELSE down + Cardinality(new)
  BY MonitorCounts
<1>1. check'[c] = w /\ \A d \in Checks \ {c} : check'[d] = check[d]
  BY DEF MonitorInv, Monitor!TypeOK
<1>2. /\ new \in SUBSET Monitor!Occurrences /\ rule.status # "deleted" /\ rule'.status # "deleted"
      /\ \A o \in new : alert[o] = "none"
      /\ ~check[c].ok => new \subseteq Monitor!Found(c)
      /\ rule'.born = rule.born
      /\ \A d \in Checks \ {c} : check[d].at # "recorded"
  BY CheckIs, RowAfter DEF CheckStates, MonitorInv, RaisedInv
<1>3. /\ alert' \in [Monitor!Occurrences -> Monitor!Statuses]
      /\ \A o \in Monitor!Occurrences : alert[o] # "none" => alert'[o] = alert[o]
      /\ \A o \in new : alert'[o] = "open"
  BY <1>2 DEF MonitorInv, Monitor!TypeOK, Monitor!Statuses
<1>4. down' \in Nat /\ (~check[c].ok => Cardinality(new) \in 0..1 /\ (check[c].errors + 1 # MaxErrors => Cardinality(new) = 0))
  <2>1. CASE check[c].ok
    BY <1>0, <2>1
  <2>2. CASE ~check[c].ok
    <3>1. new \subseteq {<<"down", check[c].started>>} /\ (check[c].errors + 1 # MaxErrors => new = {})
      BY <1>2, <2>2, FoundOccurs
    <3> HIDE DEF new
    <3>2. new = {} \/ new = {<<"down", check[c].started>>}
      BY <3>1
    <3>3. Cardinality(new) = 0 \/ (Cardinality(new) = 1 /\ new # {})
      BY <3>2, FS_EmptySet, FS_Singleton, Zenon
    <3>4. Cardinality(new) \in 0..1 /\ (check[c].errors + 1 # MaxErrors => Cardinality(new) = 0)
      BY <3>1, <3>3, FS_EmptySet
    <3> QED
      BY <1>0, <2>2, <3>4 DEF MonitorInv, Monitor!TypeOK
  <2> QED
    BY <2>1, <2>2
<1>5. /\ mails' \in [Monitor!Occurrences -> Nat]
      /\ \A o \in Monitor!Occurrences \ new : mails'[o] = mails[o]
      /\ \A o \in new : mails'[o] = mails[o] \/ (mails'[o] = mails[o] + 1 /\ w.at = "idle")
  BY <1>2 DEF MonitorInv, Monitor!TypeOK
<1>6. \A o \in new : o \notin again => mails[o] = 0
  <2>1. \A o \in new : mails[o] \in Nat
    BY <1>2 DEF MonitorInv, Monitor!TypeOK
  <2>2. \A o \in new : o \notin again => mails[o] <= 1 /\ mails[o] # 1
    BY <1>2 DEF MonitorInv, Monitor!MailedOnce
  <2> HIDE DEF new
  <2> QED
    BY <2>1, <2>2
<1>7. Monitor!TypeOK'
  BY <1>3, <1>4, <1>5, RowAfter DEF MonitorInv, Monitor!TypeOK, CheckStates
<1>8. ClockInv'
  BY <1>1, RowAfter DEF MonitorInv, ClockInv
<1>9. CheckedInv'
  <2>1. ASSUME NEW t, NEW x, AlertedUpTo(t, x) PROVE AlertedUpTo(t, x)'
    BY <1>2, <1>3, <2>1 DEF AlertedUpTo, Monitor!Occurrences
  <2>2. ASSUME NEW t, AlertedUpTo(t, new) PROVE AlertedUpTo(t, {})'
    BY <1>2, <1>3, <2>2 DEF AlertedUpTo, Monitor!Occurrences
  <2>3. PICK t : t = rule'.last
    OBVIOUS
  <2>4. AlertedUpTo(t, {})'
    <3>1. CASE check[c].ok
      BY <1>2, <2>2, <2>3, <3>1, RowAfter DEF MonitorInv, CheckedInv
    <3>2. CASE ~check[c].ok
      BY <1>2, <2>1, <2>3, <3>2, RowAfter DEF MonitorInv, CheckedInv
    <3> QED
      BY <3>1, <3>2
  <2>5. ASSUME NEW d \in Checks
        PROVE  /\ check'[d].at = "started" => AlertedUpTo(check[d].since, {})' /\ check'[d] = check[d]
               /\ check'[d].at = "found" /\ check'[d].ok =>
                    AlertedUpTo(check[d].started, check[d].found)' /\ check'[d] = check[d]
               /\ check'[d].at # "recorded"
    BY <1>1, <1>2, <2>1 DEF MonitorInv, CheckedInv
  <2> QED
    BY <2>3, <2>4, <2>5, Zenon DEF CheckedInv, AlertedUpTo
<1>10. Monitor!MailedOnce'
  BY <1>2, <1>3, <1>5, <1>6 DEF MonitorInv, Monitor!TypeOK, Monitor!MailedOnce
<1>11. RaisedInv'
  <2>1. ASSUME NEW d \in Checks, d # c, check[d].at = "mail" PROVE check[d].new \cap new = {}
    BY <1>2, <2>1 DEF MonitorInv, RaisedInv
  <2>2. ASSUME NEW d \in Checks, check'[d].at = "mail"
        PROVE  \A o \in check'[d].new : /\ o \notin again => mails'[o] = 0
                                        /\ alert'[o] # "none"
    <3>1. CASE d = c
      BY <1>1, <1>2, <1>3, <1>5, <1>6, <2>2, <3>1
    <3>2. CASE d # c
      <4>1. check[d].at = "mail" /\ check'[d] = check[d] /\ check[d].new \subseteq Monitor!Occurrences \ new
        BY <1>1, <2>1, <2>2, <3>2, CheckIs DEF CheckStates
      <4> QED
        BY <1>2, <1>3, <1>5, <4>1 DEF MonitorInv, RaisedInv
    <3> QED
      BY <3>1, <3>2
  <2> QED
    BY <1>1, <1>2, <2>1, <2>2 DEF MonitorInv, RaisedInv
<1>12. SaidInv'
  <2> SUFFICES ASSUME alone PROVE SaidInv'
    BY DEF SaidInv
  <2>1. \A d \in Checks \ {c} : check[d].at = "idle"
    BY DEF MonitorInv, SaidInv
  <2>2. check[c].errors = rule.errors /\ rule.errors \in Nat /\ down <= 1 /\ (down = 1 => rule.errors >= MaxErrors) /\ down \in Nat
    BY DEF MonitorInv, SaidInv, Monitor!TypeOK
  <2>3. down' <= 1 /\ (down' = 1 => rule'.errors >= MaxErrors)
    BY <1>0, <1>4, <2>2, BoundsAssumption, RowAfter
  <2> QED
    BY <1>1, <2>1, <2>3 DEF SaidInv
<1>13. Monitor!AlertsOnce
  BY <1>3 DEF Monitor!AlertsOnce
<1> QED
  BY <1>7, <1>8, <1>9, <1>10, <1>11, <1>12, <1>13 DEF MonitorInv

\* Row and alerts are committed; a scheduled pass has its mails still to send.
LEMMA CommitStep ==
  ASSUME MonitorInv, NEW c \in Checks, Monitor!Commit(c)
  PROVE  MonitorInv' /\ Monitor!AlertsOnce
<1>1. /\ UNCHANGED <<kind, alone, now, happened, shown, late, value, mails, again, cut>>
      /\ check[c].at = "recorded" /\ rule' = Monitor!After(c)
      /\ alert' = [o \in Monitor!Occurrences |-> IF o \in check[c].new THEN "open" ELSE alert[o]]
      /\ down' = IF check[c].ok THEN 0 ELSE down + Monitor!Cardinality(check[c].new)
  BY DEF Monitor!Commit, Monitor!world
<1>2. PICK w \in CheckStates :
        /\ check' = [check EXCEPT ![c] = w]
        /\ w.at = "idle" \/ w.at = "mail"
        /\ w.at = "mail" => w.new = check[c].new
  <2>1. Monitor!Idle \in CheckStates /\ Monitor!Idle.at = "idle"
    BY CheckIs DEF Monitor!Idle, CheckStates
  <2>2. PICK m : m = [Monitor!Idle EXCEPT !.at = "mail", !.new = check[c].new]
    OBVIOUS
  <2>3. check[c].new \in SUBSET Monitor!Occurrences
    BY CheckIs DEF CheckStates
  <2>4. m \in CheckStates /\ m.at = "mail" /\ m.new = check[c].new
    BY <2>1, <2>2, <2>3, Zenon DEF CheckStates
  <2>5. check' = [check EXCEPT ![c] = Monitor!Idle] \/ check' = [check EXCEPT ![c] = m]
    BY <2>2, Zenon DEF Monitor!Commit
  <2> QED
    BY <2>1, <2>4, <2>5
<1> QED
  BY <1>1, <1>2, CommitMoves, Zenon

\* notify mails what was raised.
LEMMA NotifyStep ==
  ASSUME MonitorInv, NEW c \in Checks, Monitor!Notify(c)
  PROVE  MonitorInv' /\ Monitor!AlertsOnce
<1> DEFINE new == check[c].new
<1>1. /\ UNCHANGED <<kind, alone, now, happened, shown, late, value, rule, alert, again, cut, down>>
      /\ check[c].at = "mail" /\ check' = [check EXCEPT ![c] = Monitor!Idle]
      /\ mails' = [o \in Monitor!Occurrences |-> IF o \in new THEN mails[o] + 1 ELSE mails[o]]
  BY DEF Monitor!Notify, Monitor!world, Monitor!book
<1>2. Monitor!Idle \in CheckStates /\ Monitor!Idle.at = "idle" /\ new \in SUBSET Monitor!Occurrences
  BY CheckIs DEF Monitor!Idle, CheckStates
<1>3. check'[c] = Monitor!Idle /\ \A d \in Checks \ {c} : check'[d] = check[d]
  BY <1>1 DEF MonitorInv, Monitor!TypeOK
<1>4. /\ \A o \in new : /\ o \notin again => mails[o] = 0
                        /\ rule.status # "deleted" => alert[o] # "none"
      /\ \A d \in Checks : check[d].at = "mail" /\ d # c => check[d].new \cap new = {}
  BY <1>1 DEF MonitorInv, RaisedInv
<1>5. /\ mails' \in [Monitor!Occurrences -> Nat]
      /\ \A o \in Monitor!Occurrences \ new : mails'[o] = mails[o]
      /\ \A o \in new : mails'[o] = mails[o] + 1
  BY <1>1, <1>2 DEF MonitorInv, Monitor!TypeOK
<1> HIDE DEF new
<1>6. Monitor!TypeOK'
  BY <1>1, <1>2, <1>5 DEF MonitorInv, Monitor!TypeOK, CheckStates
<1>7. ClockInv'
  BY <1>1, <1>2, <1>3 DEF MonitorInv, ClockInv
<1>8. CheckedInv'
  BY <1>1, <1>2, <1>3 DEF MonitorInv, CheckedInv, AlertedUpTo
<1>9. Monitor!MailedOnce' /\ Monitor!AlertsOnce
  BY <1>1, <1>4, <1>5 DEF MonitorInv, Monitor!TypeOK, Monitor!MailedOnce, Monitor!AlertsOnce
<1>10. RaisedInv'
  <2>1. \A d \in Checks : check'[d].at = "mail" =>
          /\ check[d].at = "mail" /\ check'[d] = check[d] /\ check[d].new \subseteq Monitor!Occurrences \ new
    BY <1>2, <1>3, <1>4, CheckIs DEF CheckStates
  <2> QED
    BY <1>1, <1>2, <1>3, <1>5, <2>1 DEF MonitorInv, RaisedInv, Monitor!Found, Monitor!Silent
<1>11. SaidInv'
  BY <1>1, <1>2, <1>3 DEF MonitorInv, SaidInv
<1> QED
  BY <1>6, <1>7, <1>8, <1>9, <1>10, <1>11 DEF MonitorInv

\* check_now mails before its request commits; a request that fails then mails again.
LEMMA NotifyNowStep ==
  ASSUME MonitorInv, NEW c \in Checks, Monitor!NotifyNow(c)
  PROVE  MonitorInv' /\ Monitor!AlertsOnce
<1> DEFINE new == check[c].new
<1>1. /\ UNCHANGED <<kind, alone, now, happened, shown, late, value, cut>>
      /\ check[c].at = "recorded" /\ check' = [check EXCEPT ![c] = Monitor!Idle]
      /\ mails' = [o \in Monitor!Occurrences |-> IF o \in new THEN mails[o] + 1 ELSE mails[o]]
  BY DEF Monitor!NotifyNow, Monitor!world
<1>2. Monitor!Idle \in CheckStates /\ Monitor!Idle.at = "idle" /\ new \in SUBSET Monitor!Occurrences
  BY CheckIs DEF Monitor!Idle, CheckStates
<1>3. CASE /\ rule' = Monitor!After(c)
           /\ alert' = [o \in Monitor!Occurrences |-> IF o \in new THEN "open" ELSE alert[o]]
           /\ down' = IF check[c].ok THEN 0 ELSE down + Monitor!Cardinality(new)
           /\ UNCHANGED again
  BY <1>1, <1>2, <1>3, CommitMoves, Zenon
<1>4. CASE again' = again \cup new /\ UNCHANGED <<rule, alert, down>>
  <2>1. check'[c] = Monitor!Idle /\ \A d \in Checks \ {c} : check'[d] = check[d]
    BY <1>1 DEF MonitorInv, Monitor!TypeOK
  <2>2. /\ mails' \in [Monitor!Occurrences -> Nat]
        /\ \A o \in Monitor!Occurrences \ new : mails'[o] = mails[o]
    BY <1>1, <1>2 DEF MonitorInv, Monitor!TypeOK
  <2> HIDE DEF new
  <2>3. Monitor!TypeOK'
    BY <1>1, <1>2, <1>4, <2>2 DEF MonitorInv, Monitor!TypeOK, CheckStates
  <2>4. ClockInv'
    BY <1>1, <1>2, <1>4, <2>1 DEF MonitorInv, ClockInv
  <2>5. CheckedInv'
    BY <1>1, <1>2, <1>4, <2>1 DEF MonitorInv, CheckedInv, AlertedUpTo
  <2>6. Monitor!MailedOnce' /\ Monitor!AlertsOnce
    BY <1>4, <2>2 DEF MonitorInv, Monitor!TypeOK, Monitor!MailedOnce, Monitor!AlertsOnce
  <2>7. RaisedInv'
    <3>1. \A d \in Checks : check'[d].at = "mail" =>
            /\ check[d].at = "mail" /\ check'[d] = check[d] /\ check[d].new \subseteq Monitor!Occurrences
      BY <1>2, <2>1, CheckIs DEF CheckStates
    <3>2. \A o \in Monitor!Occurrences : o \notin again' => o \notin again /\ mails'[o] = mails[o]
      BY <1>4, <2>2
    <3> QED
      BY <1>1, <1>2, <1>4, <2>1, <3>1, <3>2 DEF MonitorInv, RaisedInv, Monitor!Found, Monitor!Silent
  <2>8. SaidInv'
    BY <1>1, <1>2, <1>4, <2>1 DEF MonitorInv, SaidInv
  <2> QED
    BY <2>3, <2>4, <2>5, <2>6, <2>7, <2>8 DEF MonitorInv
<1> QED
  BY <1>3, <1>4 DEF Monitor!NotifyNow, Monitor!book

\* A rule is turned on or off or its parameters change.
LEMMA UpdateRuleStep ==
  ASSUME MonitorInv, Monitor!Update
  PROVE  MonitorInv' /\ Monitor!AlertsOnce
<1>1. /\ UNCHANGED <<kind, alone, now, happened, shown, late, value, alert, check, mails, again, cut, down>>
      /\ rule.status # "deleted" /\ \A c \in Checks : check[c].at # "recorded"
  BY Zenon DEF Monitor!Update, Monitor!Locked, Monitor!world, Monitor!ledger
<1>2. /\ rule' \in [status : {"proposed", "active", "paused", "deleted"}, born : Monitor!Times,
                    last : Monitor!Times, errors : Nat, base : 0..MaxValue]
      /\ rule'.born = rule.born /\ rule'.errors = rule.errors /\ rule'.last \in {0, rule.last}
  <2>1. /\ rule \in [status : {"proposed", "active", "paused", "deleted"}, born : Monitor!Times,
                     last : Monitor!Times, errors : Nat, base : 0..MaxValue]
        /\ 0 \in Monitor!Times /\ 0 \in 0..MaxValue
    BY BoundsAssumption DEF MonitorInv, Monitor!TypeOK, Monitor!Times
  <2>2. CASE \E s \in {"active", "paused"} \ {rule.status} :
               rule' = [rule EXCEPT !.status = s,
                          !.last = IF s = "active" /\ rule.status = "proposed" THEN 0 ELSE @]
    BY <2>1, <2>2, Zenon
  <2>3. CASE rule' = [rule EXCEPT !.base = 0]
    BY <2>1, <2>3
  <2> QED
    BY <2>2, <2>3, Zenon DEF Monitor!Update
<1>3. Monitor!TypeOK'
  BY <1>1, <1>2 DEF MonitorInv, Monitor!TypeOK
<1>4. ClockInv'
  BY <1>1, <1>2, BoundsAssumption DEF MonitorInv, Monitor!TypeOK, Monitor!Times, ClockInv
<1>5. CheckedInv'
  BY <1>1, <1>2 DEF MonitorInv, Monitor!TypeOK, Monitor!Times, CheckedInv, AlertedUpTo
<1>6. Monitor!MailedOnce' /\ Monitor!AlertsOnce /\ RaisedInv' /\ SaidInv'
  BY <1>1, <1>2 DEF MonitorInv, Monitor!MailedOnce, Monitor!AlertsOnce, RaisedInv, Monitor!Found,
     Monitor!Silent, SaidInv
<1> QED
  BY <1>3, <1>4, <1>5, <1>6 DEF MonitorInv

\* A rule goes with its alerts, or somebody answers one.
LEMMA PeopleStep ==
  ASSUME MonitorInv, Monitor!Delete \/ \E o \in Monitor!Occurrences : Monitor!Answer(o)
  PROVE  MonitorInv' /\ Monitor!AlertsOnce
<1>1. UNCHANGED <<kind, alone, now, happened, shown, late, value, check, mails, again, cut, down>>
  BY DEF Monitor!Delete, Monitor!Answer, Monitor!world, Monitor!ledger
<1>2. CASE Monitor!Delete
  <2>1. /\ \A c \in Checks : check[c].at # "recorded"
        /\ rule' = [rule EXCEPT !.status = "deleted"]
        /\ alert' = [o \in Monitor!Occurrences |-> "none"]
    BY <1>2 DEF Monitor!Delete, Monitor!Locked
  <2>2. /\ rule' \in [status : {"proposed", "active", "paused", "deleted"}, born : Monitor!Times,
                      last : Monitor!Times, errors : Nat, base : 0..MaxValue]
        /\ rule'.born = rule.born /\ rule'.errors = rule.errors /\ rule'.last = rule.last
        /\ rule'.status = "deleted"
    BY <2>1 DEF MonitorInv, Monitor!TypeOK
  <2>3. Monitor!TypeOK'
    BY <1>1, <2>1, <2>2 DEF MonitorInv, Monitor!TypeOK, Monitor!Statuses
  <2>4. ClockInv' /\ CheckedInv' /\ Monitor!AlertsOnce
    BY <1>1, <2>2 DEF MonitorInv, ClockInv, CheckedInv, Monitor!AlertsOnce
  <2>5. Monitor!MailedOnce' /\ RaisedInv' /\ SaidInv'
    BY <1>1, <2>1, <2>2 DEF MonitorInv, Monitor!MailedOnce, RaisedInv, SaidInv
  <2> QED
    BY <2>3, <2>4, <2>5 DEF MonitorInv
<1>3. CASE \E o \in Monitor!Occurrences : Monitor!Answer(o)
  <2>1. /\ rule' = rule /\ alert' \in [Monitor!Occurrences -> Monitor!Statuses]
        /\ \A x \in Monitor!Occurrences : \/ alert'[x] = alert[x]
                                          \/ alert[x] = "open" /\ alert'[x] = "answered"
    BY <1>3 DEF Monitor!Answer, MonitorInv, Monitor!TypeOK, Monitor!Statuses
  <2>2. Monitor!TypeOK' /\ ClockInv' /\ Monitor!AlertsOnce
    BY <1>1, <2>1 DEF MonitorInv, Monitor!TypeOK, ClockInv, Monitor!AlertsOnce
  <2>3. CheckedInv'
    <3>1. \A e \in Events : <<"event", e>> \in Monitor!Occurrences
      BY DEF Monitor!Occurrences
    <3> QED
      BY <1>1, <2>1, <3>1 DEF MonitorInv, CheckedInv, AlertedUpTo
  <2>4. Monitor!MailedOnce'
    BY <1>1, <2>1 DEF MonitorInv, Monitor!MailedOnce
  <2>5. RaisedInv'
    <3>1. \A c \in Checks : check[c].new \subseteq Monitor!Occurrences
      BY CheckIs DEF CheckStates
    <3> QED
      BY <1>1, <2>1, <3>1 DEF MonitorInv, RaisedInv, Monitor!Found, Monitor!Silent
  <2>6. SaidInv'
    BY <1>1, <2>1 DEF MonitorInv, SaidInv
  <2> QED
    BY <2>2, <2>3, <2>4, <2>5, <2>6 DEF MonitorInv
<1> QED
  BY <1>2, <1>3

\* Every step of monitoring keeps the alerts exact.
LEMMA MonitorNext ==
  ASSUME MonitorInv, Monitor!Next
  PROVE  MonitorInv' /\ Monitor!AlertsOnce
<1>1. ASSUME NEW c \in Checks, Monitor!CheckStep(c) PROVE MonitorInv' /\ Monitor!AlertsOnce
  BY <1>1, EntryStep, StartStep, EvaluateStep, RecordStep, CommitStep, NotifyStep, NotifyNowStep
  DEF Monitor!CheckStep
<1>2. CASE Monitor!Request
  BY <1>2, UpdateRuleStep, PeopleStep DEF Monitor!Request
<1> QED
  BY <1>1, <1>2, WorldMoves DEF Monitor!Next

\* Whatever leaves monitoring alone keeps its alerts exact.
LEMMA MonitorStutters ==
  ASSUME MonitorInv, UNCHANGED monitorVars
  PROVE  MonitorInv'
<1>1. Monitor!TypeOK' /\ ClockInv' /\ Monitor!MailedOnce' /\ SaidInv'
  BY DEF monitorVars, MonitorInv, Monitor!TypeOK, ClockInv, Monitor!MailedOnce, SaidInv
<1>2. CheckedInv'
  BY DEF monitorVars, MonitorInv, CheckedInv, AlertedUpTo
<1>3. RaisedInv'
  BY DEF monitorVars, MonitorInv, RaisedInv, Monitor!Found, Monitor!Silent
<1> QED
  BY <1>1, <1>2, <1>3 DEF MonitorInv

\* An event between two checks of a rule is not missed, subscribers are mailed once about an
\* occurrence, and an unreachable server is said once (check_rule, run_due_monitors, notify).
THEOREM AlertsStayExact == MCSpec => []AlertsAreExact
<1>1. MCInit => MonitorInv
  BY MonitorInit DEF MCInit
<1>2. MonitorInv /\ [MCNext]_MCvars => MonitorInv'
  BY MonitorNext, MonitorStutters
  DEF MCNext, MCvars, OnlyChat, OnlyMemory, OnlyMonitor, OnlyTeam, OnlyDocuments, OnlyLore, OnlyBase,
      OnlyMap, OnlyImpact
<1>3. MonitorInv => AlertsAreExact
  BY MonitorSays DEF AlertsAreExact
<1> QED
  BY <1>1, <1>2, <1>3, PTL DEF MCSpec

-----------------------------------------------------------------------------
(***************************************************************************)
(* The dependency map (ModelMap).                                          *)
(***************************************************************************)

\* An extraction that has not listed the processes, and one that reads them.
Waiters == [phase : {"cubes"}, scheduled : BOOLEAN, before : Map!Maps, edited : SUBSET Map!Objects]
Reads == UNION {[S -> SUBSET Tasks] : S \in SUBSET Tasks}
Reading == [phase : {"processes"}, scheduled : BOOLEAN, before : Map!Maps, edited : SUBSET Map!Objects,
            todo : SUBSET Tasks, read : Reads]

\* An extraction knows every process that was not edited since it began, as it is.
ReadInv ==
  reader.phase = "processes" =>
    \A p \in Tasks \ reader.edited :
      /\ p \in reader.todo \cup DOMAIN reader.read <=> code[p] # None
      /\ p \in DOMAIN reader.read => reader.read[p] = code[p]

MapInv ==
  /\ Map!TypeOK /\ Map!InStep /\ ReadInv
  /\ DOMAIN code = Map!Objects /\ \A h \in Chores : code[h] # None
  /\ reader \in {Map!Idle} \cup Waiters \cup Reading
  /\ waiting \in {Map!Idle} \cup Waiters
  /\ map = Map!Empty \/ Chores \subseteq map.nodes

\* What the code of a process or a chore can name.
LEMMA NamesAre ==
  /\ \A p \in Tasks : Map!Named(p) = Tasks \ {p}
  /\ \A o \in Map!Objects : Map!Named(o) \subseteq Tasks
<1>1. ASSUME NEW p \in Tasks PROVE Map!Named(p) = Tasks \ {p}
  BY DEF Map!Named
<1>2. ASSUME NEW o \in Map!Objects, o \notin Tasks PROVE Map!Named(o) = Tasks
  BY <1>2 DEF Map!Named
<1> QED BY <1>1, <1>2

\* What an extraction in progress may be.
LEMMA ReaderIs ==
  ASSUME MapInv
  PROVE  /\ reader.phase = "processes" => reader \in Reading
         /\ reader.phase = "cubes" => reader \in Waiters
         /\ reader # Map!Idle => reader \in Waiters \cup Reading
         /\ Map!Idle.phase = "idle"
<1>1. /\ \A x \in Waiters : x.phase = "cubes"
      /\ \A x \in Reading : x.phase = "processes"
      /\ Map!Idle.phase = "idle"
  BY DEF Waiters, Reading, Map!Idle
<1> QED BY <1>1 DEF MapInv

\* The model that was never read satisfies the invariant.
LEMMA MapInit == Map!Init => MapInv
<1> SUFFICES ASSUME Map!Init PROVE MapInv
  OBVIOUS
<1>1. DOMAIN code = Map!Objects /\ \A h \in Chores : code[h] # None
  BY ChoresAssumption DEF Map!Init, Map!Objects
<1>2. reader = Map!Idle /\ waiting = Map!Idle /\ Map!Idle.phase = "idle" /\ map = Map!Empty
  BY DEF Map!Init, Map!Idle
<1>3. Map!TypeOK
  <2>1. map \in Map!Maps /\ map.edges = {}
    BY <1>2 DEF Map!Empty, Map!Maps
  <2> QED BY <1>2, <2>1 DEF Map!Init, Map!TypeOK
<1> QED
  BY <1>1, <1>2, <1>3 DEF MapInv, Map!InStep, ReadInv

\* Nothing of the map or of the extractions moves but the code of object o, which is noted.
LEMMA RewrittenStep ==
  ASSUME MapInv, NEW o \in Map!Objects, NEW c, Map!Rewritten(o, c), c = None => o \in Tasks,
         UNCHANGED <<map, waiting, records>>, patches' \subseteq [name : Tasks, deleted : BOOLEAN]
  PROVE  MapInv' /\ map'.nodes = map.nodes
<1>1. /\ code' = [code EXCEPT ![o] = c] /\ (c # None => c \subseteq Map!Named(o))
      /\ behind' = behind \cup {o}
      /\ reader' = IF reader = Map!Idle THEN Map!Idle ELSE [reader EXCEPT !.edited = @ \cup {o}]
  BY DEF Map!Rewritten
<1>2. /\ code'[o] = c /\ DOMAIN code' = Map!Objects
      /\ \A x \in Map!Objects \ {o} : code'[x] = code[x]
  BY <1>1 DEF MapInv
<1>3. \A h \in Chores : code'[h] # None
  BY <1>2, ChoresAssumption DEF MapInv, Map!Objects
<1>4. /\ reader' \in {Map!Idle} \cup Waiters \cup Reading
      /\ reader'.phase = reader.phase
      /\ reader'.phase = "processes" => /\ reader'.edited = reader.edited \cup {o}
                                        /\ reader'.todo = reader.todo /\ reader'.read = reader.read
  <2>1. CASE reader = Map!Idle
    BY <1>1, <2>1, ReaderIs
  <2>2. CASE reader \in Waiters
    <3>1. PICK w : w = [reader EXCEPT !.edited = @ \cup {o}]
      BY Zenon
    <3>2. w \in Waiters /\ w.phase = "cubes" /\ reader.phase = "cubes"
      BY <2>2, <3>1 DEF Waiters
    <3>3. reader' = w
      BY <1>1, <2>2, <3>1, <3>2, ReaderIs
    <3> QED BY <3>2, <3>3
  <2>3. CASE reader \in Reading
    <3>1. PICK w : w = [reader EXCEPT !.edited = @ \cup {o}]
      BY Zenon
    <3>2. /\ w \in Reading /\ w.phase = "processes" /\ reader.phase = "processes"
          /\ w.edited = reader.edited \cup {o} /\ w.todo = reader.todo /\ w.read = reader.read
      BY <2>3, <3>1 DEF Reading
    <3>3. reader' = w
      BY <1>1, <2>3, <3>1, <3>2, ReaderIs
    <3> QED BY <3>2, <3>3
  <2> QED BY <2>1, <2>2, <2>3 DEF MapInv
<1>5. Map!TypeOK'
  <2>1. \A x \in Map!Objects : code'[x] = None \/ code'[x] \subseteq Map!Named(x)
    BY <1>1, <1>2 DEF MapInv, Map!TypeOK
  <2>2. behind' \subseteq Map!Objects
    BY <1>1 DEF MapInv, Map!TypeOK
  <2>3. reader'.phase \in {"idle", "cubes", "processes"}
    BY <1>4 DEF MapInv, Map!TypeOK
  <2> QED BY <2>1, <2>2, <2>3 DEF MapInv, Map!TypeOK, Map!Named, Map!Objects, Map!Maps
<1>6. Map!InStep'
  BY <1>1, <1>2 DEF MapInv, Map!InStep, Map!Out, Map!process_edges, Map!Empty, Map!Objects
<1>7. ReadInv'
  <2>1. \A p \in Tasks \ {o} : code'[p] = code[p]
    BY <1>2 DEF Map!Objects
  <2> QED BY <1>4, <2>1 DEF MapInv, ReadInv
<1> QED
  BY <1>2, <1>3, <1>4, <1>5, <1>6, <1>7 DEF MapInv, Map!Idle, Map!Objects, Waiters, Reading, Reads, Map!Maps,
     Map!Empty

\* The map is patched after a process change.
LEMMA RefreshStep ==
  ASSUME MapInv, NEW r \in patches, Map!Refresh(r)
  PROVE  MapInv' /\ (map.nodes # {} => map'.nodes # {})
<1> DEFINE p == r.name
<1>1. /\ p \in Tasks /\ p \in Map!Objects /\ p \notin Chores
      /\ reader = Map!Idle /\ patches' \subseteq patches
      /\ UNCHANGED <<code, reader, waiting, records, edits>>
  BY ChoresAssumption DEF Map!Refresh, MapInv, Map!TypeOK, Map!Objects
<1>2. map \in Map!Maps /\ map.nodes \subseteq Map!Objects /\ map.edges \subseteq map.nodes \X map.nodes
  BY DEF MapInv, Map!TypeOK, Map!Maps
<1>3. CASE map = Map!Empty
  <2>1. UNCHANGED <<map, behind>>
    BY <1>3 DEF Map!Refresh
  <2> QED
    BY <1>1, <2>1 DEF MapInv, Map!TypeOK, Map!InStep, ReadInv, Map!Idle, Map!Objects, Waiters, Reading, Reads,
       Map!Maps, Map!Empty, Map!Named, Map!Out, Map!process_edges
<1>4. CASE map # Map!Empty
  <2>1. PICK m : m = map'
    OBVIOUS
  <2>2. \A o \in Map!Objects \ behind :
          /\ o \in map.nodes <=> code[o] # None
          /\ o \in map.nodes => {e \in map.edges : e[1] = o} = {o} \X (code[o] \cap map.nodes)
    BY <1>4 DEF MapInv, Map!InStep, Map!Out, Map!process_edges
  <2>3. Chores \subseteq map.nodes
    BY <1>4 DEF MapInv
  <2>4. /\ m \in Map!Maps /\ m.edges \subseteq m.nodes \X m.nodes /\ Chores \subseteq m.nodes
        /\ behind' \subseteq Map!Objects
        /\ \A o \in Map!Objects \ behind' :
             /\ o \in m.nodes <=> code[o] # None
             /\ o \in m.nodes => {e \in m.edges : e[1] = o} = {o} \X (code[o] \cap m.nodes)
    <3>1. CASE r.deleted /\ map' = Map!Dropped(p)
               /\ behind' = IF code[p] = None THEN behind \ {p} ELSE behind \cup {p}
      <4>1. m.nodes = map.nodes \ {p} /\ m.edges = {e \in map.edges : p \notin {e[1], e[2]}} /\ m \in Map!Maps
        <5>1. m = [nodes |-> map.nodes \ {p}, edges |-> map.edges \ Map!Touching(p)]
          BY <2>1, <3>1 DEF Map!Dropped
        <5>2. map.edges \ Map!Touching(p) = {e \in map.edges : p \notin {e[1], e[2]}}
          BY DEF Map!Touching
        <5>3. /\ map.nodes \ {p} \in SUBSET Map!Objects
              /\ map.edges \ Map!Touching(p) \in SUBSET (Map!Objects \X Map!Objects)
          BY <1>2 DEF Map!Maps
        <5> QED BY <5>1, <5>2, <5>3 DEF Map!Maps
      <4>2. ASSUME NEW o \in Map!Objects \ behind', o # p, o \in m.nodes
            PROVE  {e \in m.edges : e[1] = o} = {o} \X (code[o] \cap m.nodes)
        <5>1. {e \in map.edges : e[1] = o} = {o} \X (code[o] \cap map.nodes)
          BY <2>2, <3>1, <4>1, <4>2
        <5>2. {e \in m.edges : e[1] = o} = {e \in {o} \X (code[o] \cap map.nodes) : e[2] # p}
          BY <4>1, <4>2, <5>1
        <5> QED BY <4>1, <5>2
      <4>3. ASSUME NEW o \in Map!Objects \ behind'
            PROVE  (o = p => code[o] = None) /\ (o # p => o \notin behind)
        BY <3>1, <4>3
      <4> QED
        BY <1>1, <1>2, <2>2, <2>3, <3>1, <4>1, <4>2, <4>3 DEF MapInv, Map!TypeOK
    <3>2. CASE /\ code[p] # None /\ map' = Map!refresh_process(p)
               /\ behind' = (behind \ {p}) \cup (IF p \in map.nodes THEN {} ELSE Map!Callers(p))
      <4>1. /\ m.nodes = map.nodes \cup {p} /\ m \in Map!Maps
            /\ m.edges = {e \in map.edges : e[1] # p} \cup ({p} \X (code[p] \cap map.nodes))
        <5>1. m = [nodes |-> map.nodes \cup {p},
                   edges |-> (map.edges \ Map!Out(p)) \cup Map!process_edges(p, code[p], map.nodes)]
          BY <2>1, <3>2 DEF Map!refresh_process
        <5>2. (map.edges \ Map!Out(p)) \cup Map!process_edges(p, code[p], map.nodes)
               = {e \in map.edges : e[1] # p} \cup ({p} \X (code[p] \cap map.nodes))
          BY DEF Map!Out, Map!process_edges
        <5>3. /\ map.nodes \cup {p} \in SUBSET Map!Objects
              /\ {e \in map.edges : e[1] # p} \cup ({p} \X (code[p] \cap map.nodes)) \in SUBSET (Map!Objects \X Map!Objects)
          BY <1>1, <1>2 DEF Map!Maps
        <5> QED BY <5>1, <5>2, <5>3 DEF Map!Maps
      <4>2. p \notin code[p]
        BY <1>1, <3>2, NamesAre DEF MapInv, Map!TypeOK
      <4>3. {e \in m.edges : e[1] = p} = {p} \X (code[p] \cap m.nodes)
        BY <4>1, <4>2
      <4>4. ASSUME NEW o \in Map!Objects \ behind', o # p, o \in m.nodes
            PROVE  {e \in m.edges : e[1] = o} = {o} \X (code[o] \cap m.nodes)
        <5>1. {e \in m.edges : e[1] = o} = {o} \X (code[o] \cap map.nodes)
          BY <2>2, <3>2, <4>1, <4>4
        <5>2. code[o] # None
          BY <2>2, <3>2, <4>1, <4>4
        <5>3. p \in map.nodes \/ p \notin code[o]
          BY <3>2, <4>4, <5>2 DEF Map!Callers
        <5> QED BY <4>1, <5>1, <5>3
      <4>5. behind' \subseteq Map!Objects
        BY <3>2 DEF Map!Callers, MapInv, Map!TypeOK
      <4> QED
        BY <1>1, <1>2, <2>2, <2>3, <3>2, <4>1, <4>3, <4>4, <4>5
    <3> QED BY <1>4, <3>1, <3>2 DEF Map!Refresh
  <2>5. Map!TypeOK'
    BY <1>1, <2>1, <2>4 DEF MapInv, Map!TypeOK, Map!Named, Map!Objects, Map!Maps
  <2>6. Map!InStep'
    BY <1>1, <2>1, <2>4 DEF Map!InStep, Map!Out, Map!process_edges, Map!Objects
  <2>7. ReadInv'
    BY <1>1 DEF MapInv, ReadInv
  <2> QED
    BY <1>1, <2>1, <2>4, <2>5, <2>6, <2>7, ChoresAssumption
    DEF MapInv, Map!Idle, Map!Objects, Waiters, Reading, Reads, Map!Maps
<1> QED BY <1>3, <1>4

\* An extraction is begun, or goes on reading: the map and the server stay as they are.
LEMMA ExtractionMoves ==
  ASSUME MapInv, UNCHANGED <<code, map, patches, records, edits, behind>>,
         reader' \in {Map!Idle} \cup Waiters \cup Reading, waiting' \in {Map!Idle} \cup Waiters, ReadInv'
  PROVE  MapInv'
<1>1. reader'.phase \in {"idle", "cubes", "processes"} /\ waiting'.phase \in {"idle", "cubes"}
  BY DEF Waiters, Reading, Map!Idle
<1>2. Map!TypeOK'
  BY <1>1 DEF MapInv, Map!TypeOK, Map!Named, Map!Objects, Map!Maps
<1>3. Map!InStep'
  BY DEF MapInv, Map!InStep, Map!Out, Map!process_edges, Map!Objects, Map!Empty
<1> QED
  BY <1>2, <1>3 DEF MapInv, Map!Idle, Map!Objects, Waiters, Reading, Reads, Map!Maps, Map!Empty

\* An extraction that starts leaves the map alone.
LEMMA StartExtractionStep ==
  ASSUME MapInv, NEW scheduled \in BOOLEAN, Map!StartExtraction(scheduled)
  PROVE  MapInv' /\ map' = map
<1>1. PICK w : w = Map!Started(scheduled)
  OBVIOUS
<1>2. w \in Waiters /\ w.phase = "cubes"
  BY <1>1 DEF Map!Started, Waiters, MapInv, Map!TypeOK
<1>3. /\ UNCHANGED <<code, map, patches, records, edits, behind>>
      /\ (reader' = w /\ waiting' = waiting) \/ (reader' = reader /\ waiting' = w)
  BY <1>1 DEF Map!StartExtraction
<1>4. ReadInv'
  BY <1>2, <1>3 DEF MapInv, ReadInv
<1>5. reader' \in {Map!Idle} \cup Waiters \cup Reading /\ waiting' \in {Map!Idle} \cup Waiters
  BY <1>2, <1>3 DEF MapInv
<1> QED BY <1>3, <1>4, <1>5, ExtractionMoves

\* Listing the processes leaves the map alone.
LEMMA ListProcessesStep ==
  ASSUME MapInv, Map!ListProcesses
  PROVE  MapInv' /\ map' = map
<1>1. PICK todo : todo = {p \in Tasks : code[p] # None}
  BY Zenon
<1>2. PICK w : w = [phase |-> "processes", scheduled |-> reader.scheduled, before |-> reader.before,
                    edited |-> reader.edited, todo |-> todo, read |-> [p \in {} |-> {}]]
  BY Zenon
<1>3. reader' = w /\ UNCHANGED <<code, map, waiting, patches, records, edits, behind>> /\ reader \in Waiters
  BY <1>1, <1>2, ReaderIs DEF Map!ListProcesses
<1>4. [p \in {} |-> {}] \in Reads /\ DOMAIN [p \in {} |-> {}] = {}
  BY Zenon DEF Reads
<1>5. w \in Reading /\ w.todo = todo /\ DOMAIN w.read = {} /\ w.edited = reader.edited
  BY <1>1, <1>2, <1>3, <1>4 DEF Reading, Waiters
<1>6. ReadInv'
  BY <1>1, <1>3, <1>5 DEF ReadInv
<1> QED BY <1>3, <1>5, <1>6, ExtractionMoves DEF MapInv

\* Reading one process leaves the map alone.
LEMMA ReadProcessStep ==
  ASSUME MapInv, NEW p \in Tasks, Map!ReadProcess(p)
  PROVE  MapInv' /\ map' = map
<1>1. PICK f : f = [q \in DOMAIN reader.read \cup {p} |-> IF q = p THEN code[p] ELSE reader.read[q]]
  BY Zenon
<1>2. PICK w : w = [reader EXCEPT !.todo = @ \ {p}, !.read = f]
  OBVIOUS
<1>3. /\ reader \in Reading /\ reader.phase = "processes" /\ p \in reader.todo /\ code[p] # None
      /\ UNCHANGED <<code, map, waiting, patches, records, edits, behind>>
  BY ReaderIs DEF Map!ReadProcess
<1>4. reader' = w
  BY <1>1, <1>2, <1>3 DEF Map!ReadProcess
<1>5. PICK S \in SUBSET Tasks : reader.read \in [S -> SUBSET Tasks]
  BY <1>3 DEF Reading, Reads
<1>6. code[p] \in SUBSET Tasks
  BY <1>3, NamesAre DEF MapInv, Map!TypeOK, Map!Objects
<1>7. f \in [S \cup {p} -> SUBSET Tasks]
  BY <1>1, <1>5, <1>6
<1>8. f \in Reads
  <2>1. S \cup {p} \in SUBSET Tasks
    OBVIOUS
  <2> QED BY <1>7, <2>1 DEF Reads
<1>9. w \in Reading /\ w.todo = reader.todo \ {p} /\ w.read = f /\ w.edited = reader.edited
  BY <1>2, <1>3, <1>8, Zenon DEF Reading
<1>10. DOMAIN f = DOMAIN reader.read \cup {p} /\ f[p] = code[p] /\ \A q \in DOMAIN reader.read \ {p} : f[q] = reader.read[q]
  BY <1>1
<1>11. ReadInv'
  <2>1. \A q \in Tasks \ reader.edited :
          /\ q \in (reader.todo \ {p}) \cup DOMAIN f <=> code[q] # None
          /\ q \in DOMAIN f => f[q] = code[q]
    BY <1>3, <1>10 DEF MapInv, ReadInv
  <2> QED BY <1>3, <1>4, <1>9, <2>1 DEF ReadInv
<1> QED BY <1>3, <1>4, <1>9, <1>11, ExtractionMoves DEF MapInv

\* An extraction that ends replaces the map by one with nodes.
LEMMA FinishExtractionStep ==
  ASSUME MapInv, Map!FinishExtraction
  PROVE  MapInv' /\ map'.nodes # {}
<1> DEFINE R == DOMAIN reader.read
           N == {} \cup R \cup Chores
           A == UNION {Map!process_edges(q, reader.read[q], N) : q \in R}
           B == UNION {Map!process_edges(h, code[h], N) : h \in Chores}
           E == A \cup B
<1>1. /\ reader \in Reading /\ reader.phase = "processes" /\ reader.todo = {}
      /\ map' = Map!extracted /\ behind' = reader.edited
      /\ UNCHANGED <<code, patches, edits>>
      /\ reader' \in {waiting, Map!Idle} /\ waiting' = Map!Idle
  BY ReaderIs DEF Map!FinishExtraction
<1>2. R \subseteq Tasks /\ N \subseteq Map!Objects /\ reader.edited \subseteq Map!Objects
  BY <1>1 DEF Reading, Reads, Map!Objects
<1>3. map'.nodes = N /\ map'.edges = E /\ map' = [nodes |-> N, edges |-> E]
  <2>1. map' = [nodes |-> N, edges |-> A \cup B]
    BY <1>1 DEF Map!extracted
  <2> HIDE DEF N, A, B
  <2> QED BY <2>1
<1>4. E \subseteq N \X N /\ \A e : e \in E <=> /\ e \in N \X N
                                             /\ \/ e[1] \in R /\ e[2] \in reader.read[e[1]]
                                                \/ e[1] \in Chores /\ e[2] \in code[e[1]]
  <2>1. \A e : e \in E <=> \/ \E q \in R : e \in {q} \X (reader.read[q] \cap N)
                         \/ \E h \in Chores : e \in {h} \X (code[h] \cap N)
    <3> HIDE DEF N, R
    <3>1. \A e : e \in A <=> \E q \in R : e \in {q} \X (reader.read[q] \cap N)
      BY DEF Map!process_edges
    <3>2. \A e : e \in B <=> \E h \in Chores : e \in {h} \X (code[h] \cap N)
      BY DEF Map!process_edges
    <3> HIDE DEF A, B
    <3> QED BY <3>1, <3>2
  <2>2. \A e, q : e \in {q} \X (reader.read[q] \cap N) <=>
                  e \in {q} \X N /\ e[2] \in reader.read[q]
    OBVIOUS
  <2>3. \A e, q : e \in {q} \X (code[q] \cap N) <=> e \in {q} \X N /\ e[2] \in code[q]
    OBVIOUS
  <2>4. \A e, q : q \in N => (e \in {q} \X N <=> e \in N \X N /\ e[1] = q)
    OBVIOUS
  <2>5. R \subseteq N /\ Chores \subseteq N
    OBVIOUS
  <2> HIDE DEF R, N, E
  <2> QED BY <2>1, <2>2, <2>3, <2>4, <2>5
<1>5. \A p \in Tasks \ reader.edited : (p \in R <=> code[p] # None) /\ (p \in R => reader.read[p] = code[p])
  BY <1>1 DEF MapInv, ReadInv
<1>6. \A o \in Map!Objects \ reader.edited : o \in N <=> code[o] # None
  BY <1>2, <1>5, ChoresAssumption DEF MapInv, Map!Objects
<1>7. ASSUME NEW o \in Map!Objects \ reader.edited, o \in N
      PROVE  {e \in E : e[1] = o} = {o} \X (code[o] \cap N)
  <2>1. CASE o \in R
    <3>1. o \notin Chores /\ reader.read[o] = code[o]
      BY <1>2, <1>5, <1>7, <2>1, ChoresAssumption
    <3>2. \A e : e \in E /\ e[1] = o <=> e \in N \X N /\ e[1] = o /\ e[2] \in code[o]
      BY <1>4, <2>1, <3>1, Zenon
    <3> HIDE DEF R, N, E
    <3> QED BY <1>7, <3>2
  <2>2. CASE o \in Chores
    <3>1. o \notin R
      BY <1>2, <2>2, ChoresAssumption
    <3>2. \A e : e \in E /\ e[1] = o <=> e \in N \X N /\ e[1] = o /\ e[2] \in code[o]
      BY <1>4, <2>2, <3>1, Zenon
    <3> HIDE DEF R, N, E
    <3> QED BY <1>7, <3>2
  <2> QED BY <1>7, <2>1, <2>2, Zenon
<1> HIDE DEF R, N, E
<1>8. map' \in Map!Maps
  BY <1>2, <1>3, <1>4 DEF Map!Maps
<1>9. reader' \in {Map!Idle} \cup Waiters /\ waiting' = Map!Idle /\ reader'.phase # "processes"
  <2>1. (\A x \in Waiters : x.phase = "cubes") /\ Map!Idle.phase = "idle"
    BY DEF Waiters, Map!Idle
  <2> QED BY <1>1, <2>1 DEF MapInv
<1>10. records' \in Seq([status : {"succeeded", "failed"}, first : BOOLEAN, changed : BOOLEAN])
  <2> DEFINE K == [status : {"succeeded", "failed"}, first : BOOLEAN, changed : BOOLEAN]
  <2>1. PICK s : s = Map!Succeeded(reader.before, map')
    OBVIOUS
  <2>2. PICK f : f = Map!Failed
    OBVIOUS
  <2>3. s \in K
    BY <2>1 DEF Map!Succeeded, Map!diff_graphs
  <2>4. f \in K
    BY <2>2 DEF Map!Failed
  <2>5. records \in Seq(K)
    BY DEF MapInv, Map!TypeOK
  <2>6. Append(records, s) \in Seq(K) /\ Append(Append(records, s), f) \in Seq(K)
    BY <2>3, <2>4, <2>5
  <2>7. records' \in {Append(records, s), Append(Append(records, s), f)}
    BY <2>1, <2>2 DEF Map!FinishExtraction
  <2> QED BY <2>6, <2>7, Zenon
<1>11. Map!TypeOK'
  <2>1. reader'.phase \in {"idle", "cubes", "processes"} /\ waiting'.phase \in {"idle", "cubes"}
    BY <1>9 DEF Waiters, Map!Idle
  <2>2. map' \in Map!Maps /\ map'.edges \subseteq map'.nodes \X map'.nodes
    BY <1>3, <1>4, <1>8
  <2> QED
    BY <1>1, <1>2, <1>10, <2>1, <2>2 DEF MapInv, Map!TypeOK, Map!Named, Map!Objects, Map!Maps
<1>12. Map!InStep'
  <2>1. \A o \in Map!Objects \ behind' :
          /\ o \in map'.nodes <=> code[o] # None
          /\ o \in map'.nodes => {e \in map'.edges : e[1] = o} = {o} \X (code[o] \cap map'.nodes)
    BY <1>1, <1>3, <1>6, <1>7
  <2> QED BY <1>1, <2>1 DEF Map!InStep, Map!Out, Map!process_edges, Map!Objects
<1>13. ReadInv'
  BY <1>9 DEF ReadInv
<1>14. Chores \subseteq map'.nodes /\ map'.nodes # {}
  BY <1>3, ChoresAssumption DEF N
<1> QED
  BY <1>1, <1>9, <1>11, <1>12, <1>13, <1>14
  DEF MapInv, Map!Idle, Map!Objects, Waiters, Reading, Reads, Map!Maps

\* An extraction that fails leaves the map alone.
LEMMA FailExtractionStep ==
  ASSUME MapInv, Map!FailExtraction
  PROVE  MapInv' /\ map' = map
<1>1. map' = map /\ reader' = waiting /\ waiting' = Map!Idle /\ UNCHANGED <<code, patches, edits, behind>>
  BY DEF Map!FailExtraction, Map!LeftByFailure
<1>2. reader'.phase \in {"idle", "cubes"} /\ waiting'.phase = "idle"
  BY <1>1 DEF MapInv, Waiters, Map!Idle
<1>3. records' \in Seq([status : {"succeeded", "failed"}, first : BOOLEAN, changed : BOOLEAN])
  <2>1. PICK f : f = Map!Failed
    OBVIOUS
  <2>2. f \in [status : {"succeeded", "failed"}, first : BOOLEAN, changed : BOOLEAN]
    BY <2>1 DEF Map!Failed
  <2>3. records' = records \/ records' = Append(records, f)
    BY <2>1 DEF Map!FailExtraction
  <2>4. records \in Seq([status : {"succeeded", "failed"}, first : BOOLEAN, changed : BOOLEAN])
    BY DEF MapInv, Map!TypeOK
  <2>5. Append(records, f) \in Seq([status : {"succeeded", "failed"}, first : BOOLEAN, changed : BOOLEAN])
    BY <2>2, <2>4
  <2> QED BY <2>3, <2>4, <2>5, Zenon
<1>4. Map!TypeOK'
  BY <1>1, <1>2, <1>3 DEF MapInv, Map!TypeOK, Map!Named, Map!Objects, Map!Maps
<1>5. Map!InStep'
  BY <1>1 DEF MapInv, Map!InStep, Map!Out, Map!process_edges, Map!Objects, Map!Empty
<1>6. ReadInv'
  BY <1>2 DEF ReadInv
<1> QED
  BY <1>1, <1>4, <1>5, <1>6
  DEF MapInv, Map!Idle, Map!Objects, Waiters, Reading, Reads, Map!Maps, Map!Empty

\* Every step of the map keeps the invariant; nodes never all go.
LEMMA MapNext ==
  ASSUME MapInv, Map!Next
  PROVE  MapInv' /\ (map.nodes # {} => map'.nodes # {})
<1>1. ASSUME NEW o \in Map!Objects, NEW c, Map!EditOutside(o, c) PROVE MapInv' /\ map'.nodes = map.nodes
  <2>1. /\ Map!Rewritten(o, c) /\ (c = None => o \in Tasks) /\ UNCHANGED <<map, waiting, patches, records>>
    BY <1>1 DEF Map!EditOutside
  <2>2. patches' \subseteq [name : Tasks, deleted : BOOLEAN]
    BY <2>1 DEF MapInv, Map!TypeOK
  <2> QED BY <2>1, <2>2, RewrittenStep
<1>2. ASSUME NEW p \in Tasks, NEW c, Map!ApplyChange(p, c) PROVE MapInv' /\ map'.nodes = map.nodes
  <2>1. /\ Map!Rewritten(p, c) /\ UNCHANGED <<map, waiting, records>> /\ p \in Map!Objects
        /\ patches' = patches \cup {[name |-> p, deleted |-> c = None]}
    BY <1>2 DEF Map!ApplyChange, Map!Objects
  <2>2. PICK d \in BOOLEAN : d = (c = None)
    BY Zenon
  <2>3. patches' = patches \cup {[name |-> p, deleted |-> d]}
    BY <2>1, <2>2
  <2>4. patches' \subseteq [name : Tasks, deleted : BOOLEAN]
    BY <2>3 DEF MapInv, Map!TypeOK
  <2> QED BY <2>1, <2>4, RewrittenStep
<1>3. ASSUME NEW r \in patches, Map!RefreshFails(r) PROVE MapInv' /\ map' = map
  <2>1. patches' \subseteq patches /\ UNCHANGED <<code, map, reader, waiting, records, edits, behind>>
    BY <1>3 DEF Map!RefreshFails
  <2>2. Map!TypeOK'
    BY <2>1 DEF MapInv, Map!TypeOK, Map!Named, Map!Objects, Map!Maps
  <2>3. Map!InStep' /\ ReadInv'
    BY <2>1 DEF MapInv, Map!InStep, ReadInv, Map!Out, Map!process_edges, Map!Objects, Map!Empty
  <2> QED
    BY <2>1, <2>2, <2>3 DEF MapInv, Map!Idle, Map!Objects, Waiters, Reading, Reads, Map!Maps, Map!Empty
<1>4. CASE \E o \in Map!Objects \ {}, c \in {None} \cup SUBSET ({} \cup Tasks) : Map!EditOutside(o, c)
  BY <1>1, <1>4
<1>5. CASE \E p \in Tasks, c \in {None} \cup SUBSET ({} \cup Tasks) : Map!ApplyChange(p, c)
  BY <1>2, <1>5
<1>6. CASE \E r \in patches : Map!Refresh(r) \/ Map!RefreshFails(r)
  BY <1>3, <1>6, RefreshStep
<1>7. CASE (\E scheduled \in BOOLEAN : Map!StartExtraction(scheduled)) \/ Map!ListProcesses
             \/ (\E p \in Tasks : Map!ReadProcess(p))
  BY <1>7, StartExtractionStep, ListProcessesStep, ReadProcessStep
<1>8. CASE Map!FinishExtraction \/ Map!FailExtraction
  BY <1>8, FinishExtractionStep, FailExtractionStep
<1> QED
  BY <1>4, <1>5, <1>6, <1>7, <1>8 DEF Map!Next

\* Whatever leaves the map alone keeps its invariant.
LEMMA MapStutters == ASSUME MapInv, UNCHANGED mapVars PROVE MapInv'
<1>1. UNCHANGED <<code, map, reader, waiting, patches, records, edits, behind>>
  BY DEF mapVars
<1>2. Map!TypeOK'
  BY <1>1 DEF MapInv, Map!TypeOK, Map!Named, Map!Objects, Map!Maps
<1>3. Map!InStep' /\ ReadInv'
  BY <1>1 DEF MapInv, Map!InStep, ReadInv, Map!Out, Map!process_edges, Map!Objects, Map!Empty
<1> QED
  BY <1>1, <1>2, <1>3 DEF MapInv, Map!Idle, Map!Objects, Waiters, Reading, Reads, Map!Maps, Map!Empty

-----------------------------------------------------------------------------
(***************************************************************************)
(* Chat turns, their quota and what they are charged (ChatTurns).          *)
(***************************************************************************)

Voices == {"user", "assistant"}
Saying == Seq(Voices)
Counts == Seq(Nat)
Pends == [said : Saying, tools : SUBSET Tools, usage : Counts]
Owners == Conversations \cup {NoConv}
Rounds == 1..(MaxRounds + 1)
TurnRows ==
  [at : Chat!Stages, stream : BOOLEAN, agent : BOOLEAN,
   conv : Owners, seen : Nat, round : Rounds,
   want : SUBSET Tools, tokens : Nat, pend : Pends, history : Saying,
   spoke : BOOLEAN, flying : BOOLEAN, fell : BOOLEAN, fault : BOOLEAN]
Early == {"new", "check", "prepare", "refused"}
Busy == {"call", "waiting", "tools", "write", "cut", "commit"}

\* The types part by part.
LEMMA ChatTypes ==
  Chat!TypeOK <=>
    /\ limit \in Limits /\ turn \in [Turns -> TurnRows] /\ inflight \in Nat /\ live \in SUBSET Conversations
    /\ messages \in [Conversations -> Saying] /\ usage \in [Turns -> Counts]
    /\ trail \in [Turns -> SUBSET Tools] /\ calls \in [Turns -> Nat] /\ ran \in [Turns -> SUBSET Tools]
  BY DEF Chat!TypeOK, TurnRows, Pends, Owners, Rounds, Saying, Voices, Counts

LEMMA SequencesOfRows ==
  /\ <<>> \in Saying /\ <<>> \in Counts
  /\ \A s \in Saying, x \in Voices : Append(s, x) \in Saying
  /\ \A s, z \in Saying : s \o z \in Saying
  /\ \A s \in Counts, x \in Nat : Append(s, x) \in Counts
  /\ \A s, z \in Counts : s \o z \in Counts
  /\ \A s \in Saying : s \in Seq(Voices)
  /\ \A n \in Nat : <<n>> \in Counts
  /\ <<"user">> \in Saying
  /\ Chat!Nothing \in Pends
<1>1. ASSUME NEW s \in Counts, NEW z \in Counts PROVE s \o z \in Counts
  BY ConcatProperties DEF Counts
<1>2. ASSUME NEW s \in Saying, NEW z \in Saying PROVE s \o z \in Saying
  BY ConcatProperties DEF Saying
<1> QED
  BY <1>1, <1>2 DEF Saying, Counts, Voices, Pends, Chat!Nothing

\* A set of naturals has a least member.
LEMMA LeastNatural == ASSUME NEW T \in SUBSET Nat, T # {} PROVE Chat!Min(T) \in T
<1>1. \E x \in T : \A y \in T : x <= y
  BY MinExists
<1> QED
  BY <1>1, Zenon DEF Chat!Min

\* A window of the history begins with a user's message.
LEMMA HistoryFromUser ==
  ASSUME NEW c \in Conversations, Chat!TypeOK
  PROVE  /\ Chat!History(c) \in Saying
         /\ Append(Chat!History(c), "user") \in Saying
         /\ Append(Chat!History(c), "user")[1] = "user"
<1>1. messages[c] \in Saying
  BY ChatTypes
<1>2. ASSUME NEW s \in Saying
      PROVE  Chat!FromUser(s) \in Saying /\ (Chat!FromUser(s) # <<>> => Chat!FromUser(s)[1] = "user")
  <2> DEFINE users == {i \in DOMAIN s : s[i] = "user"}
  <2>0. s \in Seq(Voices)
    BY SequencesOfRows
  <2>1. CASE users = {}
    BY <2>1, SequencesOfRows DEF Chat!FromUser
  <2>2. CASE users # {}
    <3>1. users \in SUBSET Nat
      BY <2>0
    <3>2. Chat!Min(users) \in users
      BY <2>2, <3>1, LeastNatural
    <3>3. PICK m \in DOMAIN s : m = Chat!Min(users) /\ s[m] = "user"
      BY <3>2
    <3>4. Chat!FromUser(s) = SubSeq(s, m, Len(s))
      BY <2>2, <3>3, Zenon DEF Chat!FromUser
    <3>5. SubSeq(s, m, Len(s)) \in Seq(Voices) /\ SubSeq(s, m, Len(s))[1] = s[m]
      <4>1. Len(s) \in Nat /\ m \in 1..Len(s) /\ \A i \in m..Len(s) : s[i] \in Voices
        <5>1. Len(s) \in Nat /\ DOMAIN s = 1..Len(s) /\ \A i \in 1..Len(s) : s[i] \in Voices
          BY <2>0
        <5>2. m \in 1..Len(s)
          BY <3>3, <5>1
        <5> QED
          BY <5>1, <5>2
      <4>2. 1 \in 1 .. Len(s) - m + 1 /\ m + 1 - 1 = m
        BY <4>1
      <4>3. SubSeq(s, m, Len(s)) \in Seq(Voices) /\ \A i \in 1 .. Len(s) - m + 1 : SubSeq(s, m, Len(s))[i] = s[m + i - 1]
        BY <4>1, SubSeqProperties
      <4> QED
        BY <4>2, <4>3
    <3> QED
      BY <3>3, <3>4, <3>5 DEF Saying
  <2> QED
    BY <2>1, <2>2
<1>3. ASSUME NEW s \in Saying, NEW n \in 0..Len(s) PROVE SubSeq(s, 1 + n, Len(s)) \in Saying
  BY <1>3, SubSeqProperties DEF Saying
<1>4. Chat!History(c) \in Saying /\ (Chat!History(c) # <<>> => Chat!History(c)[1] = "user")
  <2>0. Len(messages[c]) \in Nat /\ Window \in Nat
    BY <1>1, BoundsAssumption DEF Saying
  <2>1. PICK n \in 0..Len(messages[c]) : n = IF Len(messages[c]) > Window THEN Len(messages[c]) - Window ELSE 0
    <3> DEFINE n == IF Len(messages[c]) > Window THEN Len(messages[c]) - Window ELSE 0
    <3>1. n \in 0..Len(messages[c])
      <4>1. CASE Len(messages[c]) > Window
        BY <2>0, <4>1
      <4>2. CASE ~(Len(messages[c]) > Window)
        BY <2>0, <4>2
      <4> QED
        BY <4>1, <4>2
    <3> QED
      BY <3>1
  <2>2. Chat!History(c) = Chat!FromUser(SubSeq(messages[c], 1 + n, Len(messages[c])))
    BY <2>1 DEF Chat!History
  <2> QED
    BY <1>1, <1>2, <1>3, <2>2
<1>5. ASSUME NEW s \in Saying, s # <<>> => s[1] = "user"
      PROVE  Append(s, "user") \in Saying /\ Append(s, "user")[1] = "user"
  BY <1>5 DEF Saying, Voices
<1> QED
  BY <1>4, <1>5
\* A sum over a set, counted out: f[x] units for each x.
Units(f, s) == {p \in s \X Nat : p[2] < f[p[1]]}

\* What the community modules' sums compute, one element after the other.
Adds(g, f, S) ==
  g = [s \in SUBSET S |-> IF s = {} THEN 0 ELSE f[CHOOSE x \in s : TRUE] + g[s \ {CHOOSE x \in s : TRUE}]]

LEMMA UnitsOfOne ==
  ASSUME NEW S, NEW f \in [S -> Nat], NEW x \in S
  PROVE  IsFiniteSet(Units(f, {x})) /\ Cardinality(Units(f, {x})) = f[x]
<1>1. Units(f, {x}) = {x} \X (0 .. f[x] - 1)
  BY DEF Units
<1>2. f[x] \in Nat
  OBVIOUS
<1>3. IsFiniteSet(0 .. f[x] - 1) /\ Cardinality(0 .. f[x] - 1) = f[x]
  <2>1. f[x] - 1 \in Int /\ 0 \in Int
    BY <1>2
  <2> QED
    BY <1>2, <2>1, FS_Interval
<1>4. IsFiniteSet({x}) /\ Cardinality({x}) = 1
  BY FS_Singleton, Zenon
<1>5. /\ IsFiniteSet({x} \X (0 .. f[x] - 1))
      /\ Cardinality({x} \X (0 .. f[x] - 1)) = Cardinality({x}) * Cardinality(0 .. f[x] - 1)
  BY <1>3, <1>4, FS_Product, Zenon
<1>6. \A n \in Nat : 1 * n = n
  OBVIOUS
<1>7. Cardinality({x} \X (0 .. f[x] - 1)) = f[x]
  BY <1>2, <1>3, <1>4, <1>5, <1>6
<1> QED
  BY <1>1, <1>5, <1>7, Zenon

LEMMA UnitsFinite ==
  ASSUME NEW S, IsFiniteSet(S), NEW f \in [S -> Nat]
  PROVE  \A s \in SUBSET S : IsFiniteSet(Units(f, s)) /\ Cardinality(Units(f, s)) \in Nat
<1> DEFINE T == {Units(f, {x}) : x \in S}
           h == [x \in S |-> Units(f, {x})]
<1>1. h \in Surjection(S, T)
  BY Zenon DEF Surjection
<1>2. IsFiniteSet(T)
  BY <1>1, FS_Surjection
<1>3. ASSUME NEW U \in T PROVE IsFiniteSet(U)
  <2>1. PICK x \in S : U = Units(f, {x})
    BY Zenon
  <2> QED
    BY <2>1, UnitsOfOne
<1>4. IsFiniteSet(UNION T)
  BY <1>2, <1>3, FS_UNION, Zenon
<1>5. Units(f, S) = UNION T
  BY DEF Units
<1>6. \A s \in SUBSET S : Units(f, s) \in SUBSET Units(f, S)
  BY DEF Units
<1> QED
  BY <1>4, <1>5, <1>6, FS_Subset, FS_CardinalityType, Zenon

LEMMA UnitsAdd ==
  ASSUME NEW S, IsFiniteSet(S), NEW f \in [S -> Nat], NEW s \in SUBSET S, NEW x \in s
  PROVE  Cardinality(Units(f, s)) = f[x] + Cardinality(Units(f, s \ {x}))
<1>1. IsFiniteSet(Units(f, {x})) /\ Cardinality(Units(f, {x})) = f[x] /\ f[x] \in Nat
  BY UnitsOfOne
<1>2. IsFiniteSet(Units(f, s \ {x})) /\ Cardinality(Units(f, s \ {x})) \in Nat
  BY UnitsFinite
<1>3. Units(f, s) = Units(f, {x}) \cup Units(f, s \ {x}) /\ Units(f, {x}) \cap Units(f, s \ {x}) = {}
  BY DEF Units
<1>4. /\ Cardinality(Units(f, {x}) \cup Units(f, s \ {x}))
           = Cardinality(Units(f, {x})) + Cardinality(Units(f, s \ {x})) - Cardinality(Units(f, {x}) \cap Units(f, s \ {x}))
  BY <1>1, <1>2, FS_Union, Zenon
<1>5. Cardinality(Units(f, {x}) \cap Units(f, s \ {x})) = 0
  BY <1>3, FS_EmptySet, Zenon
<1>6. Cardinality(Units(f, s)) = Cardinality(Units(f, {x}) \cup Units(f, s \ {x}))
  BY <1>3
<1> QED
  BY <1>1, <1>2, <1>4, <1>5, <1>6

\* The sum exists, and it is the number of units.
LEMMA SumExists ==
  ASSUME NEW S, IsFiniteSet(S), NEW f \in [S -> Nat]
  PROVE  \E g : Adds(g, f, S)
<1> DEFINE g == [s \in SUBSET S |-> Cardinality(Units(f, s))]
<1>1. Cardinality(Units(f, {})) = 0
  <2>1. Units(f, {}) = {}
    BY DEF Units
  <2> QED
    BY <2>1, FS_EmptySet
<1>2. ASSUME NEW s \in SUBSET S
      PROVE  g[s] = IF s = {} THEN 0 ELSE f[CHOOSE x \in s : TRUE] + g[s \ {CHOOSE x \in s : TRUE}]
  <2>1. CASE s = {}
    BY <1>1, <2>1
  <2>2. CASE s # {}
    <3>1. PICK x \in s : x = CHOOSE y \in s : TRUE
      BY <2>2
    <3>2. g[s] = f[x] + g[s \ {x}]
      BY UnitsAdd
    <3> QED
      BY <2>2, <3>1, <3>2
  <2> QED
    BY <2>1, <2>2
<1>3. g = [s \in SUBSET S |-> IF s = {} THEN 0 ELSE f[CHOOSE x \in s : TRUE] + g[s \ {CHOOSE x \in s : TRUE}]]
  BY <1>2, Zenon
<1> QED
  BY <1>3, Zenon DEF Adds

LEMMA SumCounts ==
  ASSUME NEW S, IsFiniteSet(S), NEW f \in [S -> Nat], NEW g, Adds(g, f, S)
  PROVE  \A s \in SUBSET S : g[s] = Cardinality(Units(f, s))
<1> DEFINE Bad == {s \in SUBSET S : g[s] # Cardinality(Units(f, s))}
<1>0. ASSUME NEW s \in SUBSET S, NEW x \in s
      PROVE  Cardinality(Units(f, s)) = f[x] + Cardinality(Units(f, s \ {x}))
  <2>1. IsFiniteSet(S) /\ f \in [S -> Nat]
    OBVIOUS
  <2> HIDE DEF Bad
  <2> QED
    BY ONLY <2>1, <1>0, UnitsAdd
<1> SUFFICES ASSUME Bad # {} PROVE FALSE
  OBVIOUS
<1>1. IsWellFoundedOn(StrictSubsetOrdering(S), FiniteSubsetsOf(S))
  BY FS_StrictSubsetOrderingWellFounded
<1>2. FiniteSubsetsOf(S) = SUBSET S
  BY FS_FiniteSubsetsOfFinite
<1>3. Bad \subseteq SUBSET S
  OBVIOUS
<1>4. PICK s \in Bad : \A t \in Bad : ~(<<t, s>> \in StrictSubsetOrdering(S))
  <2> HIDE DEF Bad
  <2> QED
    BY <1>1, <1>2, <1>3, WFMin
<1>5. \A t \in SUBSET S : t \subseteq s /\ t # s => <<t, s>> \in StrictSubsetOrdering(S)
  BY <1>3, <1>4 DEF StrictSubsetOrdering
<1>6. \A t \in SUBSET S : t \subseteq s /\ t # s => g[t] = Cardinality(Units(f, t))
  BY <1>4, <1>5, Zenon
<1>7. g[s] = IF s = {} THEN 0 ELSE f[CHOOSE x \in s : TRUE] + g[s \ {CHOOSE x \in s : TRUE}]
  <2>1. s \in SUBSET S
    BY <1>3, <1>4
  <2> QED
    BY <2>1, Zenon DEF Adds
<1>8. CASE s = {}
  <2>1. Units(f, {}) = {}
    BY DEF Units
  <2> QED
    BY <1>4, <1>7, <1>8, <2>1, FS_EmptySet, Zenon
<1>9. CASE s # {}
  <2>1. PICK x \in s : x = CHOOSE y \in s : TRUE
    BY <1>9
  <2>2. s \ {x} \in SUBSET S /\ s \ {x} \subseteq s /\ s \ {x} # s
    BY <1>3, <2>1
  <2>3. g[s \ {x}] = Cardinality(Units(f, s \ {x}))
    BY <1>6, <2>2
  <2>4. Cardinality(Units(f, s)) = f[x] + Cardinality(Units(f, s \ {x}))
    BY <1>0, <1>3, <1>4, <2>1, Zenon
  <2> QED
    BY <1>4, <1>7, <1>9, <2>1, <2>3, <2>4
<1> QED
  BY <1>8, <1>9

\* The ledger is the number of tokens that were charged.
LEMMA LedgerIs ==
  ASSUME IsFiniteSet(Turns), NEW f \in [Turns -> Nat], \A t \in Turns : f[t] = Chat!Spent(t)
  PROVE  Chat!Ledger = Cardinality(Units(f, Turns))
<1> DEFINE P(g) == g = [s \in SUBSET Turns |-> IF s = {} THEN 0
                          ELSE Chat!Spent(CHOOSE x \in s : TRUE) + g[s \ {CHOOSE x \in s : TRUE}]]
<1>1. PICK g : g = CHOOSE h : P(h)
  BY Zenon
<1>2. Chat!Ledger = g[Turns]
  BY <1>1 DEF Chat!Ledger, Chat!MapThenSumSet, Chat!MapThenFoldSet
<1>3. ASSUME NEW h PROVE P(h) <=> Adds(h, f, Turns)
  <2>1. \A s \in SUBSET Turns : s # {} => (CHOOSE x \in s : TRUE) \in Turns
    OBVIOUS
  <2>2. \A s \in SUBSET Turns : s # {} => f[CHOOSE x \in s : TRUE] = Chat!Spent(CHOOSE x \in s : TRUE)
    BY <2>1
  <2>3. [s \in SUBSET Turns |-> IF s = {} THEN 0
           ELSE Chat!Spent(CHOOSE x \in s : TRUE) + h[s \ {CHOOSE x \in s : TRUE}]]
        = [s \in SUBSET Turns |-> IF s = {} THEN 0
           ELSE f[CHOOSE x \in s : TRUE] + h[s \ {CHOOSE x \in s : TRUE}]]
    BY <2>2
  <2> QED
    BY <2>3, Zenon DEF Adds
<1>4. P(g)
  <2>1. \E h : P(h)
    <3>1. \E h : Adds(h, f, Turns)
      BY SumExists
    <3> HIDE DEF P
    <3> QED
      BY <1>3, <3>1
  <2> HIDE DEF P
  <2> QED
    BY <1>1, <2>1
<1> QED
  BY <1>2, <1>3, <1>4, SumCounts

LEMMA LedgerIsANumber ==
  ASSUME Chat!TypeOK
  PROVE  Chat!Ledger \in Nat
<1> DEFINE f == [t \in Turns |-> Chat!Spent(t)]
<1>1. f \in [Turns -> Nat]
  <2> SUFFICES ASSUME NEW t \in Turns PROVE Chat!Spent(t) \in Nat
    OBVIOUS
  <2>1. usage[t] \in Seq(Nat)
    BY ChatTypes DEF Counts
  <2>2. usage[t] # <<>> => usage[t][1] \in Nat
    BY <2>1
  <2> QED
    BY <2>2 DEF Chat!Spent
<1>2. \A t \in Turns : f[t] = Chat!Spent(t)
  OBVIOUS
<1> HIDE DEF f
<1>3. Chat!Ledger = Cardinality(Units(f, Turns))
  BY <1>1, <1>2, FiniteAssumption, LedgerIs
<1> QED
  BY <1>1, <1>3, FiniteAssumption, UnitsFinite

\* What is true of one turn: its row, the calls it made, the tools that ran, those on
\* record, what it was charged, and the conversations that are there.
Sound(r, n, done, kept, spent, there) ==
  /\ r.at \in Early => n = 0 /\ done = {} /\ r.tokens = 0 /\ ~r.flying
  /\ r.at \in Busy => r.conv \in Conversations
  /\ r.pend # Chat!Nothing => r.at \in {"call", "tools", "write", "cut", "commit"}
  /\ r.pend.usage # <<>> => r.at = "commit" /\ spent = <<>> /\ r.pend.usage = <<n>>
  /\ r.at \in {"call", "tools", "write"} => ~r.flying /\ r.tokens = n
  /\ r.at = "waiting" => r.flying /\ r.tokens + 1 = n
  /\ r.at = "cut" => n = IF r.flying THEN r.tokens + 1 ELSE r.tokens
  /\ spent # <<>> => r.at \in {"commit", "gone"} /\ spent = <<n>>
  /\ r.at = "commit" /\ r.pend.usage = <<>> /\ ~r.fault /\ (r.conv \in there \/ r.pend # Chat!Nothing) => spent = <<n>>
  /\ r.at = "gone" /\ r.stream /\ ~r.fault /\ r.conv \in there /\ n > 0 => spent = <<n>>
  /\ r.at \in {"call", "waiting", "tools"} /\ (r.conv \in there \/ r.pend # Chat!Nothing) => done \subseteq kept \cup r.pend.tools
  /\ r.at = "tools" => r.round <= MaxRounds
  /\ r.history # <<>> => r.history[1] = "user"

TurnIsSound(t) == Sound(turn[t], calls[t], ran[t], trail[t], usage[t], live)

\* A conversation that is not committed yet belongs to the turn that writes it.
BegunAlone ==
  \A t \in Turns : turn[t].pend # Chat!Nothing /\ turn[t].conv \notin live =>
    \A u \in Turns \ {t} : turn[u].conv # turn[t].conv

ChatInv ==
  /\ Chat!TypeOK /\ Chat!ReservationsAreTurns /\ Chat!BurstIsBounded
  /\ \A t \in Turns : TurnIsSound(t)
  /\ BegunAlone

Holders == {t \in Turns : turn[t].at \in Chat!Holding}

\* A turn takes or gives back its own reservation.
LEMMA ReservationMoves ==
  ASSUME Chat!TypeOK, Chat!ReservationsAreTurns, Chat!BurstIsBounded,
         NEW t \in Turns, limit' = limit,
         \A u \in Turns \ {t} : turn'[u].at = turn[u].at,
         \/ (turn[t].at \in Chat!Holding <=> turn'[t].at \in Chat!Holding) /\ inflight' = inflight
         \/ /\ turn[t].at \in Chat!Holding /\ turn'[t].at \notin Chat!Holding /\ inflight' = inflight - 1
         \/ /\ turn[t].at \notin Chat!Holding /\ turn'[t].at \in Chat!Holding /\ inflight' = inflight + 1
            /\ inflight * Reserve < limit
  PROVE  inflight' \in Nat /\ Chat!ReservationsAreTurns' /\ Chat!BurstIsBounded'
<1>0. \A S : Chat!Cardinality(S) = Cardinality(S)
  BY DEF Chat!Cardinality, Cardinality
<1>1. IsFiniteSet(Holders) /\ inflight = Cardinality(Holders) /\ inflight \in Nat /\ limit \in Nat /\ Reserve \in Nat
  <2>1. IsFiniteSet(Holders)
    BY FiniteAssumption, FS_Subset DEF Holders
  <2>2. inflight = Cardinality(Holders)
    BY <1>0 DEF Chat!ReservationsAreTurns, Holders
  <2> QED
    BY <2>1, <2>2, BoundsAssumption, ChatTypes, Zenon
<1>2. Chat!ReservationsAreTurns' <=> inflight' = Cardinality(Holders')
  BY <1>0 DEF Chat!ReservationsAreTurns, Holders
<1>3. inflight > 0 => (inflight - 1) * Reserve < limit
  BY DEF Chat!BurstIsBounded
<1>4. ASSUME turn[t].at \in Chat!Holding <=> turn'[t].at \in Chat!Holding, inflight' = inflight
      PROVE  inflight' \in Nat /\ Chat!ReservationsAreTurns' /\ Chat!BurstIsBounded'
  <2>1. Holders' = Holders
    BY <1>4 DEF Holders
  <2> QED
    BY <1>1, <1>2, <1>3, <1>4, <2>1 DEF Chat!BurstIsBounded
<1>5. ASSUME turn[t].at \in Chat!Holding, turn'[t].at \notin Chat!Holding, inflight' = inflight - 1
      PROVE  inflight' \in Nat /\ Chat!ReservationsAreTurns' /\ Chat!BurstIsBounded'
  <2>1. Holders' = Holders \ {t} /\ t \in Holders
    BY <1>5 DEF Holders
  <2>2. Cardinality(Holders \ {t}) = Cardinality(Holders) - 1 /\ Cardinality(Holders \ {t}) \in Nat
    BY <1>1, <2>1, FS_RemoveElement, FS_CardinalityType
  <2>3. inflight' \in Nat /\ Chat!ReservationsAreTurns'
    BY <1>1, <1>2, <1>5, <2>1, <2>2
  <2>4. ASSUME inflight' > 0 PROVE (inflight' - 1) * Reserve < limit
    <3>1. inflight > 0 /\ inflight' - 1 = inflight - 1 - 1 /\ inflight - 1 \in Nat /\ inflight - 1 - 1 \in Nat
      BY <1>1, <1>5, <2>3, <2>4
    <3>2. (inflight - 1) * Reserve = (inflight - 1 - 1) * Reserve + Reserve
      BY <1>1, <3>1
    <3>3. (inflight - 1) * Reserve \in Nat /\ (inflight - 1 - 1) * Reserve \in Nat
      BY <1>1, <3>1
    <3> QED
      BY <1>1, <1>3, <3>1, <3>2, <3>3
  <2> QED
    BY <2>3, <2>4 DEF Chat!BurstIsBounded
<1>6. ASSUME turn[t].at \notin Chat!Holding, turn'[t].at \in Chat!Holding, inflight' = inflight + 1,
             inflight * Reserve < limit
      PROVE  inflight' \in Nat /\ Chat!ReservationsAreTurns' /\ Chat!BurstIsBounded'
  <2>1. Holders' = Holders \cup {t} /\ t \notin Holders
    BY <1>6 DEF Holders
  <2>2. Cardinality(Holders \cup {t}) = Cardinality(Holders) + 1
    BY <1>1, <2>1, FS_AddElement, Zenon
  <2>3. inflight' - 1 = inflight
    BY <1>1, <1>6
  <2>4. (inflight' - 1) * Reserve = inflight * Reserve
    BY <2>3
  <2>5. inflight' \in Nat /\ Chat!ReservationsAreTurns'
    BY <1>1, <1>2, <1>6, <2>1, <2>2
  <2>6. (inflight' - 1) * Reserve < limit'
    BY <1>6, <2>4
  <2> QED
    BY <2>5, <2>6 DEF Chat!BurstIsBounded
<1> QED
  BY <1>4, <1>5, <1>6

\* A step of one turn t, to row r: nothing else changes, except that its own transaction
\* may be committed.
MovesTo(t, r) ==
  /\ r \in TurnRows /\ turn' = [turn EXCEPT ![t] = r] /\ limit' = limit
  /\ messages' \in [Conversations -> Saying] /\ usage' \in [Turns -> Counts]
  /\ trail' \in [Turns -> SUBSET Tools] /\ calls' \in [Turns -> Nat] /\ ran' \in [Turns -> SUBSET Tools]
  /\ \A u \in Turns \ {t} : usage'[u] = usage[u] /\ trail'[u] = trail[u] /\ calls'[u] = calls[u] /\ ran'[u] = ran[u]
  /\ \/ live' = live
     \/ turn[t].pend # Chat!Nothing /\ turn[t].conv \in Conversations /\ live' = live \cup {turn[t].conv}
  /\ r.conv = turn[t].conv \/ r.conv \in live \/ (\A u \in Turns : turn[u].conv # r.conv)
  /\ \/ r.pend = Chat!Nothing \/ r.conv \in live \/ (\A u \in Turns : turn[u].conv # r.conv)
     \/ turn[t].pend # Chat!Nothing /\ r.conv = turn[t].conv
  /\ \/ (turn[t].at \in Chat!Holding <=> r.at \in Chat!Holding) /\ inflight' = inflight
     \/ turn[t].at \in Chat!Holding /\ r.at \notin Chat!Holding /\ inflight' = inflight - 1
     \/ /\ turn[t].at \notin Chat!Holding /\ r.at \in Chat!Holding /\ inflight' = inflight + 1
        /\ inflight * Reserve < limit

LEMMA OneTurnMoves ==
  ASSUME ChatInv, NEW t \in Turns, NEW r, MovesTo(t, r),
         Sound(r, calls'[t], ran'[t], trail'[t], usage'[t], live')
  PROVE  ChatInv'
<1>1. turn \in [Turns -> TurnRows] /\ live \in SUBSET Conversations /\ Chat!TypeOK
  BY ChatTypes DEF ChatInv
<1>2. turn'[t] = r /\ \A u \in Turns \ {t} : turn'[u] = turn[u]
  BY <1>1 DEF MovesTo
<1>3. inflight' \in Nat /\ Chat!ReservationsAreTurns' /\ Chat!BurstIsBounded'
  <2>1. \A u \in Turns \ {t} : turn'[u].at = turn[u].at
    BY <1>2
  <2>2. Chat!TypeOK /\ Chat!ReservationsAreTurns /\ Chat!BurstIsBounded
    BY DEF ChatInv
  <2> QED
    BY <1>2, <2>1, <2>2, ReservationMoves DEF MovesTo
<1>4. Chat!TypeOK'
  <2>1. turn' \in [Turns -> TurnRows] /\ live' \in SUBSET Conversations /\ limit' \in Limits
    BY <1>1, ChatTypes DEF MovesTo
  <2> QED
    BY <1>3, <2>1, Zenon DEF MovesTo, Chat!TypeOK, TurnRows, Pends, Owners, Rounds, Saying, Voices, Counts
<1>5. \A u \in Turns \ {t} : turn[u].conv \in live' <=> turn[u].conv \in live
  BY <1>1 DEF ChatInv, BegunAlone, MovesTo
<1>6. ASSUME NEW u \in Turns PROVE TurnIsSound(u)'
  <2>1. CASE u = t
    BY <1>2, <2>1 DEF TurnIsSound
  <2>2. CASE u # t
    <3>1. TurnIsSound(u)
      BY DEF ChatInv
    <3> QED
      BY <1>2, <1>5, <2>2, <3>1 DEF TurnIsSound, Sound, MovesTo
  <2> QED
    BY <2>1, <2>2
<1>7. BegunAlone'
  <2> SUFFICES ASSUME NEW u \in Turns, turn'[u].pend # Chat!Nothing, turn'[u].conv \notin live',
                      NEW v \in Turns \ {u}
               PROVE  turn'[v].conv # turn'[u].conv
    BY DEF BegunAlone
  <2>0. live \subseteq live'
    BY DEF MovesTo
  <2>1. CASE u = t
    BY <1>2, <2>0, <2>1 DEF ChatInv, BegunAlone, MovesTo
  <2>2. CASE u # t
    <3>1. \A w \in Turns \ {u} : turn[w].conv # turn[u].conv
      BY <1>2, <2>0, <2>2 DEF ChatInv, BegunAlone
    <3> QED
      BY <1>2, <2>0, <2>2, <3>1 DEF MovesTo
  <2> QED
    BY <2>1, <2>2
<1> QED
  BY <1>3, <1>4, <1>6, <1>7 DEF ChatInv

\* What the rows of turns are made of.
LEMMA RowsTyped ==
  /\ \A x \in {"new", "check", "prepare", "call", "waiting", "tools", "write", "cut", "commit", "gone", "refused"} :
       x \in Chat!Stages
  /\ NoConv \in Owners /\ Conversations \subseteq Owners
  /\ 1 \in Rounds /\ \A n \in Rounds : n \in Nat /\ (n <= MaxRounds => n + 1 \in Rounds)
  /\ Chat!Nothing \in Pends /\ Chat!Nothing.tools = {} /\ Chat!Nothing.usage = <<>>
  /\ {} \in SUBSET Tools
BY BoundsAssumption, SequencesOfRows DEF Chat!Stages, Owners, Rounds, Chat!Nothing

\* A turn that is over.
LEMMA OverIs ==
  ASSUME NEW r \in TurnRows
  PROVE  /\ Chat!Over(r) \in TurnRows
         /\ Chat!Over(r).at = "gone" /\ Chat!Over(r).stream = r.stream /\ Chat!Over(r).conv = r.conv
         /\ Chat!Over(r).fault = r.fault /\ Chat!Over(r).pend = Chat!Nothing
         /\ Chat!Over(r).history = <<>> /\ Chat!Over(r).tokens = 0 /\ ~Chat!Over(r).flying
         /\ [Chat!Over(r) EXCEPT !.fault = TRUE] \in TurnRows
         /\ [Chat!Over(r) EXCEPT !.fault = TRUE].at = "gone"
         /\ [Chat!Over(r) EXCEPT !.fault = TRUE].stream = r.stream
         /\ [Chat!Over(r) EXCEPT !.fault = TRUE].conv = r.conv
         /\ [Chat!Over(r) EXCEPT !.fault = TRUE].pend = Chat!Nothing
         /\ [Chat!Over(r) EXCEPT !.fault = TRUE].fault = TRUE
         /\ [Chat!Over(r) EXCEPT !.fault = TRUE].history = <<>>
<1>1. "gone" \in Chat!Stages /\ 1 \in Rounds /\ NoConv \in Owners /\ <<>> \in Saying /\ Chat!Nothing \in Pends
  BY RowsTyped, SequencesOfRows
<1>2. r.stream \in BOOLEAN /\ r.conv \in Owners /\ r.fault \in BOOLEAN
  BY DEF TurnRows
<1> QED
  BY <1>1, <1>2, Zenon DEF Chat!Over, Chat!Blank, TurnRows

\* A turn whose loop is over keeps what it is charged by.
LEMMA LeftIs ==
  ASSUME NEW r \in TurnRows
  PROVE  /\ Chat!Left(r) \in TurnRows
         /\ \A f \in {"at", "stream", "conv", "tokens", "pend", "fault"} : Chat!Left(r)[f] = r[f]
         /\ Chat!Left(r).history = <<>> /\ ~Chat!Left(r).flying
<1>1. 1 \in Rounds /\ <<>> \in Saying
  BY RowsTyped, SequencesOfRows
<1> QED
  BY <1>1, Zenon DEF Chat!Left, TurnRows

\* One turn moves and leaves the tables and the counts of calls alone.
LEMMA TurnOnlyMoves ==
  ASSUME ChatInv, NEW t \in Turns, NEW r \in TurnRows, turn' = [turn EXCEPT ![t] = r],
         UNCHANGED <<Chat!tables, Chat!record>>,
         r.conv = turn[t].conv \/ r.conv \in live \/ (\A u \in Turns : turn[u].conv # r.conv),
         \/ r.pend = Chat!Nothing \/ r.conv \in live \/ (\A u \in Turns : turn[u].conv # r.conv)
         \/ turn[t].pend # Chat!Nothing /\ r.conv = turn[t].conv,
         Sound(r, calls[t], ran[t], trail[t], usage[t], live),
         \/ (turn[t].at \in Chat!Holding <=> r.at \in Chat!Holding) /\ inflight' = inflight
         \/ /\ turn[t].at \in Chat!Holding /\ r.at \notin Chat!Holding /\ inflight' = inflight - 1
         \/ /\ turn[t].at \notin Chat!Holding /\ r.at \in Chat!Holding /\ inflight' = inflight + 1
            /\ inflight * Reserve < limit
  PROVE  ChatInv'
<1>1. /\ limit' = limit /\ live' = live /\ messages' = messages /\ usage' = usage
      /\ trail' = trail /\ calls' = calls /\ ran' = ran
  BY DEF Chat!tables, Chat!record
<1>2. /\ messages' \in [Conversations -> Saying] /\ usage' \in [Turns -> Counts]
      /\ trail' \in [Turns -> SUBSET Tools] /\ calls' \in [Turns -> Nat] /\ ran' \in [Turns -> SUBSET Tools]
  BY <1>1, ChatTypes DEF ChatInv
<1>3. \A u \in Turns \ {t} : usage'[u] = usage[u] /\ trail'[u] = trail[u] /\ calls'[u] = calls[u] /\ ran'[u] = ran[u]
  BY <1>1
<1>4. Sound(r, calls'[t], ran'[t], trail'[t], usage'[t], live')
  BY <1>1
<1>5. MovesTo(t, r)
  BY <1>1, <1>2, <1>3 DEF MovesTo
<1> QED
  BY <1>4, <1>5, OneTurnMoves

LEMMA Arrives ==
  ASSUME ChatInv, NEW t \in Turns, Chat!Arrive(t) \/ Chat!ArriveStream(t)
  PROVE  ChatInv'
<1>1. Chat!TypeOK /\ turn \in [Turns -> TurnRows] /\ turn[t] \in TurnRows /\ TurnIsSound(t)
  BY ChatTypes DEF ChatInv
<1>2. PICK a \in BOOLEAN, s \in BOOLEAN :
        turn' = [turn EXCEPT ![t] = [turn[t] EXCEPT !.at = "check", !.stream = s, !.agent = a, !.seen = Chat!Ledger]]
  <2>1. CASE Chat!Arrive(t)
    <3>1. turn[t].stream \in BOOLEAN
      BY <1>1 DEF TurnRows
    <3>2. [turn[t] EXCEPT !.at = "check", !.agent = TRUE, !.seen = Chat!Ledger]
          = [turn[t] EXCEPT !.at = "check", !.stream = turn[t].stream, !.agent = TRUE, !.seen = Chat!Ledger]
      BY <1>1, Zenon DEF TurnRows
    <3> QED
      BY <2>1, <3>1, <3>2, Zenon DEF Chat!Arrive
  <2>2. CASE Chat!ArriveStream(t)
    BY <2>2, Zenon DEF Chat!ArriveStream
  <2> QED
    BY <2>1, <2>2, Zenon
<1> DEFINE r == [turn[t] EXCEPT !.at = "check", !.stream = s, !.agent = a, !.seen = Chat!Ledger]
<1>3. r \in TurnRows
  <2>1. Chat!Ledger \in Nat /\ "check" \in Chat!Stages
    BY <1>1, LedgerIsANumber, RowsTyped
  <2> HIDE DEF Chat!Ledger
  <2> QED
    BY <1>1, <2>1, Zenon DEF TurnRows
<1>4. /\ r.at = "check" /\ r.conv = turn[t].conv /\ r.tokens = turn[t].tokens /\ r.pend = turn[t].pend
      /\ r.history = turn[t].history /\ r.flying = turn[t].flying /\ r.fault = turn[t].fault
  BY <1>1 DEF TurnRows
<1>5. turn' = [turn EXCEPT ![t] = r]
  BY <1>2
<1> HIDE DEF r
<1>6. turn[t].at = "new" /\ inflight' = inflight /\ UNCHANGED <<Chat!tables, Chat!record>>
  BY Zenon DEF Chat!Arrive, Chat!ArriveStream, Chat!tables, Chat!record
<1>7. Sound(r, calls[t], ran[t], trail[t], usage[t], live)
  BY <1>1, <1>4, <1>6 DEF TurnIsSound, Sound, Early, Busy
<1>8. turn[t].pend = Chat!Nothing
  BY <1>1, <1>6 DEF TurnIsSound, Sound
<1>9. ~(turn[t].at \in Chat!Holding) /\ ~(r.at \in Chat!Holding)
  BY <1>4, <1>6 DEF Chat!Holding
<1> QED
  BY <1>3, <1>4, <1>5, <1>6, <1>7, <1>8, <1>9, TurnOnlyMoves, Zenon

LEMMA TurnsTyped ==
  ASSUME ChatInv, NEW t \in Turns
  PROVE  /\ Chat!TypeOK /\ turn \in [Turns -> TurnRows] /\ turn[t] \in TurnRows /\ TurnIsSound(t)
         /\ usage \in [Turns -> Counts] /\ trail \in [Turns -> SUBSET Tools]
         /\ calls \in [Turns -> Nat] /\ ran \in [Turns -> SUBSET Tools]
         /\ messages \in [Conversations -> Saying] /\ live \in SUBSET Conversations
         /\ inflight \in Nat /\ limit \in Nat
BY ChatTypes, BoundsAssumption, Zenon DEF ChatInv

LEMMA Admits ==
  ASSUME ChatInv, NEW t \in Turns, Chat!Admit(t)
  PROVE  ChatInv'
<1>1. Chat!TypeOK /\ turn \in [Turns -> TurnRows] /\ turn[t] \in TurnRows /\ TurnIsSound(t)
  BY TurnsTyped
<1>2. turn[t].at = "check" /\ UNCHANGED <<Chat!tables, Chat!record>>
  BY DEF Chat!Admit
<1>3. ASSUME NEW r \in TurnRows, r.at \in {"refused", "prepare"},
             r.conv = turn[t].conv, r.tokens = turn[t].tokens, r.pend = turn[t].pend, r.history = turn[t].history,
             r.flying = turn[t].flying
      PROVE  Sound(r, calls[t], ran[t], trail[t], usage[t], live) /\ r.pend = Chat!Nothing
  BY <1>1, <1>2, <1>3 DEF TurnIsSound, Sound, Early, Busy
<1>4. ASSUME Chat!OverQuota(t) PROVE ChatInv'
  <2> DEFINE r == [turn[t] EXCEPT !.at = "refused"]
  <2>1. turn' = [turn EXCEPT ![t] = r] /\ inflight' = inflight
    BY <1>4 DEF Chat!Admit
  <2>2. /\ r \in TurnRows /\ r.at = "refused" /\ r.conv = turn[t].conv /\ r.tokens = turn[t].tokens
        /\ r.pend = turn[t].pend /\ r.history = turn[t].history /\ r.flying = turn[t].flying
    BY <1>1, RowsTyped DEF TurnRows
  <2> HIDE DEF r
  <2>3. turn[t].at \notin Chat!Holding /\ r.at \notin Chat!Holding
    BY <1>2, <2>2 DEF Chat!Holding
  <2> QED
    BY <1>2, <1>3, <2>1, <2>2, <2>3, TurnOnlyMoves, Zenon
<1>5. ASSUME ~Chat!OverQuota(t) PROVE ChatInv'
  <2> DEFINE r == [turn[t] EXCEPT !.at = "prepare", !.seen = 0]
  <2>1. turn' = [turn EXCEPT ![t] = r] /\ inflight' = inflight + 1
    BY <1>1, <1>5, Zenon DEF Chat!Admit
  <2>2. /\ r \in TurnRows /\ r.at = "prepare" /\ r.conv = turn[t].conv /\ r.tokens = turn[t].tokens
        /\ r.pend = turn[t].pend /\ r.history = turn[t].history /\ r.flying = turn[t].flying
    BY <1>1, RowsTyped, Zenon DEF TurnRows
  <2> HIDE DEF r
  <2>3. turn[t].at \notin Chat!Holding /\ r.at \in Chat!Holding
    BY <1>2, <2>2 DEF Chat!Holding
  <2>4. inflight * Reserve < limit
    <3>1. turn[t].seen \in Nat
      BY <1>1 DEF TurnRows
    <3>2. inflight * Reserve \in Nat /\ limit \in Nat
      BY TurnsTyped, BoundsAssumption
    <3>3. ~(turn[t].seen + inflight * Reserve >= limit)
      BY <1>5 DEF Chat!OverQuota
    <3> QED
      BY <3>1, <3>2, <3>3
  <2> QED
    BY <1>2, <1>3, <2>1, <2>2, <2>3, <2>4, TurnOnlyMoves, Zenon
<1> QED
  BY <1>4, <1>5

\* A turn that is rolled back whole owes nothing, or had written its last word.
LEMMA Raises ==
  ASSUME ChatInv, NEW t \in Turns, Chat!Raise(t), turn[t].at \in Chat!Holding,
         ~turn[t].stream \/ turn[t].conv \notin live \/ calls[t] = 0
  PROVE  ChatInv'
<1>1. Chat!TypeOK /\ turn \in [Turns -> TurnRows] /\ turn[t] \in TurnRows /\ TurnIsSound(t)
  BY TurnsTyped
<1> DEFINE r == Chat!Over(turn[t])
<1>2. turn' = [turn EXCEPT ![t] = r] /\ inflight' = inflight - 1 /\ UNCHANGED <<Chat!tables, Chat!record>>
  BY DEF Chat!Raise, Chat!EndTurn
<1>3. /\ r \in TurnRows /\ r.at = "gone" /\ r.stream = turn[t].stream /\ r.conv = turn[t].conv
      /\ r.pend = Chat!Nothing /\ r.history = <<>>
  BY <1>1, OverIs, Zenon
<1> HIDE DEF r
<1>4. r.at \notin Chat!Holding
  BY <1>3 DEF Chat!Holding
<1>5. usage[t] = <<>> /\ calls[t] \in Nat
  BY <1>1, TurnsTyped DEF TurnIsSound, Sound, Chat!Holding
<1>6. Sound(r, calls[t], ran[t], trail[t], usage[t], live)
  BY <1>3, <1>5, RowsTyped DEF Sound, Early, Busy
<1> QED
  BY <1>2, <1>3, <1>4, <1>6, TurnOnlyMoves, Zenon

LEMMA Prepares ==
  ASSUME ChatInv, NEW t \in Turns, Chat!Prepare(t)
  PROVE  ChatInv'
<1>1. Chat!TypeOK /\ turn \in [Turns -> TurnRows] /\ turn[t] \in TurnRows /\ TurnIsSound(t) /\ live \in SUBSET Conversations
  BY TurnsTyped
<1>2. turn[t].at = "prepare" /\ turn[t].at \in Chat!Holding
  BY Zenon DEF Chat!Prepare, Chat!Holding
<1>3. turn[t].tokens = 0 /\ calls[t] = 0 /\ ran[t] = {} /\ usage[t] = <<>> /\ ~turn[t].flying /\ turn[t].pend = Chat!Nothing
  BY <1>1, <1>2 DEF TurnIsSound, Sound, Early
<1>4. ASSUME Chat!Raise(t) PROVE ChatInv'
  BY <1>2, <1>3, <1>4, Raises
<1>5. ASSUME NEW c \in Conversations, Chat!Opens(c),
             turn' = [turn EXCEPT ![t] = [@ EXCEPT !.at = "call", !.conv = c,
                        !.history = Append(Chat!History(c), "user"), !.pend.said = <<"user">>]],
             UNCHANGED <<inflight, Chat!tables, Chat!record>>
      PROVE  ChatInv'
  <2> DEFINE h == Append(Chat!History(c), "user")
             r == [turn[t] EXCEPT !.at = "call", !.conv = c, !.history = h, !.pend.said = <<"user">>]
  <2>1. turn' = [turn EXCEPT ![t] = r]
    BY <1>1, <1>5
  <2>2. h \in Saying /\ h[1] = "user"
    BY <1>1, HistoryFromUser
  <2> HIDE DEF h
  <2>3. <<"user">> \in Saying /\ "call" \in Chat!Stages /\ c \in Owners
    BY SequencesOfRows, RowsTyped
  <2>4. turn[t].pend \in Pends
    BY <1>1 DEF TurnRows
  <2>5. [turn[t].pend EXCEPT !.said = <<"user">>] \in Pends /\ [turn[t].pend EXCEPT !.said = <<"user">>].usage = <<>>
    BY <1>3, <2>3, <2>4, RowsTyped DEF Pends
  <2>6. /\ r \in TurnRows /\ r.at = "call" /\ r.conv = c /\ r.tokens = 0 /\ ~r.flying
        /\ r.pend.usage = <<>> /\ r.history = h
    BY <1>1, <1>3, <2>2, <2>3, <2>4, <2>5, Zenon DEF TurnRows
  <2> HIDE DEF r
  <2>7. r.at \in Chat!Holding
    BY <2>6 DEF Chat!Holding
  <2>8. Sound(r, calls[t], ran[t], trail[t], usage[t], live)
    BY <1>3, <2>2, <2>6 DEF Sound, Early, Busy
  <2>9. c \in live \/ \A u \in Turns : turn[u].conv # c
    BY <1>5 DEF Chat!Opens
  <2>10. inflight' = inflight /\ UNCHANGED <<Chat!tables, Chat!record>>
    BY <1>5
  <2> QED
    BY <1>2, <2>1, <2>6, <2>7, <2>8, <2>9, <2>10, TurnOnlyMoves, Zenon
<1> QED
  BY <1>4, <1>5, Zenon DEF Chat!Prepare

\* The transaction of a turn is committed.
LEMMA TransactionIsKept ==
  ASSUME ChatInv, NEW t \in Turns, turn[t].pend # Chat!Nothing, Chat!Keep(t)
  PROVE  /\ turn[t].conv \in Conversations /\ live' = live \cup {turn[t].conv}
         /\ messages' \in [Conversations -> Saying] /\ usage' \in [Turns -> Counts]
         /\ trail' \in [Turns -> SUBSET Tools]
         /\ usage'[t] = usage[t] \o turn[t].pend.usage /\ trail'[t] = trail[t] \cup turn[t].pend.tools
         /\ \A u \in Turns \ {t} : usage'[u] = usage[u] /\ trail'[u] = trail[u]
<1>1. /\ turn[t] \in TurnRows /\ TurnIsSound(t) /\ usage \in [Turns -> Counts] /\ trail \in [Turns -> SUBSET Tools]
      /\ messages \in [Conversations -> Saying]
  BY TurnsTyped
<1>2. turn[t].conv \in Conversations
  BY <1>1 DEF TurnIsSound, Sound, Busy
<1>3. turn[t].pend.said \in Saying /\ turn[t].pend.tools \in SUBSET Tools /\ turn[t].pend.usage \in Counts
  BY <1>1 DEF TurnRows, Pends
<1>4. /\ live' = live \cup {turn[t].conv}
      /\ messages' = [messages EXCEPT ![turn[t].conv] = messages[turn[t].conv] \o turn[t].pend.said]
      /\ trail' = [trail EXCEPT ![t] = trail[t] \cup turn[t].pend.tools]
      /\ usage' = [usage EXCEPT ![t] = usage[t] \o turn[t].pend.usage]
  BY DEF Chat!Keep
<1>5. messages[turn[t].conv] \o turn[t].pend.said \in Saying /\ usage[t] \o turn[t].pend.usage \in Counts
  BY <1>1, <1>2, <1>3, SequencesOfRows, Zenon
<1>6. trail[t] \cup turn[t].pend.tools \in SUBSET Tools
  BY <1>1, <1>3
<1>7. messages' \in [Conversations -> Saying]
  BY <1>1, <1>2, <1>4, <1>5
<1>8. usage' \in [Turns -> Counts] /\ trail' \in [Turns -> SUBSET Tools]
  BY <1>1, <1>4, <1>5, <1>6
<1>9. usage'[t] = usage[t] \o turn[t].pend.usage /\ \A u \in Turns \ {t} : usage'[u] = usage[u]
  BY <1>1, <1>4
<1>10. trail'[t] = trail[t] \cup turn[t].pend.tools /\ \A u \in Turns \ {t} : trail'[u] = trail[u]
  BY <1>1, <1>4
<1>11. live' = live \cup {turn[t].conv}
  BY <1>4
<1>12. \A u \in Turns \ {t} : usage'[u] = usage[u] /\ trail'[u] = trail[u]
  BY <1>9, <1>10
<1> QED
  BY <1>2, <1>7, <1>8, <1>9, <1>10, <1>11, <1>12

LEMMA Calls ==
  ASSUME ChatInv, NEW t \in Turns, Chat!Call(t)
  PROVE  ChatInv'
<1>1. /\ turn \in [Turns -> TurnRows] /\ turn[t] \in TurnRows /\ TurnIsSound(t)
      /\ usage \in [Turns -> Counts] /\ trail \in [Turns -> SUBSET Tools] /\ calls \in [Turns -> Nat]
      /\ ran \in [Turns -> SUBSET Tools] /\ messages \in [Conversations -> Saying]
  BY TurnsTyped
<1> DEFINE r == [turn[t] EXCEPT !.at = "waiting", !.pend = Chat!Nothing, !.spoke = FALSE, !.flying = TRUE]
<1>2. /\ turn[t].at = "call" /\ turn' = [turn EXCEPT ![t] = r] /\ calls' = [calls EXCEPT ![t] = calls[t] + 1]
      /\ limit' = limit /\ inflight' = inflight /\ ran' = ran
  BY <1>1 DEF Chat!Call
<1>3. /\ r \in TurnRows /\ r.at = "waiting" /\ r.conv = turn[t].conv /\ r.tokens = turn[t].tokens
      /\ r.pend = Chat!Nothing /\ r.history = turn[t].history /\ r.flying
  BY <1>1, RowsTyped, Zenon DEF TurnRows
<1> HIDE DEF r
<1>4. /\ turn[t].pend.usage = <<>> /\ usage[t] = <<>> /\ turn[t].tokens = calls[t] /\ turn[t].conv \in Conversations
      /\ turn[t].conv \in live \/ turn[t].pend # Chat!Nothing => ran[t] \subseteq trail[t] \cup turn[t].pend.tools
      /\ turn[t].history # <<>> => turn[t].history[1] = "user"
  BY <1>1, <1>2 DEF TurnIsSound, Sound, Busy
<1>5. calls' \in [Turns -> Nat] /\ calls'[t] = calls[t] + 1 /\ \A u \in Turns \ {t} : calls'[u] = calls[u]
  BY <1>1, <1>2
<1>6. /\ messages' \in [Conversations -> Saying] /\ usage' \in [Turns -> Counts] /\ trail' \in [Turns -> SUBSET Tools]
      /\ \A u \in Turns \ {t} : usage'[u] = usage[u] /\ trail'[u] = trail[u]
      /\ \/ live' = live
         \/ turn[t].pend # Chat!Nothing /\ turn[t].conv \in Conversations /\ live' = live \cup {turn[t].conv}
      /\ usage'[t] = <<>>
      /\ turn[t].conv \in live' => ran[t] \subseteq trail'[t]
  <2>1. CASE turn[t].pend = Chat!Nothing
    <3>1. live' = live /\ messages' = messages /\ usage' = usage /\ trail' = trail
      BY <2>1 DEF Chat!Call, Chat!tables
    <3>2. turn[t].conv \in live' => ran[t] \subseteq trail'[t]
      BY <1>4, <2>1, <3>1, RowsTyped
    <3> QED
      BY <1>1, <1>4, <3>1, <3>2
  <2>2. CASE turn[t].pend # Chat!Nothing
    <3>1. Chat!Keep(t)
      BY <2>2 DEF Chat!Call
    <3>2. /\ turn[t].conv \in Conversations /\ live' = live \cup {turn[t].conv}
          /\ messages' \in [Conversations -> Saying] /\ usage' \in [Turns -> Counts]
          /\ trail' \in [Turns -> SUBSET Tools]
          /\ usage'[t] = usage[t] \o turn[t].pend.usage /\ trail'[t] = trail[t] \cup turn[t].pend.tools
          /\ \A u \in Turns \ {t} : usage'[u] = usage[u] /\ trail'[u] = trail[u]
      BY <2>2, <3>1, TransactionIsKept, Zenon
    <3>3. usage'[t] = <<>>
      BY <1>4, <3>2
    <3>4. ran[t] \subseteq trail'[t]
      BY <1>4, <2>2, <3>2
    <3> QED
      BY <2>2, <3>2, <3>3, <3>4
  <2> QED
    BY <2>1, <2>2
<1>7. turn[t].at \in Chat!Holding /\ r.at \in Chat!Holding
  BY <1>2, <1>3 DEF Chat!Holding
<1>8. MovesTo(t, r)
  <2>1. ran' \in [Turns -> SUBSET Tools] /\ \A u \in Turns \ {t} : ran'[u] = ran[u]
    BY <1>1, <1>2
  <2> QED
    BY <1>2, <1>3, <1>5, <1>6, <1>7, <2>1 DEF MovesTo
<1>9. Sound(r, calls'[t], ran'[t], trail'[t], usage'[t], live')
  BY <1>2, <1>3, <1>4, <1>5, <1>6, RowsTyped DEF Sound, Early, Busy
<1> QED
  BY <1>8, <1>9, OneTurnMoves

\* Steps of a turn while the model is asked: nothing it is charged by changes.
LEMMA Waits ==
  ASSUME ChatInv, NEW t \in Turns, Chat!Delta(t) \/ Chat!Overloaded(t)
  PROVE  ChatInv'
<1>1. turn \in [Turns -> TurnRows] /\ turn[t] \in TurnRows /\ TurnIsSound(t)
  BY TurnsTyped
<1>2. turn[t].at = "waiting" /\ inflight' = inflight /\ UNCHANGED <<Chat!tables, Chat!record>>
  BY DEF Chat!Delta, Chat!Overloaded
<1>3. PICK r \in TurnRows :
        /\ turn' = [turn EXCEPT ![t] = r] /\ r.round = turn[t].round
        /\ \A f \in {"at", "stream", "conv", "tokens", "pend", "history", "flying", "fault"} : r[f] = turn[t][f]
  <2>1. CASE Chat!Delta(t)
    <3> DEFINE r == [turn[t] EXCEPT !.spoke = TRUE]
    <3>1. turn' = [turn EXCEPT ![t] = r]
      BY <1>1, <2>1 DEF Chat!Delta
    <3>2. /\ r \in TurnRows /\ r.round = turn[t].round
          /\ \A f \in {"at", "stream", "conv", "tokens", "pend", "history", "flying", "fault"} : r[f] = turn[t][f]
      BY <1>1, Zenon DEF TurnRows
    <3> HIDE DEF r
    <3> QED
      BY <3>1, <3>2, Zenon
  <2>2. CASE Chat!Overloaded(t)
    <3> DEFINE r == [turn[t] EXCEPT !.fell = TRUE]
    <3>1. turn' = [turn EXCEPT ![t] = r]
      BY <1>1, <2>2 DEF Chat!Overloaded
    <3>2. /\ r \in TurnRows /\ r.round = turn[t].round
          /\ \A f \in {"at", "stream", "conv", "tokens", "pend", "history", "flying", "fault"} : r[f] = turn[t][f]
      BY <1>1, Zenon DEF TurnRows
    <3> HIDE DEF r
    <3> QED
      BY <3>1, <3>2, Zenon
  <2> QED
    BY <2>1, <2>2
<1>4. /\ r.at = turn[t].at /\ r.stream = turn[t].stream /\ r.conv = turn[t].conv /\ r.tokens = turn[t].tokens
      /\ r.pend = turn[t].pend /\ r.history = turn[t].history /\ r.flying = turn[t].flying /\ r.fault = turn[t].fault
  BY <1>3, Zenon
<1>5. Sound(r, calls[t], ran[t], trail[t], usage[t], live)
  BY <1>1, <1>3, <1>4 DEF TurnIsSound, Sound
<1>6. turn[t].pend = Chat!Nothing
  BY <1>1, <1>2 DEF TurnIsSound, Sound
<1> QED
  BY <1>2, <1>3, <1>4, <1>5, <1>6, TurnOnlyMoves, Zenon

LEMMA Answers ==
  ASSUME ChatInv, NEW t \in Turns, Chat!Answer(t)
  PROVE  ChatInv'
<1>1. turn \in [Turns -> TurnRows] /\ turn[t] \in TurnRows /\ TurnIsSound(t) /\ calls \in [Turns -> Nat]
  BY TurnsTyped
<1>2. turn[t].at = "waiting" /\ inflight' = inflight /\ UNCHANGED <<Chat!tables, Chat!record>>
  BY Zenon DEF Chat!Answer
<1>3. turn[t].tokens \in Nat /\ turn[t].tokens + 1 \in Nat
  BY <1>1 DEF TurnRows
<1>4. /\ turn[t].pend = Chat!Nothing /\ turn[t].tokens + 1 = calls[t] /\ usage[t] = <<>> /\ turn[t].conv \in Conversations
      /\ turn[t].conv \in live => ran[t] \subseteq trail[t] \cup turn[t].pend.tools
      /\ turn[t].history # <<>> => turn[t].history[1] = "user"
  BY <1>1, <1>2 DEF TurnIsSound, Sound, Busy
<1>5. ASSUME NEW r \in TurnRows, turn' = [turn EXCEPT ![t] = r],
             (r.at = "tools" /\ r.round <= MaxRounds /\ r.history = turn[t].history) \/ (r.at = "write" /\ r.history = <<>>),
             r.conv = turn[t].conv, r.tokens = turn[t].tokens + 1, r.pend = turn[t].pend, ~r.flying
      PROVE  ChatInv'
  <2>1. turn[t].at \in Chat!Holding /\ r.at \in Chat!Holding
    BY <1>2, <1>5 DEF Chat!Holding
  <2>2. Sound(r, calls[t], ran[t], trail[t], usage[t], live)
    BY <1>4, <1>5, RowsTyped DEF Sound, Early, Busy
  <2> QED
    BY <1>2, <1>4, <1>5, <2>1, <2>2, TurnOnlyMoves, Zenon
<1>6. ASSUME turn[t].round <= MaxRounds, NEW want \in SUBSET Tools,
             turn' = [turn EXCEPT ![t] = [turn[t] EXCEPT !.at = "tools", !.want = want, !.tokens = @ + 1, !.flying = FALSE]]
      PROVE  ChatInv'
  <2> DEFINE r == [turn[t] EXCEPT !.at = "tools", !.want = want, !.tokens = @ + 1, !.flying = FALSE]
  <2>1. turn' = [turn EXCEPT ![t] = r]
    BY <1>6
  <2>2. /\ r \in TurnRows /\ r.at = "tools" /\ r.round = turn[t].round /\ r.history = turn[t].history
        /\ r.conv = turn[t].conv /\ r.tokens = turn[t].tokens + 1 /\ r.pend = turn[t].pend /\ ~r.flying
    <3>1. "tools" \in Chat!Stages
      BY RowsTyped
    <3> QED
      BY <1>1, <1>3, <3>1, Zenon DEF TurnRows
  <2> HIDE DEF r
  <2> QED
    BY <1>5, <1>6, <2>1, <2>2, Zenon
<1>7. ASSUME turn' = [turn EXCEPT ![t] = [Chat!Left(turn[t]) EXCEPT !.at = "write", !.tokens = @ + 1]]
      PROVE  ChatInv'
  <2> DEFINE l == Chat!Left(turn[t])
             r == [l EXCEPT !.at = "write", !.tokens = @ + 1]
  <2>1. /\ l \in TurnRows /\ \A f \in {"at", "stream", "conv", "tokens", "pend", "fault"} : l[f] = turn[t][f]
        /\ l.history = <<>> /\ ~l.flying
    BY <1>1, LeftIs
  <2>2. l.conv = turn[t].conv /\ l.tokens = turn[t].tokens /\ l.pend = turn[t].pend
    BY <2>1, Zenon
  <2>3. turn' = [turn EXCEPT ![t] = r]
    BY <1>7
  <2> HIDE DEF l
  <2>4. /\ r \in TurnRows /\ r.at = "write" /\ r.history = <<>> /\ r.conv = turn[t].conv
        /\ r.tokens = turn[t].tokens + 1 /\ r.pend = turn[t].pend /\ ~r.flying
    <3>1. l.tokens + 1 \in Nat /\ "write" \in Chat!Stages
      BY <1>3, <2>2, RowsTyped
    <3> QED
      BY <2>1, <2>2, <3>1, Zenon DEF TurnRows
  <2> HIDE DEF r
  <2> QED
    BY <1>5, <2>3, <2>4, Zenon
<1> QED
  BY <1>6, <1>7, Zenon DEF Chat!Answer

\* A turn that fails while it is charged: cut short if it streams, else rolled back.
LEMMA Aborts ==
  ASSUME ChatInv, NEW t \in Turns, turn[t].at \in {"call", "waiting", "tools"}, Chat!Abort(t)
  PROVE  ChatInv'
<1>1. turn \in [Turns -> TurnRows] /\ turn[t] \in TurnRows /\ TurnIsSound(t) /\ calls \in [Turns -> Nat]
  BY TurnsTyped
<1>2. turn[t].at \in Chat!Holding
  BY DEF Chat!Holding
<1>3. CASE ~turn[t].stream
  <2>1. Chat!Raise(t)
    BY <1>3 DEF Chat!Abort
  <2> QED
    BY <1>2, <1>3, <2>1, Raises
<1>4. CASE turn[t].stream
  <2> DEFINE l == Chat!Left(turn[t])
             r == [l EXCEPT !.at = "cut", !.flying = turn[t].flying]
  <2>1. /\ l \in TurnRows /\ \A f \in {"at", "stream", "conv", "tokens", "pend", "fault"} : l[f] = turn[t][f]
        /\ l.history = <<>>
    BY <1>1, LeftIs
  <2>2. l.conv = turn[t].conv /\ l.tokens = turn[t].tokens /\ l.pend = turn[t].pend
    BY <2>1, Zenon
  <2>3. turn' = [turn EXCEPT ![t] = r] /\ inflight' = inflight /\ UNCHANGED <<Chat!tables, Chat!record>>
    BY <1>4 DEF Chat!Abort
  <2> HIDE DEF l
  <2>4. /\ r \in TurnRows /\ r.at = "cut" /\ r.history = <<>> /\ r.conv = turn[t].conv
        /\ r.tokens = turn[t].tokens /\ r.pend = turn[t].pend /\ r.flying = turn[t].flying
    <3>1. turn[t].flying \in BOOLEAN /\ "cut" \in Chat!Stages
      BY <1>1, RowsTyped DEF TurnRows
    <3> QED
      BY <2>1, <2>2, <3>1, Zenon DEF TurnRows
  <2> HIDE DEF r
  <2>5. r.at \in Chat!Holding
    BY <2>4 DEF Chat!Holding
  <2>6. /\ turn[t].pend.usage = <<>> /\ usage[t] = <<>> /\ turn[t].conv \in Conversations
        /\ calls[t] = IF turn[t].flying THEN turn[t].tokens + 1 ELSE turn[t].tokens
    BY <1>1 DEF TurnIsSound, Sound, Busy
  <2>7. Sound(r, calls[t], ran[t], trail[t], usage[t], live)
    BY <2>4, <2>6 DEF Sound, Early, Busy
  <2>8. r.pend = Chat!Nothing \/ (turn[t].pend # Chat!Nothing /\ r.conv = turn[t].conv)
    BY <2>4
  <2> QED
    BY <1>2, <2>3, <2>4, <2>5, <2>7, <2>8, TurnOnlyMoves, Zenon
<1> QED
  BY <1>3, <1>4

LEMMA ModelFails ==
  ASSUME ChatInv, NEW t \in Turns, Chat!Fails(t)
  PROVE  ChatInv'
BY Aborts DEF Chat!Fails

LEMMA ToolsRun ==
  ASSUME ChatInv, NEW t \in Turns, Chat!RunTool(t)
  PROVE  ChatInv'
<1>1. /\ turn \in [Turns -> TurnRows] /\ turn[t] \in TurnRows /\ TurnIsSound(t) /\ calls \in [Turns -> Nat]
      /\ ran \in [Turns -> SUBSET Tools] /\ usage \in [Turns -> Counts] /\ trail \in [Turns -> SUBSET Tools]
      /\ messages \in [Conversations -> Saying]
  BY TurnsTyped
<1>2. turn[t].at = "tools"
  BY DEF Chat!RunTool
<1>3. CASE ~Chat!Writable(t)
  BY <1>2, <1>3, Aborts DEF Chat!RunTool
<1>4. CASE Chat!Writable(t)
  <2>1. PICK x \in turn[t].want : Chat!Tool(t, x)
    BY <1>4 DEF Chat!RunTool
  <2>2. /\ limit' = limit /\ inflight' = inflight /\ calls' = calls /\ live' = live /\ messages' = messages
        /\ usage' = usage /\ trail' = trail
    BY <1>4 DEF Chat!RunTool, Chat!tables
  <2> DEFINE w == turn[t].want \ {x}
             d == turn[t].pend.tools \cup {x}
             r == [turn[t] EXCEPT !.want = w, !.pend.tools = d]
  <2>3. turn' = [turn EXCEPT ![t] = r]
    BY <2>1 DEF Chat!Tool
  <2>4. w \in SUBSET Tools /\ d \in SUBSET Tools /\ turn[t].pend \in Pends
    <3>1. turn[t].want \in SUBSET Tools /\ turn[t].pend \in Pends
      BY <1>1 DEF TurnRows
    <3>2. turn[t].pend.tools \in SUBSET Tools
      BY <3>1 DEF Pends
    <3>3. w \in SUBSET Tools
      BY <3>1
    <3>4. d \in SUBSET Tools
      BY <2>1, <3>1, <3>2
    <3> QED
      BY <3>1, <3>3, <3>4
  <2> HIDE DEF w, d
  <2>5. [turn[t].pend EXCEPT !.tools = d] \in Pends /\ [turn[t].pend EXCEPT !.tools = d].tools = d
        /\ [turn[t].pend EXCEPT !.tools = d].usage = turn[t].pend.usage
    BY <2>4 DEF Pends
  <2>6. /\ r \in TurnRows /\ r.at = "tools" /\ r.conv = turn[t].conv /\ r.tokens = turn[t].tokens
        /\ r.round = turn[t].round /\ r.history = turn[t].history /\ r.flying = turn[t].flying
        /\ r.pend.tools = d /\ r.pend.usage = turn[t].pend.usage
    BY <1>1, <1>2, <2>4, <2>5, Zenon DEF TurnRows
  <2> HIDE DEF r
  <2>7. ran' \in [Turns -> SUBSET Tools] /\ ran'[t] \subseteq ran[t] \cup {x} /\ \A u \in Turns \ {t} : ran'[u] = ran[u]
    <3>1. ran[t] \cup {x} \in SUBSET Tools
      BY <1>1, <2>1 DEF TurnRows
    <3>2. ran' = ran \/ ran' = [ran EXCEPT ![t] = ran[t] \cup {x}]
      BY <2>1 DEF Chat!Tool
    <3> QED
      BY <1>1, <3>1, <3>2
  <2>8. ran[t] \subseteq trail[t] \cup turn[t].pend.tools
    BY <1>1, <1>2, <1>4 DEF TurnIsSound, Sound, Chat!Writable
  <2>9. ran'[t] \subseteq trail[t] \cup r.pend.tools
    BY <2>6, <2>7, <2>8 DEF d
  <2>10. /\ turn[t].conv \in Conversations /\ turn[t].pend.usage = <<>> /\ usage[t] = <<>> /\ ~turn[t].flying
         /\ turn[t].tokens = calls[t] /\ turn[t].round <= MaxRounds
         /\ turn[t].history # <<>> => turn[t].history[1] = "user"
    BY <1>1, <1>2 DEF TurnIsSound, Sound, Busy
  <2>11. Sound(r, calls'[t], ran'[t], trail'[t], usage'[t], live')
    BY <2>2, <2>6, <2>9, <2>10 DEF Sound, Early, Busy
  <2>12. MovesTo(t, r)
    <3>1. turn[t].at \in Chat!Holding /\ r.at \in Chat!Holding
      BY <1>2, <2>6 DEF Chat!Holding
    <3>2. \/ r.pend = Chat!Nothing \/ r.conv \in live
          \/ turn[t].pend # Chat!Nothing /\ r.conv = turn[t].conv
      BY <1>4, <2>6 DEF Chat!Writable
    <3> QED
      BY <1>1, <2>2, <2>3, <2>6, <2>7, <3>1, <3>2, Zenon DEF MovesTo
  <2> QED
    BY <2>11, <2>12, OneTurnMoves
<1> QED
  BY <1>3, <1>4

LEMMA RoundsGoOn ==
  ASSUME ChatInv, NEW t \in Turns, Chat!NextRound(t)
  PROVE  ChatInv'
<1>1. turn \in [Turns -> TurnRows] /\ turn[t] \in TurnRows /\ TurnIsSound(t) /\ calls \in [Turns -> Nat]
  BY TurnsTyped
<1>2. turn[t].at = "tools" /\ inflight' = inflight /\ UNCHANGED <<Chat!tables, Chat!record>>
  BY DEF Chat!NextRound
<1> DEFINE n == turn[t].round + 1
           r == [turn[t] EXCEPT !.at = "call", !.round = n]
<1>3. turn' = [turn EXCEPT ![t] = r]
  BY <1>1, Zenon DEF Chat!NextRound
<1>4. n \in Rounds /\ "call" \in Chat!Stages
  <2>1. turn[t].round \in Rounds /\ turn[t].round <= MaxRounds
    BY <1>1, <1>2 DEF TurnIsSound, Sound, TurnRows
  <2> QED
    BY <2>1, RowsTyped
<1> HIDE DEF n
<1>5. /\ r \in TurnRows /\ r.at = "call" /\ r.conv = turn[t].conv /\ r.tokens = turn[t].tokens
      /\ r.history = turn[t].history /\ r.flying = turn[t].flying /\ r.pend = turn[t].pend
  BY <1>1, <1>4, Zenon DEF TurnRows
<1> HIDE DEF r
<1>6. Sound(r, calls[t], ran[t], trail[t], usage[t], live)
  BY <1>1, <1>2, <1>5 DEF TurnIsSound, Sound, Early, Busy
<1>7. turn[t].at \in Chat!Holding /\ r.at \in Chat!Holding
  BY <1>2, <1>5 DEF Chat!Holding
<1>8. r.pend = Chat!Nothing \/ (turn[t].pend # Chat!Nothing /\ r.conv = turn[t].conv)
  BY <1>5
<1> QED
  BY <1>2, <1>3, <1>5, <1>6, <1>7, <1>8, TurnOnlyMoves, Zenon

LEMMA AnswersAreWritten ==
  ASSUME ChatInv, NEW t \in Turns, Chat!Write(t)
  PROVE  ChatInv'
<1>1. turn \in [Turns -> TurnRows] /\ turn[t] \in TurnRows /\ TurnIsSound(t) /\ calls \in [Turns -> Nat]
  BY TurnsTyped
<1>2. turn[t].at = "write" /\ turn[t].at \in Chat!Holding
  BY DEF Chat!Write, Chat!Holding
<1>3. CASE ~Chat!Writable(t)
  <2>1. Chat!Raise(t) /\ turn[t].conv \notin live
    BY <1>3 DEF Chat!Write, Chat!Writable
  <2> QED
    BY <1>2, <2>1, Raises
<1>4. CASE Chat!Writable(t)
  <2> DEFINE s == Append(turn[t].pend.said, "assistant")
             n == turn[t].tokens
             r == [turn[t] EXCEPT !.at = "commit", !.pend.said = s, !.pend.usage = <<n>>]
  <2>1. turn' = [turn EXCEPT ![t] = r] /\ inflight' = inflight - 1 /\ UNCHANGED <<Chat!tables, Chat!record>>
    BY <1>4 DEF Chat!Write, Chat!EndTurn
  <2>2. s \in Saying /\ n \in Nat /\ <<n>> \in Counts /\ turn[t].pend \in Pends /\ "commit" \in Chat!Stages
    <3>1. turn[t].pend \in Pends /\ n \in Nat
      BY <1>1 DEF TurnRows
    <3>2. turn[t].pend.said \in Saying
      BY <3>1 DEF Pends
    <3> QED
      BY <3>1, <3>2, SequencesOfRows, RowsTyped DEF Voices
  <2> HIDE DEF s
  <2>3. /\ [turn[t].pend EXCEPT !.said = s, !.usage = <<n>>] \in Pends
        /\ [turn[t].pend EXCEPT !.said = s, !.usage = <<n>>].usage = <<n>>
        /\ [turn[t].pend EXCEPT !.said = s, !.usage = <<n>>].tools = turn[t].pend.tools
    BY <2>2, Zenon DEF Pends
  <2>4. /\ r \in TurnRows /\ r.at = "commit" /\ r.conv = turn[t].conv /\ r.history = turn[t].history
        /\ r.pend.usage = <<n>>
    BY <1>1, <2>2, <2>3, Zenon DEF TurnRows
  <2> HIDE DEF r
  <2>5. /\ turn[t].conv \in Conversations /\ usage[t] = <<>> /\ n = calls[t]
        /\ turn[t].history # <<>> => turn[t].history[1] = "user"
    BY <1>1, <1>2 DEF TurnIsSound, Sound, Busy
  <2>6. <<n>> # <<>>
    OBVIOUS
  <2>7. Sound(r, calls[t], ran[t], trail[t], usage[t], live)
    BY <2>4, <2>5, <2>6 DEF Sound, Early, Busy
  <2>8. r.at \notin Chat!Holding
    BY <2>4 DEF Chat!Holding
  <2>9. r.conv \in live \/ (turn[t].pend # Chat!Nothing /\ r.conv = turn[t].conv)
    BY <1>4, <2>4 DEF Chat!Writable
  <2> QED
    BY <1>2, <2>1, <2>4, <2>7, <2>8, <2>9, TurnOnlyMoves, Zenon
<1> QED
  BY <1>3, <1>4

LEMMA Commits ==
  ASSUME ChatInv, NEW t \in Turns, Chat!Commit(t)
  PROVE  ChatInv'
<1>1. /\ turn \in [Turns -> TurnRows] /\ turn[t] \in TurnRows /\ TurnIsSound(t) /\ calls \in [Turns -> Nat]
      /\ ran \in [Turns -> SUBSET Tools] /\ usage \in [Turns -> Counts] /\ trail \in [Turns -> SUBSET Tools]
      /\ messages \in [Conversations -> Saying]
  BY TurnsTyped
<1>2. turn[t].at = "commit" /\ inflight' = inflight /\ limit' = limit /\ calls' = calls /\ ran' = ran
  BY DEF Chat!Commit, Chat!record
<1>3. turn[t].at \notin Chat!Holding
  BY <1>2 DEF Chat!Holding
<1>4. /\ turn[t].conv \in Conversations
      /\ turn[t].pend.usage # <<>> => usage[t] = <<>> /\ turn[t].pend.usage = <<calls[t]>>
      /\ usage[t] # <<>> => usage[t] = <<calls[t]>>
      /\ turn[t].pend.usage = <<>> /\ ~turn[t].fault /\ (turn[t].conv \in live \/ turn[t].pend # Chat!Nothing)
           => usage[t] = <<calls[t]>>
  BY <1>1, <1>2 DEF TurnIsSound, Sound, Busy
<1>5. ASSUME IF turn[t].pend = Chat!Nothing THEN UNCHANGED Chat!tables ELSE Chat!Keep(t),
             turn' = [turn EXCEPT ![t] = Chat!Over(@)]
      PROVE  ChatInv'
  <2> DEFINE r == Chat!Over(turn[t])
  <2>1. turn' = [turn EXCEPT ![t] = r]
    BY <1>5
  <2>2. /\ r \in TurnRows /\ r.at = "gone" /\ r.stream = turn[t].stream /\ r.conv = turn[t].conv
        /\ r.pend = Chat!Nothing /\ r.history = <<>> /\ r.fault = turn[t].fault
    BY <1>1, OverIs, Zenon
  <2> HIDE DEF r
  <2>3. r.at \notin Chat!Holding
    BY <2>2 DEF Chat!Holding
  <2>4. /\ messages' \in [Conversations -> Saying] /\ usage' \in [Turns -> Counts] /\ trail' \in [Turns -> SUBSET Tools]
        /\ \A u \in Turns \ {t} : usage'[u] = usage[u] /\ trail'[u] = trail[u]
        /\ \/ live' = live
           \/ turn[t].pend # Chat!Nothing /\ turn[t].conv \in Conversations /\ live' = live \cup {turn[t].conv}
        /\ usage'[t] # <<>> => usage'[t] = <<calls[t]>>
        /\ ~turn[t].fault /\ turn[t].conv \in live' => usage'[t] = <<calls[t]>>
    <3>1. CASE turn[t].pend = Chat!Nothing
      <4>1. live' = live /\ messages' = messages /\ usage' = usage /\ trail' = trail
        BY <1>5, <3>1 DEF Chat!tables
      <4> QED
        BY <1>1, <1>4, <3>1, <4>1, RowsTyped
    <3>2. CASE turn[t].pend # Chat!Nothing
      <4>1. /\ live' = live \cup {turn[t].conv}
            /\ messages' \in [Conversations -> Saying] /\ usage' \in [Turns -> Counts]
            /\ trail' \in [Turns -> SUBSET Tools]
            /\ usage'[t] = usage[t] \o turn[t].pend.usage
            /\ \A u \in Turns \ {t} : usage'[u] = usage[u] /\ trail'[u] = trail[u]
        BY <1>5, <3>2, TransactionIsKept, Zenon
      <4>2. CASE turn[t].pend.usage = <<>>
        <5>1. usage'[t] = usage[t]
          <6>1. usage[t] \in Seq(Nat)
            BY <1>1 DEF Counts
          <6> QED
            BY <4>1, <4>2, <6>1
        <5> QED
          BY <1>4, <3>2, <4>1, <4>2, <5>1
      <4>3. CASE turn[t].pend.usage # <<>>
        <5>1. usage'[t] = <<calls[t]>>
          <6>1. <<>> \o <<calls[t]>> = <<calls[t]>>
            <7>1. calls[t] \in Nat
              BY <1>1
            <7> QED
              BY <7>1
          <6> QED
            BY <1>4, <4>1, <4>3, <6>1, Zenon
        <5> QED
          BY <1>4, <3>2, <4>1, <5>1
      <4> QED
        BY <4>2, <4>3
    <3> QED
      BY <3>1, <3>2
  <2>5. Sound(r, calls'[t], ran'[t], trail'[t], usage'[t], live')
    BY <1>2, <2>2, <2>4, RowsTyped DEF Sound, Early, Busy
  <2>6. MovesTo(t, r)
    BY <1>1, <1>2, <1>3, <2>1, <2>2, <2>3, <2>4, Zenon DEF MovesTo
  <2> QED
    BY <2>5, <2>6, OneTurnMoves
<1>6. ASSUME turn' = [turn EXCEPT ![t] = [Chat!Over(turn[t]) EXCEPT !.fault = @ \/ turn[t].pend.usage # <<>>]],
             UNCHANGED Chat!tables
      PROVE  ChatInv'
  <2> DEFINE o == Chat!Over(turn[t])
             f == o.fault \/ turn[t].pend.usage # <<>>
             r == [o EXCEPT !.fault = f]
  <2>1. turn' = [turn EXCEPT ![t] = r]
    BY <1>6
  <2>2. /\ o \in TurnRows /\ o.at = "gone" /\ o.stream = turn[t].stream /\ o.conv = turn[t].conv
        /\ o.pend = Chat!Nothing /\ o.history = <<>> /\ o.fault = turn[t].fault
    BY <1>1, OverIs, Zenon
  <2> HIDE DEF o
  <2>3. f \in BOOLEAN /\ (~f => ~turn[t].fault /\ turn[t].pend.usage = <<>>)
    BY <2>2
  <2> HIDE DEF f
  <2>4. /\ r \in TurnRows /\ r.at = "gone" /\ r.stream = turn[t].stream /\ r.conv = turn[t].conv
        /\ r.pend = Chat!Nothing /\ r.history = <<>> /\ r.fault = f
    BY <2>2, <2>3 DEF TurnRows
  <2> HIDE DEF r
  <2>5. r.at \notin Chat!Holding
    BY <2>4 DEF Chat!Holding
  <2>6. Sound(r, calls[t], ran[t], trail[t], usage[t], live)
    BY <1>4, <2>3, <2>4, RowsTyped DEF Sound, Early, Busy
  <2>7. UNCHANGED <<Chat!tables, Chat!record>>
    BY <1>2, <1>6 DEF Chat!record
  <2> QED
    BY <1>2, <1>3, <2>1, <2>4, <2>5, <2>6, <2>7, TurnOnlyMoves, Zenon
<1> QED
  BY <1>5, <1>6 DEF Chat!Commit

LEMMA Disconnects ==
  ASSUME ChatInv, NEW t \in Turns, Chat!Disconnect(t)
  PROVE  ChatInv'
<1>1. turn \in [Turns -> TurnRows] /\ turn[t] \in TurnRows /\ TurnIsSound(t) /\ calls \in [Turns -> Nat]
  BY TurnsTyped
<1>2. CASE turn[t].at \in {"call", "waiting", "tools"} /\ Chat!Abort(t)
  BY <1>2, Aborts
<1>3. CASE turn[t].at = "prepare" /\ Chat!Raise(t)
  <2>1. turn[t].at \in Chat!Holding /\ calls[t] = 0
    BY <1>1, <1>3 DEF Chat!Holding, TurnIsSound, Sound, Early
  <2> QED
    BY <1>3, <2>1, Raises
<1>4. CASE /\ turn[t].at = "write"
           /\ turn' = [turn EXCEPT ![t] = [@ EXCEPT !.at = "commit", !.fault = TRUE]]
           /\ Chat!EndTurn /\ UNCHANGED <<Chat!tables, Chat!record>>
  <2> DEFINE r == [turn[t] EXCEPT !.at = "commit", !.fault = TRUE]
  <2>1. turn' = [turn EXCEPT ![t] = r] /\ inflight' = inflight - 1 /\ UNCHANGED <<Chat!tables, Chat!record>>
    BY <1>4 DEF Chat!EndTurn
  <2>2. /\ r \in TurnRows /\ r.at = "commit" /\ r.conv = turn[t].conv /\ r.history = turn[t].history
        /\ r.pend = turn[t].pend /\ r.fault
    BY <1>1, RowsTyped, Zenon DEF TurnRows
  <2> HIDE DEF r
  <2>3. turn[t].at \in Chat!Holding /\ r.at \notin Chat!Holding
    BY <1>4, <2>2 DEF Chat!Holding
  <2>4. Sound(r, calls[t], ran[t], trail[t], usage[t], live)
    BY <1>1, <1>4, <2>2 DEF TurnIsSound, Sound, Early, Busy
  <2>5. r.pend = Chat!Nothing \/ (turn[t].pend # Chat!Nothing /\ r.conv = turn[t].conv)
    BY <2>2
  <2> QED
    BY <2>1, <2>2, <2>3, <2>4, <2>5, TurnOnlyMoves, Zenon
<1> QED
  BY <1>2, <1>3, <1>4 DEF Chat!Disconnect

LEMMA CutsAreRecorded ==
  ASSUME ChatInv, NEW t \in Turns, Chat!RecordCut(t)
  PROVE  ChatInv'
<1>1. /\ turn \in [Turns -> TurnRows] /\ turn[t] \in TurnRows /\ TurnIsSound(t) /\ calls \in [Turns -> Nat]
      /\ ran \in [Turns -> SUBSET Tools] /\ usage \in [Turns -> Counts] /\ trail \in [Turns -> SUBSET Tools]
      /\ messages \in [Conversations -> Saying]
  BY TurnsTyped
<1>2. turn[t].at = "cut" /\ inflight' = inflight - 1 /\ UNCHANGED Chat!record
  BY DEF Chat!RecordCut, Chat!EndTurn
<1>3. /\ turn[t].conv \in Conversations /\ usage[t] = <<>> /\ turn[t].pend.usage = <<>>
      /\ calls[t] = IF turn[t].flying THEN turn[t].tokens + 1 ELSE turn[t].tokens
      /\ turn[t].history # <<>> => turn[t].history[1] = "user"
  BY <1>1, <1>2 DEF TurnIsSound, Sound, Busy
<1>4. turn[t].at \in Chat!Holding
  BY <1>2 DEF Chat!Holding
<1>5. ASSUME turn[t].conv \in live,
             usage' = [usage EXCEPT ![t] = Append(@, turn[t].tokens + (IF turn[t].flying THEN 1 ELSE 0))],
             messages' = [messages EXCEPT ![turn[t].conv] = Append(@, "assistant")],
             turn' = [turn EXCEPT ![t] = [@ EXCEPT !.at = "commit", !.flying = FALSE]],
             UNCHANGED <<live, trail>>
      PROVE  ChatInv'
  <2> DEFINE r == [turn[t] EXCEPT !.at = "commit", !.flying = FALSE]
  <2>1. turn' = [turn EXCEPT ![t] = r]
    BY <1>5
  <2>2. /\ r \in TurnRows /\ r.at = "commit" /\ r.conv = turn[t].conv /\ r.history = turn[t].history
        /\ r.pend = turn[t].pend /\ ~r.flying
    BY <1>1, RowsTyped, Zenon DEF TurnRows
  <2> HIDE DEF r
  <2>3. turn[t].tokens + (IF turn[t].flying THEN 1 ELSE 0) = calls[t]
    <3>1. turn[t].tokens \in Nat
      BY <1>1 DEF TurnRows
    <3> QED
      BY <1>3, <3>1
  <2>4. usage' = [usage EXCEPT ![t] = Append(usage[t], calls[t])]
    BY <1>5, <2>3, Zenon
  <2>5. usage' = [usage EXCEPT ![t] = <<calls[t]>>] /\ calls[t] \in Nat /\ <<calls[t]>> \in Counts
    BY <1>1, <1>3, <2>4, SequencesOfRows
  <2>6. usage' \in [Turns -> Counts] /\ usage'[t] = <<calls[t]>> /\ \A u \in Turns \ {t} : usage'[u] = usage[u]
    BY <1>1, <2>5
  <2>7. messages' \in [Conversations -> Saying]
    <3>1. Append(messages[turn[t].conv], "assistant") \in Saying
      BY <1>1, <1>3, SequencesOfRows DEF Voices
    <3> QED
      BY <1>1, <1>5, <3>1, Zenon
  <2>8. limit' = limit /\ calls' = calls /\ ran' = ran /\ live' = live /\ trail' = trail
    BY <1>2, <1>5 DEF Chat!record
  <2>9. r.at \notin Chat!Holding
    BY <2>2 DEF Chat!Holding
  <2>10. MovesTo(t, r)
    BY <1>1, <1>2, <1>4, <1>5, <2>1, <2>2, <2>6, <2>7, <2>8, <2>9, Zenon DEF MovesTo
  <2>11. Sound(r, calls'[t], ran'[t], trail'[t], usage'[t], live')
    BY <1>3, <2>2, <2>6, <2>8 DEF Sound, Early, Busy
  <2> QED
    BY <2>10, <2>11, OneTurnMoves
<1>6. ASSUME turn' = [turn EXCEPT ![t] = [@ EXCEPT !.at = "commit", !.flying = FALSE, !.fault = TRUE]],
             UNCHANGED Chat!tables
      PROVE  ChatInv'
  <2> DEFINE r == [turn[t] EXCEPT !.at = "commit", !.flying = FALSE, !.fault = TRUE]
  <2>1. turn' = [turn EXCEPT ![t] = r] /\ UNCHANGED <<Chat!tables, Chat!record>>
    BY <1>2, <1>6
  <2>2. /\ r \in TurnRows /\ r.at = "commit" /\ r.conv = turn[t].conv /\ r.history = turn[t].history
        /\ r.pend = turn[t].pend /\ ~r.flying /\ r.fault
    BY <1>1, RowsTyped, Zenon DEF TurnRows
  <2> HIDE DEF r
  <2>3. r.at \notin Chat!Holding
    BY <2>2 DEF Chat!Holding
  <2>4. Sound(r, calls[t], ran[t], trail[t], usage[t], live)
    BY <1>3, <2>2 DEF Sound, Early, Busy
  <2>5. r.pend = Chat!Nothing \/ (turn[t].pend # Chat!Nothing /\ r.conv = turn[t].conv)
    BY <2>2
  <2> QED
    BY <1>2, <1>4, <2>1, <2>2, <2>3, <2>4, <2>5, TurnOnlyMoves, Zenon
<1> QED
  BY <1>5, <1>6 DEF Chat!RecordCut

LEMMA ConversationsGo ==
  ASSUME ChatInv, NEW c \in Conversations, Chat!DeleteConversation(c)
  PROVE  ChatInv'
<1>1. /\ turn \in [Turns -> TurnRows] /\ usage \in [Turns -> Counts] /\ trail \in [Turns -> SUBSET Tools]
      /\ messages \in [Conversations -> Saying] /\ live \in SUBSET Conversations
      /\ \A t \in Turns : TurnIsSound(t)
  BY ChatTypes DEF ChatInv
<1>2. /\ c \in live /\ live' = live \ {c} /\ turn' = turn /\ inflight' = inflight
      /\ limit' = limit /\ calls' = calls /\ ran' = ran
      /\ \A t \in Turns : turn[t].conv = c => turn[t].pend = Chat!Nothing
  BY DEF Chat!DeleteConversation, Chat!record
<1>3. /\ messages' = [messages EXCEPT ![c] = <<>>]
      /\ usage' = [t \in Turns |-> IF turn[t].conv = c THEN <<>> ELSE usage[t]]
      /\ trail' = [t \in Turns |-> IF turn[t].conv = c THEN {} ELSE trail[t]]
  BY DEF Chat!DeleteConversation
<1>4. Chat!TypeOK'
  <2>1. messages' \in [Conversations -> Saying]
    BY <1>1, <1>3, SequencesOfRows
  <2>2. usage' \in [Turns -> Counts]
    BY <1>1, <1>3, SequencesOfRows
  <2>3. trail' \in [Turns -> SUBSET Tools]
    BY <1>1, <1>3
  <2>4. live' \in SUBSET Conversations
    BY <1>1, <1>2
  <2>5. Chat!TypeOK
    BY DEF ChatInv
  <2> QED
    BY <1>2, <2>1, <2>2, <2>3, <2>4, <2>5 DEF Chat!TypeOK, TurnRows, Pends, Owners, Rounds, Saying, Voices, Counts
<1>5. Chat!ReservationsAreTurns' /\ Chat!BurstIsBounded'
  BY <1>2 DEF ChatInv, Chat!ReservationsAreTurns, Chat!BurstIsBounded
<1>6. ASSUME NEW t \in Turns PROVE TurnIsSound(t)'
  <2>1. TurnIsSound(t)
    BY <1>1
  <2>2. CASE turn[t].conv = c
    <3>1. usage'[t] = <<>> /\ turn[t].conv \notin live' /\ turn[t].pend = Chat!Nothing
      BY <1>2, <1>3, <2>2
    <3> QED
      BY <1>2, <2>1, <3>1, RowsTyped DEF TurnIsSound, Sound
  <2>3. CASE turn[t].conv # c
    <3>1. usage'[t] = usage[t] /\ trail'[t] = trail[t] /\ (turn[t].conv \in live' <=> turn[t].conv \in live)
      BY <1>2, <1>3, <2>3
    <3> QED
      BY <1>2, <2>1, <3>1 DEF TurnIsSound, Sound
  <2> QED
    BY <2>2, <2>3
<1>7. BegunAlone'
  <2>1. BegunAlone
    BY DEF ChatInv
  <2> QED
    BY <1>2, <2>1 DEF BegunAlone
<1> QED
  BY <1>4, <1>5, <1>6, <1>7 DEF ChatInv

LEMMA ChatCrashes ==
  ASSUME ChatInv, Chat!Crash
  PROVE  ChatInv'
<1>1. /\ turn \in [Turns -> TurnRows] /\ calls \in [Turns -> Nat] /\ \A t \in Turns : TurnIsSound(t)
  BY ChatTypes DEF ChatInv
<1> DEFINE dead(t) == [Chat!Over(turn[t]) EXCEPT !.fault = TRUE]
<1>2. inflight' = 0 /\ turn' = [t \in Turns |-> IF Chat!Running(t) THEN dead(t) ELSE turn[t]]
  BY DEF Chat!Crash
<1>3. /\ limit' = limit /\ live' = live /\ messages' = messages /\ usage' = usage
      /\ trail' = trail /\ calls' = calls /\ ran' = ran
  BY DEF Chat!Crash, Chat!tables, Chat!record
<1>4. ASSUME NEW t \in Turns
      PROVE  /\ dead(t) \in TurnRows /\ dead(t).at = "gone" /\ dead(t).stream = turn[t].stream
             /\ dead(t).conv = turn[t].conv /\ dead(t).pend = Chat!Nothing /\ dead(t).fault = TRUE
             /\ dead(t).history = <<>>
  <2>1. turn[t] \in TurnRows
    BY <1>1
  <2> QED
    BY <2>1, OverIs
<1> HIDE DEF dead
<1>5. turn' \in [Turns -> TurnRows]
  BY <1>1, <1>2, <1>4, Zenon
<1>6. Chat!TypeOK'
  <2>1. Chat!TypeOK
    BY DEF ChatInv
  <2> QED
    BY <1>2, <1>3, <1>5, <2>1, Zenon DEF Chat!TypeOK, TurnRows, Pends, Owners, Rounds, Saying, Voices, Counts
<1>7. \A t \in Turns : turn'[t].at \notin Chat!Holding
  <2> SUFFICES ASSUME NEW t \in Turns PROVE turn'[t].at \notin Chat!Holding
    OBVIOUS
  <2>1. CASE Chat!Running(t)
    BY <1>2, <1>4, <2>1, Zenon DEF Chat!Holding
  <2>2. CASE ~Chat!Running(t)
    BY <1>2, <2>2 DEF Chat!Holding, Chat!Running
  <2> QED
    BY <2>1, <2>2
<1>8. Chat!ReservationsAreTurns' /\ Chat!BurstIsBounded'
  <2>1. {t \in Turns : turn'[t].at \in Chat!Holding} = {}
    BY <1>7
  <2>2. Chat!Cardinality({}) = 0
    <3>1. Chat!Cardinality({}) = Cardinality({})
      BY DEF Chat!Cardinality, Cardinality
    <3> QED
      BY <3>1, FS_EmptySet
  <2>3. Chat!Cardinality({t \in Turns : turn'[t].at \in Chat!Holding}) = 0
    BY <2>1, <2>2, Zenon
  <2>4. Chat!ReservationsAreTurns'
    BY <1>2, <2>3 DEF Chat!ReservationsAreTurns
  <2> QED
    BY <1>2, <2>4 DEF Chat!BurstIsBounded
<1>9. ASSUME NEW t \in Turns PROVE TurnIsSound(t)'
  <2>1. TurnIsSound(t)
    BY <1>1
  <2>2. CASE Chat!Running(t)
    <3>1. turn'[t] = dead(t)
      BY <1>2, <2>2
    <3>2. usage[t] # <<>> => usage[t] = <<calls[t]>>
      BY <2>1 DEF TurnIsSound, Sound
    <3> QED
      BY <1>3, <1>4, <3>1, <3>2, RowsTyped, Zenon DEF TurnIsSound, Sound, Early, Busy
  <2>3. CASE ~Chat!Running(t)
    <3>1. turn'[t] = turn[t]
      BY <1>2, <2>3
    <3> QED
      BY <1>3, <2>1, <3>1 DEF TurnIsSound
  <2> QED
    BY <2>2, <2>3
<1>10. BegunAlone'
  <2>1. \A t \in Turns : turn'[t].conv = turn[t].conv
    BY <1>2, <1>4, Zenon
  <2>2. \A t \in Turns : turn'[t].pend # Chat!Nothing => turn[t].pend # Chat!Nothing
    BY <1>2, <1>4, Zenon
  <2>3. BegunAlone
    BY DEF ChatInv
  <2> QED
    BY <1>3, <2>1, <2>2, <2>3 DEF BegunAlone
<1> QED
  BY <1>6, <1>8, <1>9, <1>10 DEF ChatInv

LEMMA ChatStarts == Chat!Init => ChatInv
<1> SUFFICES ASSUME Chat!Init PROVE ChatInv
  OBVIOUS
<1>1. Chat!Blank \in TurnRows
  BY RowsTyped, SequencesOfRows DEF Chat!Blank, TurnRows
<1>2. /\ turn = [t \in Turns |-> Chat!Blank] /\ inflight = 0 /\ live = {} /\ limit \in Limits
      /\ messages = [c \in Conversations |-> <<>>] /\ usage = [t \in Turns |-> <<>>]
      /\ trail = [t \in Turns |-> {}] /\ calls = [t \in Turns |-> 0] /\ ran = [t \in Turns |-> {}]
  BY DEF Chat!Init
<1>3. /\ turn \in [Turns -> TurnRows] /\ \A t \in Turns : turn[t] = Chat!Blank
  BY <1>1, <1>2
<1>4. /\ Chat!Blank.at = "new" /\ Chat!Blank.tokens = 0 /\ ~Chat!Blank.flying /\ Chat!Blank.pend = Chat!Nothing
      /\ Chat!Blank.history = <<>>
  BY DEF Chat!Blank
<1>5. Chat!TypeOK
  BY <1>2, <1>3, ChatTypes, SequencesOfRows
<1>6. Chat!ReservationsAreTurns /\ Chat!BurstIsBounded
  <2>1. {t \in Turns : turn[t].at \in Chat!Holding} = {}
    BY <1>3, <1>4 DEF Chat!Holding
  <2>2. Chat!Cardinality({}) = 0
    <3>1. Chat!Cardinality({}) = Cardinality({})
      BY DEF Chat!Cardinality, Cardinality
    <3> QED
      BY <3>1, FS_EmptySet
  <2>3. Chat!Cardinality({t \in Turns : turn[t].at \in Chat!Holding}) = 0
    BY <2>1, <2>2, Zenon
  <2> QED
    BY <1>2, <2>3 DEF Chat!ReservationsAreTurns, Chat!BurstIsBounded
<1>7. ASSUME NEW t \in Turns PROVE TurnIsSound(t)
  BY <1>2, <1>3, <1>4, RowsTyped DEF TurnIsSound, Sound, Early, Busy
<1>8. BegunAlone
  BY <1>3, <1>4 DEF BegunAlone
<1> QED
  BY <1>5, <1>6, <1>7, <1>8 DEF ChatInv

LEMMA ChatGoesOn == ChatInv /\ [Chat!Next]_chatVars => ChatInv'
<1> SUFFICES ASSUME ChatInv, [Chat!Next]_chatVars PROVE ChatInv'
  OBVIOUS
<1>1. CASE UNCHANGED chatVars
  <2>1. /\ limit' = limit /\ turn' = turn /\ inflight' = inflight /\ live' = live /\ messages' = messages
        /\ usage' = usage /\ trail' = trail /\ calls' = calls /\ ran' = ran
    BY <1>1 DEF chatVars
  <2> QED
    BY <2>1 DEF ChatInv, Chat!TypeOK, Chat!ReservationsAreTurns, Chat!BurstIsBounded, TurnIsSound, BegunAlone
<1>2. ASSUME NEW t \in Turns,
             \/ Chat!Arrive(t) \/ Chat!ArriveStream(t) \/ Chat!Step(t) \/ Chat!Delta(t) \/ Chat!Overloaded(t)
             \/ Chat!Disconnect(t)
      PROVE  ChatInv'
  <2>1. CASE Chat!Arrive(t) \/ Chat!ArriveStream(t)
    BY <2>1, Arrives
  <2>2. CASE Chat!Delta(t) \/ Chat!Overloaded(t)
    BY <2>2, Waits
  <2>3. CASE Chat!Disconnect(t)
    BY <2>3, Disconnects
  <2>4. CASE Chat!Step(t)
    BY <2>4, Admits, Prepares, Calls, Answers, ModelFails, ToolsRun, RoundsGoOn, AnswersAreWritten,
       CutsAreRecorded, Commits DEF Chat!Step
  <2> QED
    BY <1>2, <2>1, <2>2, <2>3, <2>4
<1>3. ASSUME NEW c \in Conversations, Chat!DeleteConversation(c) PROVE ChatInv'
  BY <1>3, ConversationsGo
<1>4. CASE Chat!Crash
  BY <1>4, ChatCrashes
<1> QED
  BY <1>1, <1>2, <1>3, <1>4 DEF Chat!Next

\* What the run checks follows.
LEMMA SoundTurnsAreAccounted ==
  ChatInv => /\ Chat!TypeOK /\ Chat!ChargedOnce /\ Chat!ReservationsAreTurns /\ Chat!BurstIsBounded
             /\ Chat!TrailIsDurable /\ Chat!UserSpeaksFirst
<1> SUFFICES ASSUME ChatInv
             PROVE  Chat!ChargedOnce /\ Chat!TrailIsDurable /\ Chat!UserSpeaksFirst
  BY DEF ChatInv
<1>1. ASSUME NEW t \in Turns
      PROVE  /\ Len(usage[t]) <= 1 /\ Chat!Spent(t) <= calls[t]
             /\ (turn[t].at = "gone" /\ turn[t].stream /\ ~turn[t].fault /\ turn[t].conv \in live /\ calls[t] > 0
                  => Chat!Spent(t) = calls[t])
  <2>1. TurnIsSound(t) /\ calls[t] \in Nat
    BY TurnsTyped DEF ChatInv
  <2>2. CASE usage[t] = <<>>
    <3>1. Len(usage[t]) = 0 /\ Chat!Spent(t) = 0
      BY <2>2 DEF Chat!Spent
    <3>2. <<calls[t]>> # <<>>
      OBVIOUS
    <3> QED
      BY <2>1, <2>2, <3>1, <3>2 DEF TurnIsSound, Sound
  <2>3. CASE usage[t] # <<>>
    <3>1. usage[t] = <<calls[t]>>
      BY <2>1, <2>3 DEF TurnIsSound, Sound
    <3>2. Len(usage[t]) = 1 /\ Chat!Spent(t) = calls[t]
      BY <2>1, <2>3, <3>1 DEF Chat!Spent
    <3> QED
      BY <2>1, <3>2
  <2> QED
    BY <2>2, <2>3
<1>2. Chat!ChargedOnce
  BY <1>1 DEF Chat!ChargedOnce
<1>3. ASSUME NEW t \in Turns, turn[t].at = "waiting", turn[t].conv \in live PROVE ran[t] \subseteq trail[t]
  <2>1. turn[t].pend = Chat!Nothing /\ ran[t] \subseteq trail[t] \cup turn[t].pend.tools
    BY <1>3 DEF ChatInv, TurnIsSound, Sound
  <2> QED
    BY <2>1, RowsTyped
<1>4. Chat!TrailIsDurable
  BY <1>3 DEF Chat!TrailIsDurable
<1>5. Chat!UserSpeaksFirst
  BY DEF Chat!UserSpeaksFirst, ChatInv, TurnIsSound, Sound
<1> QED
  BY <1>2, <1>4, <1>5

\* A turn is charged at most once and for what it asked, the reservations are those of the
\* turns in flight and bound a burst at the edge of the limit, what tools did is on record
\* when the model is asked again, and the model sees a user's message first, in every
\* reachable state (_check_usage_quota, _record_interrupted_turn, _release_db,
\* _build_history).
THEOREM TurnsStayAccounted == MCSpec => []TurnsAreAccounted
<1>1. MCInit => ChatInv
  BY ChatStarts DEF MCInit
<1>2. ChatInv /\ [MCNext]_MCvars => ChatInv'
  <2> SUFFICES ASSUME ChatInv, [MCNext]_MCvars PROVE [Chat!Next]_chatVars
    BY ChatGoesOn
  <2> QED
    BY DEF MCNext, MCvars, OnlyChat, OnlyMemory, OnlyMonitor, OnlyTeam, OnlyDocuments, OnlyLore, OnlyBase, OnlyMap, OnlyImpact
<1>3. ChatInv => TurnsAreAccounted
  BY SoundTurnsAreAccounted DEF TurnsAreAccounted
<1> QED
  BY <1>1, <1>2, <1>3, PTL DEF MCSpec
=============================================================================

----------------------------- MODULE Governance -----------------------------
(***************************************************************************)
(* Who may change which environment: drafts made in the console, by the    *)
(* assistant and by promotion, their approval under the rules of DEV, QA   *)
(* and PROD, and the labels of servers, which can change at any time.  A   *)
(* request reads and checks first and writes later; how a change is        *)
(* carried out on TM1 is ChangeDeployment.                                 *)
(***************************************************************************)
EXTENDS Naturals, FiniteSetsExt

CONSTANTS Modes,       \* TM1_MODE: "readonly", "approval" or "readwrite"
          Users,
          Rights,      \* per user: "write", "deploy", "qa", "prod"
          Servers, Contents, Requests,
          MaxChanges,  \* bound: changes ever drafted
          MaxRelabels, \* bound: relabellings
          None

VARIABLES mode,     \* TM1_MODE of the deployment
          relabels, \* relabellings so far
          label,    \* per server: its environment now
          change,   \* tm1_changes, on one object of each server
          proposed, \* changes a draft tool returned in its author's conversation
          request   \* each open request

vars == <<mode, relabels, label, change, proposed, request>>

ENVIRONMENTS == {"dev", "qa", "prod"}
Changes == 1 .. MaxChanges

\* ai: marked as the assistant's; env: the label it was drafted under; from: what
\* it was promoted from.
Row == [status : {"none", "closed"}] \cup   \* closed: rejected, superseded or failed
       [status : {"draft", "executed", "rolled_back"},
        on : Servers, env : ENVIRONMENTS, by : Users, content : Contents, ai : BOOLEAN,
        from : Changes \cup {None}]

Closed == [status |-> "closed"]
Idle == [op |-> "idle"]

TypeOK ==
  /\ mode \in Modes /\ relabels \in 0..MaxRelabels
  /\ label \in [Servers -> ENVIRONMENTS]
  /\ change \in [Changes -> Row]
  /\ proposed \subseteq Changes
  /\ \A r \in Requests :
       \/ request[r] = Idle
       \/ /\ request[r].op \in {"execute", "apply", "relabel"}
          /\ request[r].user \in Users /\ request[r].on \in Servers
          /\ request[r].seen \in ENVIRONMENTS /\ request[r].raced \in BOOLEAN

Init ==
  /\ mode \in Modes /\ relabels = 0
  /\ label \in [Servers -> ENVIRONMENTS]
  /\ change = [i \in Changes |-> [status |-> "none"]]
  /\ proposed = {}
  /\ request = [r \in Requests |-> Idle]

-----------------------------------------------------------------------------
(* The rules.                                                              *)

Made == {i \in Changes : change[i].status # "none"}
Kept == {i \in Made : change[i] # Closed}

DEPLOY_PERMISSION == [dev |-> "deploy", qa |-> "qa", prod |-> "prod"]
Strictness == [dev |-> 0, qa |-> 1, prod |-> 2]

\* The stricter of the label a change was drafted under and the label now.
effective_environment_Now(i, now) == now
effective_environment(i, now) ==
  IF Strictness[change[i].env] > Strictness[now] THEN change[i].env ELSE now

check_writes_enabled == mode # "readonly"

check_can_apply(u, i, now, action) ==
  LET e == effective_environment(i, now) IN
  /\ DEPLOY_PERMISSION[e] \in Rights[u]
  /\ ~(e = "prod" /\ action = "execute" /\ change[i].by = u)

assistant_may_apply(now) == mode = "readwrite" /\ now = "dev"
check_ai_may_draft(now) == now # "prod"

\* Relabelling needs the right of the environment left and of the one entered.
check_environment_change(u, now, new) ==
  \A e \in {now, new} \ {"dev"} : DEPLOY_PERMISSION[e] \in Rights[u]

\* NEXT_ENVIRONMENT.
Next_Environment == [dev |-> "qa", qa |-> "prod", prod |-> "none"]

-----------------------------------------------------------------------------
(* Drafts.  A draft is one step here (ChangeDeployment has its parts).     *)

Open(r, req) == request[r] = Idle /\ request' = [request EXCEPT ![r] = req]
Close(r) == request' = [request EXCEPT ![r] = Idle]

\* list_open_drafts.
OpenDrafts(u, s) == {i \in Kept : change[i].status = "draft" /\ change[i].by = u /\ change[i].on = s}

\* The author's open draft of the same content, by _fingerprint.
Same(u, s, v, ai) == {i \in OpenDrafts(u, s) : change[i].content = v /\ change[i].ai = ai}

\* The label a draft carries for good.
DraftedUnder(s) == label[s]

\* create_change: the draft there is, or a new one that supersedes the author's
\* others; `from` is set in either.
Draft(u, s, v, ai, from, tool) ==
  LET there == Same(u, s, v, ai)
      i == IF there # {} THEN Max(there) ELSE Min(Changes \ Made)
      fresh == [status |-> "draft", on |-> s, env |-> DraftedUnder(s), by |-> u, content |-> v, ai |-> ai,
                from |-> from]
  IN  /\ there # {} \/ Made # Changes
      /\ change' = IF there # {} THEN (IF from = None THEN change ELSE [change EXCEPT ![i].from = from])
                   ELSE [j \in Changes |-> IF j = i THEN fresh
                                           ELSE IF j \in OpenDrafts(u, s) THEN Closed ELSE change[j]]
      /\ proposed' = IF tool THEN proposed \cup {i} ELSE proposed
      /\ UNCHANGED <<mode, relabels, label, request>>

\* POST .../changes.
Propose(u, s, v) == "write" \in Rights[u] /\ Draft(u, s, v, FALSE, None, FALSE)

\* _create_draft: the assistant's drafts are marked, and are its conversation's.
CreateDraft(u, s, v) ==
  "write" \in Rights[u] /\ check_ai_may_draft(label[s]) /\ Draft(u, s, v, TRUE, None, TRUE)

\* promote: a change applied here is drafted on a server of the next environment.
Promote(u, i, s) ==
  /\ check_writes_enabled /\ "write" \in Rights[u]
  /\ change[i].status = "executed" /\ label[s] = Next_Environment[label[change[i].on]]
  /\ Draft(u, s, change[i].content, change[i].ai, i, FALSE)

\* A change and what it was promoted from, MAX_CHAIN at most.
MAX_CHAIN == 5

Chain(i) ==
  LET up[n \in 1 .. MAX_CHAIN] ==
        IF n = 1 THEN {i} ELSE up[n - 1] \cup ({change[j].from : j \in up[n - 1]} \ {None})
  IN  up[MAX_CHAIN]

\* The evidence a package gives the approver.
Evidence(i) ==
  [verified  |-> {j \in Chain(i) \ {i} : change[j].status = "executed"},
   unchanged |-> \A j \in Chain(i) : change[j].content = change[i].content /\ change[j].ai = change[i].ai]

-----------------------------------------------------------------------------
(* Approval.                                                               *)

Decision(op, u, i) ==
  [op |-> op, user |-> u, on |-> change[i].on, seen |-> label[change[i].on], raced |-> FALSE, id |-> i]

\* POST .../execute, up to the lock of the row.
Execute(r, u, i) ==
  /\ i \in Kept /\ check_writes_enabled /\ "deploy" \in Rights[u]
  /\ check_can_apply(u, i, label[change[i].on], "execute")
  /\ change[i].status = "draft"
  /\ Open(r, Decision("execute", u, i))
  /\ UNCHANGED <<mode, relabels, label, change, proposed>>

\* drafted_in_conversation.
DraftedHere(u, i) == change[i].ai /\ i \in proposed

\* apply_change, at the request of the author.
Apply(r, u, i) ==
  /\ i \in Kept /\ "deploy" \in Rights[u]
  /\ assistant_may_apply(label[change[i].on])
  /\ change[i].by = u /\ DraftedHere(u, i) /\ change[i].status = "draft"
  /\ check_can_apply(u, i, label[change[i].on], "execute")
  /\ Open(r, Decision("apply", u, i))
  /\ UNCHANGED <<mode, relabels, label, change, proposed>>

\* execute_change under the lock: a draft still, or a conflict.
FinishExecute(r) ==
  LET q == request[r] IN
  /\ q.op \in {"execute", "apply"}
  /\ \/ change[q.id].status = "draft" /\ change' = [change EXCEPT ![q.id].status = "executed"]
     \/ change[q.id].status = "draft" /\ change' = [change EXCEPT ![q.id] = Closed]
     \/ change[q.id].status # "draft" /\ UNCHANGED change
  /\ Close(r) /\ UNCHANGED <<mode, relabels, label, proposed>>

\* POST .../rollback; a production rollback needs no second person.
Rollback(u, i) ==
  /\ i \in Kept /\ check_writes_enabled /\ "deploy" \in Rights[u]
  /\ check_can_apply(u, i, label[change[i].on], "rollback")
  /\ change[i].status = "executed"
  /\ change' = [change EXCEPT ![i].status = "rolled_back"]
  /\ UNCHANGED <<mode, relabels, label, proposed, request>>

\* POST .../reject, by the author or somebody who deploys.
Reject(u, i) ==
  /\ i \in Kept /\ "write" \in Rights[u]
  /\ change[i].by = u \/ "deploy" \in Rights[u]
  /\ change[i].status = "draft"
  /\ change' = [change EXCEPT ![i] = Closed]
  /\ UNCHANGED <<mode, relabels, label, proposed, request>>

-----------------------------------------------------------------------------
(* Labels.                                                                 *)

\* PATCH of a connection with an environment: checked against the label it read,
Relabel(r, u, s, e) ==
  /\ "write" \in Rights[u] /\ e # label[s] /\ relabels < MaxRelabels
  /\ check_environment_change(u, label[s], e)
  /\ Open(r, [op |-> "relabel", user |-> u, on |-> s, seen |-> label[s], raced |-> FALSE, new |-> e])
  /\ relabels' = relabels + 1
  /\ UNCHANGED <<mode, label, change, proposed>>

\* and written later, whatever the label is by then.
FinishRelabel(r) ==
  LET q == request[r] IN
  /\ q.op = "relabel"
  /\ label' = [label EXCEPT ![q.on] = q.new]
  /\ request' = [x \in Requests |->
       IF x = r THEN Idle
       ELSE IF request[x] # Idle /\ request[x].on = q.on THEN [request[x] EXCEPT !.raced = TRUE]
       ELSE request[x]]
  /\ UNCHANGED <<mode, relabels, change, proposed>>

-----------------------------------------------------------------------------
Drafting(u) ==
  \E s \in Servers :
    \/ \E v \in Contents : Propose(u, s, v) \/ CreateDraft(u, s, v)
    \/ \E i \in Kept : Promote(u, i, s)

Deciding(r, u) == \E i \in Kept : Execute(r, u, i) \/ Apply(r, u, i)

Labelling(r, u) == \E s \in Servers, e \in ENVIRONMENTS : Relabel(r, u, s, e)

Finish(r) == FinishExecute(r) \/ FinishRelabel(r)

Next ==
  \/ \E u \in Users : Drafting(u) \/ \E i \in Kept : Rollback(u, i) \/ Reject(u, i)
  \/ \E r \in Requests, u \in Users : Deciding(r, u) \/ Labelling(r, u)
  \/ \E r \in Requests : Finish(r)

Spec == Init /\ [][Next]_vars

-----------------------------------------------------------------------------
\* Request r applies a change.
Applies(r) ==
  /\ request[r].op \in {"execute", "apply"}
  /\ change[request[r].id].status = "draft" /\ change'[request[r].id].status = "executed"

\* Two persons for PROD: what was drafted on PROD, or is on PROD when it is
\* applied, is applied by somebody other than its requester, through whatever
\* relabelling, promotion and repetition; only a label that changes during the
\* approval itself can escape ("a production change cannot be applied by the
\* person who requested it").
TwoPersons ==
  \A r \in Requests : Applies(r) =>
     LET q == request[r]  c == change[q.id] IN
     c.env = "prod" \/ (label[q.on] = "prod" /\ ~q.raced) => q.user # c.by

\* Whoever applies a change holds the deploy right of an environment at least as
\* strict as the one it was drafted under and the one it is applied under:
\* relabelling a server does not loosen the rules of a draft (effective_environment).
NoWayRound ==
  \A r \in Requests : Applies(r) =>
     LET q == request[r] IN
     \E e \in ENVIRONMENTS :
       /\ DEPLOY_PERMISSION[e] \in Rights[q.user]
       /\ Strictness[e] >= Strictness[change[q.id].env]
       /\ ~q.raced => Strictness[e] >= Strictness[label[q.on]]

\* What a package shows an approver is true: everything a change was promoted from
\* was applied, has its content to the letter, and no chain returns to itself,
\* through repeated promotions into one draft and relabelled servers (package).
RoadIsProven ==
  \A i \in Kept : \A j \in Chain(i) \ {i} :
    /\ change[j].status \in {"executed", "rolled_back"}
    /\ change[j].from # i /\ Evidence(i).unchanged

\* The assistant applies only where the operator allowed it, only what it drafted
\* in the conversation at hand, and nothing drafted under PROD ("the draft must
\* be marked ai_generated and a successful propose_* call ... produced it").
AssistantStaysLow ==
  \A r \in Requests : Applies(r) /\ request[r].op = "apply" =>
     LET q == request[r] IN
     mode = "readwrite" /\ q.id \in proposed /\ change[q.id].env # "prod" /\ change[q.id].by = q.user

\* A server leaves or enters QA or PROD only by the hand of somebody with the
\* right, unless two relabellings overlapped (check_environment_change).
LabelsNeedRights ==
  \A s \in Servers : label'[s] # label[s] =>
     \E r \in Requests :
       /\ request[r].op = "relabel" /\ request'[r] = Idle
       /\ \/ request[r].raced
          \/ \A e \in {label[s], label'[s]} \ {"dev"} : DEPLOY_PERMISSION[e] \in Rights[request[r].user]
=============================================================================

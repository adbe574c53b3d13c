------------------------------ MODULE ChatTurns ------------------------------
(***************************************************************************)
(* Chat turns in one process of the backend: the monthly quota with its    *)
(* reservations for turns in flight, the loop of model calls and tool      *)
(* calls, the turn that is cut off part-way, and the ledger of tokens a    *)
(* turn is charged in.  A turn's request has one database transaction at a *)
(* time, ended before each model call and once more after the response.    *)
(***************************************************************************)
EXTENDS Naturals, Sequences, FiniteSets, FiniteSetsExt

CONSTANTS Turns, Conversations, Tools,
          Granted,    \* the tools the agent of a turn may use
          NoConv,     \* no conversation yet
          Limits,     \* metered plans: tokens per month; one model call costs one
          Reserve,    \* AI_QUOTA_RESERVATION_TOKENS
          MaxRounds,  \* the agent's model calls with tools
          Window      \* HISTORY_LIMIT

VARIABLES
  limit,     \* the organization's plan
  turn,      \* per turn: where its request is and what it holds
  inflight,  \* _INFLIGHT_TURNS of the organization
  live,      \* committed conversations
  messages,  \* per conversation: the roles of its committed messages
  usage,     \* per turn: the tokens of its committed ai_usage rows
  trail,     \* per turn: its committed ai_tool_executions
  calls,     \* per turn: model calls made, a retried one counted once
  ran        \* per turn: tools that ran

vars == <<limit, turn, inflight, live, messages, usage, trail, calls, ran>>
tables == <<live, messages, usage, trail>>
record == <<limit, calls, ran>>

Stages == {"new", "check", "prepare", "call", "waiting", "tools", "write", "cut",
           "commit", "gone", "refused"}
Nothing == [said |-> <<>>, tools |-> {}, usage |-> <<>>]

\* A turn as the request sees it.  agent: it names an agent or asks for tools;
\* seen: the ledger it was checked against; pend: rows not yet committed; spoke:
\* the call in flight has said something; fell: on the fallback model; fault: a
\* write of its charge failed.
Blank ==
  [at |-> "new", stream |-> FALSE, agent |-> FALSE, conv |-> NoConv, seen |-> 0,
   round |-> 1, want |-> {}, tokens |-> 0, pend |-> Nothing, history |-> <<>>,
   spoke |-> FALSE, flying |-> FALSE, fell |-> FALSE, fault |-> FALSE]

TypeOK ==
  /\ limit \in Limits
  /\ turn \in [Turns ->
       [at : Stages, stream : BOOLEAN, agent : BOOLEAN,
        conv : Conversations \cup {NoConv}, seen : Nat, round : 1..(MaxRounds + 1),
        want : SUBSET Tools, tokens : Nat,
        pend : [said : Seq({"user", "assistant"}), tools : SUBSET Tools, usage : Seq(Nat)],
        history : Seq({"user", "assistant"}),
        spoke : BOOLEAN, flying : BOOLEAN, fell : BOOLEAN, fault : BOOLEAN]]
  /\ inflight \in Nat
  /\ live \subseteq Conversations
  /\ messages \in [Conversations -> Seq({"user", "assistant"})]
  /\ usage \in [Turns -> Seq(Nat)]
  /\ trail \in [Turns -> SUBSET Tools]
  /\ calls \in [Turns -> Nat] /\ ran \in [Turns -> SUBSET Tools]

Init ==
  /\ limit \in Limits
  /\ turn = [t \in Turns |-> Blank]
  /\ inflight = 0 /\ live = {}
  /\ messages = [c \in Conversations |-> <<>>]
  /\ usage = [t \in Turns |-> <<>>] /\ trail = [t \in Turns |-> {}]
  /\ calls = [t \in Turns |-> 0] /\ ran = [t \in Turns |-> {}]

-----------------------------------------------------------------------------
(* Which model answers.                                                    *)

Rank == [fast |-> 1, balanced |-> 2, best |-> 3]
Tiers == DOMAIN Rank
Specialists == {"architect", "developer", "documentation", "other", "none"}

\* AUTO's rules, in their order.
auto_tier(agent, prod, large) ==
  CASE prod \/ agent = "architect" -> "best"
    [] large \/ agent \in {"developer", "other"} -> "balanced"
    [] OTHER -> "fast"

\* The tier, or the next one up that the deployment allows.
allowed_tier(tier, enabled) ==
  LET up == {x \in enabled : Rank[x] >= Rank[tier]}
  IN  IF up = {} THEN "default" ELSE CHOOSE x \in up : \A y \in up : Rank[x] <= Rank[y]

\* FALLBACK: the tier to retry on.
neighbour == [best |-> "balanced", balanced |-> "best", fast |-> "balanced"]

\* decide: the tier of a turn, and the tier of its one retry.
decide(choice, agent, prod, large, enabled) ==
  LET tier == IF choice = "auto" THEN auto_tier(agent, prod, large) ELSE choice
      allowed == allowed_tier(tier, enabled)
      second == IF allowed = "default" THEN "default" ELSE allowed_tier(neighbour[allowed], enabled)
  IN  [tier |-> allowed,
       fallback |-> IF second \in {allowed, "default"} THEN "none" ELSE second]

\* _apply_message_breakpoints: where a request of n content blocks is marked for
\* the provider's cache, back from the newest block in strides.
Stride == 15
Breakpoints(n) == {i \in 1..n : (n - i) % Stride = 0 /\ (n - i) \div Stride < 3}

-----------------------------------------------------------------------------
(* The quota.                                                              *)

Spent(t) == IF usage[t] = <<>> THEN 0 ELSE usage[t][1]

\* get_total_tokens_since: what the committed rows add up to.
Ledger == MapThenSumSet(Spent, Turns)

EndTurn == inflight' = inflight - 1

\* What chat and stream_chat leave of a turn when their finally clause has run.
Over(r) == [Blank EXCEPT !.at = "gone", !.stream = r.stream, !.conv = r.conv, !.fault = r.fault]

\* A request arrives and reads the ledger.
Arrive(t) ==
  /\ turn[t].at = "new"
  /\ turn' = [turn EXCEPT ![t] = [@ EXCEPT !.at = "check", !.agent = TRUE, !.seen = Ledger]]
  /\ UNCHANGED <<inflight, tables, record>>

\* A request for a stream; only this one tells a turn without an agent apart.
ArriveStream(t) ==
  /\ turn[t].at = "new"
  /\ \E a \in BOOLEAN :
       turn' = [turn EXCEPT ![t] = [@ EXCEPT !.at = "check", !.stream = TRUE, !.agent = a, !.seen = Ledger]]
  /\ UNCHANGED <<inflight, tables, record>>

\* _check_usage_quota: what was spent, and a reservation for every turn under way.
OverQuota(t) == turn[t].seen + inflight * Reserve >= limit

\* chat and stream_chat: the decision and _begin_turn, with no other step between.
Admit(t) ==
  /\ turn[t].at = "check"
  /\ IF OverQuota(t)
     THEN turn' = [turn EXCEPT ![t].at = "refused"] /\ UNCHANGED inflight
     ELSE turn' = [turn EXCEPT ![t].at = "prepare", ![t].seen = 0] /\ inflight' = inflight + 1
  /\ UNCHANGED <<tables, record>>

\* An exception outside the part of a turn that is charged: rolled back by
\* get_db, and the reservation given back.
Raise(t) ==
  /\ turn' = [turn EXCEPT ![t] = Over(@)]
  /\ EndTurn
  /\ UNCHANGED <<tables, record>>

\* _build_history: the newest messages, from a user's message on.
FromUser(s) ==
  LET users == {i \in DOMAIN s : s[i] = "user"}
  IN  IF users = {} THEN <<>> ELSE SubSeq(s, Min(users), Len(s))

History(c) ==
  LET s == messages[c] IN FromUser(SubSeq(s, 1 + (IF Len(s) > Window THEN Len(s) - Window ELSE 0), Len(s)))

\* _get_or_create_conversation: the one that was named, or a new one.
Opens(c) == c \in live \/ \A u \in Turns : turn[u].conv # c

\* The conversation is found (or begun), its history read and the user's message
\* written; or the turn is refused: unknown agent, another person's conversation.
Prepare(t) ==
  /\ turn[t].at = "prepare"
  /\ \/ \E c \in Conversations :
          /\ Opens(c)
          /\ turn' = [turn EXCEPT ![t] = [@ EXCEPT !.at = "call", !.conv = c,
                        !.history = Append(History(c), "user"), !.pend.said = <<"user">>]]
          /\ UNCHANGED <<inflight, tables, record>>
     \/ Raise(t)

-----------------------------------------------------------------------------
(* The loop of model calls and tool calls.                                 *)

\* The transaction of a turn is committed.
Keep(t) ==
  LET p == turn[t].pend  c == turn[t].conv IN
  /\ live' = live \cup {c}
  /\ messages' = [messages EXCEPT ![c] = @ \o p.said]
  /\ trail' = [trail EXCEPT ![t] = @ \cup p.tools]
  /\ usage' = [usage EXCEPT ![t] = @ \o p.usage]

\* Rows can be written for the conversation: it is still there, or its own rows
\* of this transaction keep it there.
Writable(t) == turn[t].conv \in live \/ turn[t].pend # Nothing

\* _release_db commits, then the model is called.
Call(t) ==
  /\ turn[t].at = "call"
  /\ IF turn[t].pend = Nothing THEN UNCHANGED tables ELSE Keep(t)
  /\ calls' = [calls EXCEPT ![t] = @ + 1]
  /\ turn' = [turn EXCEPT ![t] = [@ EXCEPT !.at = "waiting", !.pend = Nothing,
                                           !.spoke = FALSE, !.flying = TRUE]]
  /\ UNCHANGED <<limit, inflight, ran>>

\* A streamed answer begins to arrive.
Delta(t) ==
  /\ turn[t].at = "waiting" /\ turn[t].stream /\ ~turn[t].spoke
  /\ turn' = [turn EXCEPT ![t].spoke = TRUE]
  /\ UNCHANGED <<inflight, tables, record>>

\* What the provider's exceptions become; another model may answer some of them.
Errors == {"authentication", "rate limit", "overloaded", "bad request"}
Retryable == {"rate limit", "overloaded"}

\* FallbackProvider: an error before anything was said in this call is retried on
\* the neighbouring tier, which is used from then on.
Retries(t, e) == ~turn[t].spoke /\ ~turn[t].fell /\ e \in Retryable

Overloaded(t) ==
  /\ turn[t].at = "waiting" /\ \E e \in Errors : Retries(t, e)
  /\ turn' = [turn EXCEPT ![t].fell = TRUE]
  /\ UNCHANGED <<inflight, tables, record>>

\* A turn whose loop is over.
Left(r) ==
  [r EXCEPT !.round = 1, !.want = {}, !.history = <<>>, !.spoke = FALSE, !.flying = FALSE, !.fell = FALSE]

\* The model answered: with tool calls while there are rounds left (a streamed
\* turn without an agent ignores them), or for good.
Answer(t) ==
  /\ turn[t].at = "waiting"
  /\ \/ /\ turn[t].round <= MaxRounds /\ (turn[t].agent \/ ~turn[t].stream)
        /\ \E want \in SUBSET Tools \ {{}} :
             turn' = [turn EXCEPT ![t] = [turn[t] EXCEPT !.at = "tools", !.want = want,
                                                       !.tokens = @ + 1, !.flying = FALSE]]
     \/ turn' = [turn EXCEPT ![t] = [Left(turn[t]) EXCEPT !.at = "write", !.tokens = @ + 1]]
  /\ UNCHANGED <<inflight, tables, record>>

\* A part of the turn that is charged fails: a streamed turn still records what
\* it cost, any other is rolled back whole.
Abort(t) ==
  IF turn[t].stream
  THEN /\ turn' = [turn EXCEPT ![t] = [Left(@) EXCEPT !.at = "cut", !.flying = turn[t].flying]]
       /\ UNCHANGED <<inflight, tables, record>>
  ELSE Raise(t)

\* The model cannot be asked: not retryable, already speaking, or fallen back.
Fails(t) == turn[t].at = "waiting" /\ (\E e \in Errors : ~Retries(t, e)) /\ Abort(t)

\* _resolve_allowed_tools, _tools_for_mode: an agent's own, else the few that need
\* no TM1 server.
Allowed(t) == IF turn[t].agent THEN Granted ELSE {}

Tool_GrantedOnly(t, x) ==
  /\ x \in Allowed(t)
  /\ turn' = [turn EXCEPT ![t] = [turn[t] EXCEPT !.want = @ \ {x}, !.pend.tools = @ \cup {x}]]
  /\ ran' = [ran EXCEPT ![t] = @ \cup {x}]

\* _execute_tool_call: a tool the agent may not use is refused, any other runs,
\* and either is recorded; a tool's exception is a result like another.
Tool(t, x) ==
  /\ turn' = [turn EXCEPT ![t] = [turn[t] EXCEPT !.want = @ \ {x}, !.pend.tools = @ \cup {x}]]
  /\ ran' = IF x \in Allowed(t) THEN [ran EXCEPT ![t] = @ \cup {x}] ELSE ran

RunTool(t) ==
  /\ turn[t].at = "tools" /\ turn[t].want # {}
  /\ IF Writable(t)
     THEN (\E x \in turn[t].want : Tool(t, x)) /\ UNCHANGED <<limit, inflight, tables, calls>>
     ELSE Abort(t)

\* The results go back to the model; after the last round it is asked once more,
\* without tools.
NextRound(t) ==
  /\ turn[t].at = "tools" /\ turn[t].want = {}
  /\ turn' = [turn EXCEPT ![t].at = "call", ![t].round = @ + 1]
  /\ UNCHANGED <<inflight, tables, record>>

-----------------------------------------------------------------------------
(* How a turn ends.                                                        *)

\* The answer and its usage are written and the reservation given back; the
\* transaction is committed after the response.
Write(t) ==
  /\ turn[t].at = "write"
  /\ IF Writable(t)
     THEN /\ turn' = [turn EXCEPT ![t] = [turn[t] EXCEPT !.at = "commit",
                        !.pend.said = Append(@, "assistant"), !.pend.usage = <<turn[t].tokens>>]]
          /\ EndTurn /\ UNCHANGED <<tables, record>>
     ELSE Raise(t)

\* get_db: the last transaction of the request is committed, or is not.
Commit(t) ==
  /\ turn[t].at = "commit"
  /\ \/ /\ IF turn[t].pend = Nothing THEN UNCHANGED tables ELSE Keep(t)
        /\ turn' = [turn EXCEPT ![t] = Over(@)]
     \/ /\ turn' = [turn EXCEPT ![t] = [Over(turn[t]) EXCEPT !.fault = @ \/ turn[t].pend.usage # <<>>]]
        /\ UNCHANGED tables
  /\ UNCHANGED <<inflight, record>>

\* with_heartbeat: the reader of a stream is gone, and the turn is cancelled.
Disconnect(t) ==
  /\ turn[t].stream
  /\ \/ turn[t].at \in {"call", "waiting", "tools"} /\ Abort(t)
     \/ turn[t].at = "prepare" /\ Raise(t)
     \/ /\ turn[t].at = "write"
        /\ turn' = [turn EXCEPT ![t] = [@ EXCEPT !.at = "commit", !.fault = TRUE]]
        /\ EndTurn /\ UNCHANGED <<tables, record>>

\* _record_interrupted_turn, in a transaction of its own: what streamed and what
\* it cost, the call in flight estimated.  Its failure is only logged.
RecordCut_KnownOnly(t) ==
  /\ turn[t].at = "cut"
  /\ usage' = [usage EXCEPT ![t] = Append(@, turn[t].tokens)]
  /\ turn' = [turn EXCEPT ![t] = [@ EXCEPT !.at = "commit", !.flying = FALSE]]
  /\ EndTurn /\ UNCHANGED <<live, messages, trail, record>>

RecordCut(t) ==
  /\ turn[t].at = "cut"
  /\ \/ /\ turn[t].conv \in live
        /\ usage' = [usage EXCEPT ![t] = Append(@, turn[t].tokens + (IF turn[t].flying THEN 1 ELSE 0))]
        /\ messages' = [messages EXCEPT ![turn[t].conv] = Append(@, "assistant")]
        /\ turn' = [turn EXCEPT ![t] = [@ EXCEPT !.at = "commit", !.flying = FALSE]]
        /\ UNCHANGED <<live, trail>>
     \/ /\ turn' = [turn EXCEPT ![t] = [@ EXCEPT !.at = "commit", !.flying = FALSE, !.fault = TRUE]]
        /\ UNCHANGED tables
  /\ EndTurn /\ UNCHANGED record

\* delete_conversation erases its messages, tool executions and usage; it waits
\* for a transaction that has written rows for it.
DeleteConversation(c) ==
  /\ c \in live
  /\ \A t \in Turns : turn[t].conv = c => turn[t].pend = Nothing
  /\ live' = live \ {c}
  /\ messages' = [messages EXCEPT ![c] = <<>>]
  /\ usage' = [t \in Turns |-> IF turn[t].conv = c THEN <<>> ELSE usage[t]]
  /\ trail' = [t \in Turns |-> IF turn[t].conv = c THEN {} ELSE trail[t]]
  /\ UNCHANGED <<turn, inflight, record>>

Running(t) == turn[t].at \notin {"new", "gone", "refused"}

\* The process dies with everything in flight.
Crash ==
  /\ \E t \in Turns : Running(t)
  /\ inflight' = 0
  /\ turn' = [t \in Turns |-> IF Running(t)
                              THEN [Over(turn[t]) EXCEPT !.fault = TRUE]
                              ELSE turn[t]]
  /\ UNCHANGED <<tables, record>>

Step(t) ==
  \/ Admit(t) \/ Prepare(t) \/ Call(t) \/ Answer(t) \/ Fails(t) \/ RunTool(t) \/ NextRound(t)
  \/ Write(t) \/ RecordCut(t) \/ Commit(t)

Next ==
  \/ \E t \in Turns : Arrive(t) \/ ArriveStream(t) \/ Step(t) \/ Delta(t) \/ Overloaded(t) \/ Disconnect(t)
  \/ \E c \in Conversations : DeleteConversation(c)
  \/ Crash

\* A request that was begun is worked on; a model call returns or fails in the
\* end (the provider's client has a timeout).
Fairness == \A t \in Turns : WF_vars(Step(t))

Spec == Init /\ [][Next]_vars /\ Fairness

-----------------------------------------------------------------------------
\* decide: a tier or fallback that is used is enabled here, a fallback is never
\* FAST, and AUTO never sends a specialist that works through tools below
\* BALANCED while a tier at or above it is enabled (routing.py).
RoutesHold ==
  \A enabled \in SUBSET Tiers, choice \in Tiers \cup {"auto"}, agent \in Specialists, prod, large \in BOOLEAN :
    LET r == decide(choice, agent, prod, large, enabled) IN
      /\ r.tier \in enabled \cup {"default"}
      /\ r.fallback \in (enabled \ {"fast", r.tier}) \cup {"none"}
      /\ choice = "auto" /\ agent \in {"architect", "developer"} => r.tier # "fast"

\* The cache a request wrote is found by the next one, up to fifty content blocks
\* longer: a marker of the next is within the provider's lookback of one of the
\* last ("keep every breakpoint within reach of the one before it").
CacheIsReached ==
  \A n \in 1..40, grown \in 1..50 :
    \E i \in Breakpoints(n), j \in Breakpoints(n + grown) : i <= j /\ j - i <= 20

Holding == {"prepare", "call", "waiting", "tools", "write", "cut"}

\* The reservations are those of the turns in flight, whichever way turns end
\* (_begin_turn, the finally clauses of chat and stream_chat).
ReservationsAreTurns == inflight = Cardinality({t \in Turns : turn[t].at \in Holding})

\* A burst at the edge of the limit is bounded by the reservations, although
\* none of its turns is in the ledger yet (_check_usage_quota).
BurstIsBounded == inflight > 0 => (inflight - 1) * Reserve < limit

\* A turn is charged at most once, and never for more than the model was asked;
\* one that ended answered or as a cut stream is charged for every call it made,
\* unless its conversation is gone or the charge could not be written.
ChargedOnce ==
  \A t \in Turns :
    /\ Len(usage[t]) <= 1 /\ Spent(t) <= calls[t]
    /\ LET r == turn[t] IN
         r.at = "gone" /\ r.stream /\ ~r.fault /\ r.conv \in live /\ calls[t] > 0
           => Spent(t) = calls[t]

\* What tools did in earlier rounds is on record when the model is asked again,
\* so it outlives the rest of the turn (_release_db).
TrailIsDurable ==
  \A t \in Turns : turn[t].at = "waiting" /\ turn[t].conv \in live =>
    ran[t] \subseteq trail[t]

\* The model sees a user's message first, also when the window begins inside an
\* exchange or two turns interleave their messages (_build_history).
UserSpeaksFirst == \A t \in Turns : turn[t].history # <<>> => turn[t].history[1] = "user"

\* Every turn that arrives is answered, refused or given up: the tool loop ends.
TurnsEnd == \A t \in Turns : turn[t].at = "check" ~> turn[t].at \in {"gone", "refused"}
=============================================================================

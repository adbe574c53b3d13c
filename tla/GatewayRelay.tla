---------------------------- MODULE GatewayRelay ----------------------------
(***************************************************************************)
(* A TM1 server inside a customer's network is reached through a gateway   *)
(* program that connects out.  The backend queues each TM1 request with a  *)
(* broker; a thread of the gateway polls for one, carries it out against   *)
(* TM1 and posts the answer back in parts; the caller waits for all parts  *)
(* or until its timeout.  Nothing is acknowledged: a request leaves the    *)
(* queue when it is handed out, and every hop may lose what it carries.    *)
(***************************************************************************)
EXTENDS Naturals, Sequences, FiniteSets

CONSTANTS Requests,   \* relayed TM1 requests, each with an id of its own
          Listed,     \* those whose target is on the gateway's allow-list
          Threads,    \* the gateway's polling threads
          None,       \* no request
          MaxParts,   \* bound: parts of one answer
          MaxVersion  \* bound: key versions of the gateway

VARIABLES
  shared,   \* TRUE: UpstashBroker (keys expire); FALSE: MemoryBroker
  queue,    \* gw:req:<gateway>, requests not yet handed out
  answers,  \* gw:res:<id>, per request: the parts that arrived
  caller,   \* what became of the backend thread that sent the request
  received, \* per request: the parts its caller was given
  carried,  \* per request: how often TM1 carried it out
  thread,   \* per gateway thread: where its loop is
  version,  \* TM1Gateway.key_version; 0: no such gateway
  key,      \* the version of the key in the gateway program's settings
  linked    \* a TM1 connection names this gateway

vars == <<shared, queue, answers, caller, received, carried, thread, version,
          key, linked>>
broker == <<queue, answers>>
backend == <<caller, received>>
admin == <<version, key, linked>>

Fates == {"new", "waiting", "answered", "error", "timeout"}
Parts == [index : 0..(MaxParts - 1), parts : 1..MaxParts, error : BOOLEAN]
Idle == [at |-> "idle", req |-> None, out |-> <<>>]

TypeOK ==
  /\ shared \in BOOLEAN /\ linked \in BOOLEAN
  /\ queue \in Seq(Requests)
  /\ answers \in [Requests -> Seq(Parts)] /\ received \in [Requests -> Seq(Parts)]
  /\ caller \in [Requests -> Fates]
  /\ carried \in [Requests -> Nat]
  /\ thread \in [Threads -> [at : {"idle", "polling", "forward", "post"},
                             req : Requests \cup {None}, out : Seq(Parts)]]
  /\ version \in 0..MaxVersion /\ key \in 0..MaxVersion

\* The gateway was created, its key put in the program's settings.
Init ==
  /\ shared \in BOOLEAN
  /\ queue = <<>>
  /\ answers = [r \in Requests |-> <<>>] /\ received = [r \in Requests |-> <<>>]
  /\ caller = [r \in Requests |-> "new"]
  /\ carried = [r \in Requests |-> 0]
  /\ thread = [t \in Threads |-> Idle]
  /\ version = 1 /\ key = 1 /\ linked = TRUE

-----------------------------------------------------------------------------
(* The backend's side: GatewayAdapter.send and relay.                      *)

\* pop_answer waits for as many parts as the first one announces.
Complete(parts) == parts # <<>> /\ Len(parts) >= parts[1].parts

\* GatewayAdapter.send: the request is queued for the gateway its connection
\* names; one larger than MAX_REQUEST_BYTES is refused before it is queued.
Send(r) ==
  /\ caller[r] = "new" /\ linked
  /\ \/ queue' = Append(queue, r) /\ caller' = [caller EXCEPT ![r] = "waiting"]
     \/ caller' = [caller EXCEPT ![r] = "error"] /\ UNCHANGED queue
  /\ UNCHANGED <<shared, answers, received, carried, thread, admin>>

\* sorted(parts, key=index): each part goes where as many parts precede it, parts of
\* the same index in the order they came.
InOrder(parts) ==
  LET Before(i) == {j \in DOMAIN parts :
                      \/ parts[j].index < parts[i].index
                      \/ parts[j].index = parts[i].index /\ j < i}
  IN [k \in DOMAIN parts |-> parts[CHOOSE i \in DOMAIN parts : Cardinality(Before(i)) = k - 1]]

\* pop_answer found every part: relay sorts them, and reports what the gateway
\* reported or returns the answer.
Receive(r) ==
  /\ caller[r] = "waiting" /\ Complete(answers[r])
  /\ LET parts == InOrder(answers[r]) IN
       /\ received' = [received EXCEPT ![r] = parts]
       /\ caller' = [caller EXCEPT ![r] = IF parts[1].error THEN "error" ELSE "answered"]
  /\ answers' = [answers EXCEPT ![r] = <<>>]
  /\ UNCHANGED <<shared, queue, carried, thread, admin>>

\* pop_answer's wait (the request's timeout and two seconds) is over: what had
\* arrived is dropped by the memory broker, left to expire by the shared one.
Timeout(r) ==
  /\ caller[r] = "waiting" /\ ~Complete(answers[r])
  /\ caller' = [caller EXCEPT ![r] = "timeout"]
  /\ answers' = IF shared THEN answers ELSE [answers EXCEPT ![r] = <<>>]
  /\ UNCHANGED <<shared, queue, received, carried, thread, admin>>

\* MESSAGE_TTL_SECONDS after the last push the shared broker forgets a list, the
\* gateway's whole queue at once.
Expire ==
  /\ shared
  /\ \/ queue # <<>> /\ queue' = <<>> /\ UNCHANGED answers
     \/ \E r \in Requests :
          /\ answers[r] # <<>>
          /\ answers' = [answers EXCEPT ![r] = <<>>] /\ UNCHANGED queue
  /\ UNCHANGED <<shared, backend, carried, thread, admin>>

-----------------------------------------------------------------------------
(* The gateway's side: one thread of Gateway.worker, and the two endpoints *)
(* it calls.                                                               *)

\* TM1GatewayService.authenticate: the key's version must be the row's.
KeyAccepted == version > 0 /\ key = version

\* POST /gateway/poll with a key that is accepted waits for a request; with any
\* other key the thread sleeps and tries again.
Poll(t) ==
  /\ thread[t].at = "idle" /\ KeyAccepted
  /\ thread' = [thread EXCEPT ![t].at = "polling"]
  /\ UNCHANGED <<shared, broker, backend, carried, admin>>

\* pop_request.  The reply may be lost on its way, and the request with it.
Take_Peek(t) ==
  /\ thread[t].at = "polling" /\ queue # <<>>
  /\ thread' = [thread EXCEPT ![t].at = "forward", ![t].req = Head(queue)]
  /\ UNCHANGED <<shared, broker, backend, carried, admin>>

Take(t) ==
  /\ thread[t].at = "polling" /\ queue # <<>>
  /\ queue' = Tail(queue)
  /\ \/ thread' = [thread EXCEPT ![t].at = "forward", ![t].req = Head(queue)]
     \/ thread' = [thread EXCEPT ![t] = Idle]
  /\ UNCHANGED <<shared, answers, backend, carried, admin>>

\* Nothing was queued in time (204), or the connection broke.
PollEnds(t) ==
  /\ thread[t].at = "polling"
  /\ thread' = [thread EXCEPT ![t] = Idle]
  /\ UNCHANGED <<shared, broker, backend, carried, admin>>

\* split_answer: n parts, the first of which says whether it is an error.
SplitAnswer(n, failed) ==
  [i \in 1..n |-> [index |-> i - 1, parts |-> n, error |-> failed /\ i = 1]]

\* Gateway.forward: a target off the allow-list is refused; TM1 that cannot be
\* reached, or does not answer in time (having carried the request out or not),
\* is reported; anything TM1 answers is sent back.
Forward(t) ==
  LET r == thread[t].req
      Answer(n, failed) ==
        thread' = [thread EXCEPT ![t].at = "post", ![t].out = SplitAnswer(n, failed)]
  IN
  /\ thread[t].at = "forward"
  /\ \/ Answer(1, TRUE) /\ UNCHANGED carried
     \/ /\ r \in Listed
        /\ carried' = [carried EXCEPT ![r] = @ + 1]
        /\ Answer(1, TRUE) \/ \E n \in 1..MaxParts : Answer(n, FALSE)
  /\ UNCHANGED <<shared, broker, backend, admin>>

\* POST /gateway/answer, once per part.
Post(t) ==
  LET r == thread[t].req IN
  /\ thread[t].at = "post" /\ KeyAccepted
  /\ answers' = [answers EXCEPT ![r] = Append(@, Head(thread[t].out))]
  /\ thread' = [thread EXCEPT ![t] = IF Len(thread[t].out) = 1 THEN Idle
                                    ELSE [thread[t] EXCEPT !.out = Tail(@)]]
  /\ UNCHANGED <<shared, queue, backend, carried, admin>>

\* A part is refused, lost, or stored without the thread learning of it: the
\* thread gives the rest of the answer up, backs off and polls again.
PostFails(t) ==
  /\ thread[t].at = "post"
  /\ \/ UNCHANGED answers
     \/ KeyAccepted /\ answers' = [answers EXCEPT ![thread[t].req] = Append(@, Head(thread[t].out))]
  /\ thread' = [thread EXCEPT ![t] = Idle]
  /\ UNCHANGED <<shared, queue, backend, carried, admin>>

-----------------------------------------------------------------------------
(* Administrators.                                                         *)

\* rotate_key; the old key stops working at once.
RotateKey ==
  /\ version \in 1..(MaxVersion - 1)
  /\ version' = version + 1
  /\ UNCHANGED <<shared, broker, backend, carried, thread, key, linked>>

\* pa-gateway setup --key.
Setup ==
  /\ version > 0 /\ key # version
  /\ key' = version
  /\ UNCHANGED <<shared, broker, backend, carried, thread, version, linked>>

\* A connection is pointed at the gateway, or away from it.
Link ==
  /\ version > 0
  /\ linked' = ~linked
  /\ UNCHANGED <<shared, broker, backend, carried, thread, version, key>>

\* delete is refused while a connection uses the gateway.
Delete ==
  /\ version > 0 /\ ~linked
  /\ version' = 0
  /\ UNCHANGED <<shared, broker, backend, carried, thread, key, linked>>

GatewayStep(t) == Poll(t) \/ Take(t) \/ PollEnds(t) \/ Forward(t) \/ Post(t) \/ PostFails(t)

AdminStep == RotateKey \/ Setup \/ Link \/ Delete

Next ==
  \/ \E r \in Requests : Send(r) \/ Receive(r) \/ Timeout(r)
  \/ Expire
  \/ \E t \in Threads : GatewayStep(t)
  \/ AdminStep

Spec == Init /\ [][Next]_vars

\* A thread of the gateway keeps running its loop; of what is waiting when it
\* polls it takes the oldest, so a request is handed out if polls keep coming
\* (strong fairness: a poll may end at any moment and be begun again).
Fairness == \A t \in Threads : /\ WF_vars(Poll(t))
                               /\ SF_vars(Take(t))
                               /\ WF_vars(Forward(t))
                               /\ WF_vars(Post(t) \/ PostFails(t))

-----------------------------------------------------------------------------
\* A caller that is told TM1 answered has the whole answer, every part once and
\* in order, of a request TM1 carried out, whatever the threads posted and
\* however often an earlier attempt at posting broke off (pop_answer, relay).
AnswersAreWhole ==
  \A r \in Requests : caller[r] = "answered" =>
    /\ received[r] = SplitAnswer(received[r][1].parts, FALSE)
    /\ carried[r] = 1

\* TM1 is asked to do a request at most once, and never when its target is off
\* the allow-list: losing replies and answers costs answers, never a second
\* write (pop_request removes before it hands out; worker never retries).
CarriedOutOnce ==
  \A r \in Requests : carried[r] <= (IF r \in Listed THEN 1 ELSE 0)

\* A connection always names a gateway that exists (delete's check, and the
\* foreign key's RESTRICT).
LinkedGatewayExists == linked => version > 0

\* All three: a relayed request is done at most once, and answered whole or not at all.
RelayedOnceAndWhole == TypeOK /\ CarriedOutOnce /\ AnswersAreWhole /\ LinkedGatewayExists

\* An answer from before a rotation never reaches its caller under the old key:
\* parts arrive only while the program holds the current key.
OldKeyDeliversNothing ==
  key # version => \A r \in Requests : Len(answers'[r]) <= Len(answers[r])

\* A gateway whose key is good from some moment on hands out every request that
\* was queued for it (unless the queue expires first).
QueueDrains ==
  \A r \in Requests :
    <>[](version > 0 /\ key = version) =>
      ((\E i \in DOMAIN queue : queue[i] = r) ~> ~(\E i \in DOMAIN queue : queue[i] = r))
=============================================================================

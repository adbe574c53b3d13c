------------------------- MODULE GatewayRelayProofs -------------------------
(***************************************************************************)
(* For any number of requests, gateway threads, parts of an answer and key *)
(* versions, whatever the queue and the broker lose: TM1 is asked to do a  *)
(* request at most once, and a caller that is told of an answer has every  *)
(* part of it, once and in order.  The argument: a request is in the queue *)
(* once or with one thread, never both, and what the broker holds for it   *)
(* is a stretch of one answer that thread is posting from front to back.   *)
(***************************************************************************)
EXTENDS GatewayRelay, FiniteSetTheorems, SequenceTheorems, TLAPS

\* What the program's settings guarantee of the constants.
ConstantsAreSound ==
  /\ MaxParts \in Nat \ {0} /\ MaxVersion \in Nat \ {0}
  /\ Listed \subseteq Requests /\ None \notin Requests

-----------------------------------------------------------------------------
(* Answers and stretches of them.                                          *)

\* An answer has as many parts as each of them says.
LEMMA AnswerParts ==
  ASSUME ConstantsAreSound, NEW n \in 1 .. MaxParts, NEW failed \in BOOLEAN
  PROVE  /\ SplitAnswer(n, failed) \in Seq(Parts) /\ Len(SplitAnswer(n, failed)) = n
         /\ DOMAIN SplitAnswer(n, failed) = 1 .. n
         /\ \A i \in 1 .. n : /\ SplitAnswer(n, failed)[i] \in Parts
                              /\ SplitAnswer(n, failed)[i].index = i - 1
                              /\ SplitAnswer(n, failed)[i].parts = n
         /\ SplitAnswer(n, failed)[1].error = failed
<1> DEFINE a == SplitAnswer(n, failed)
<1>0. MaxParts \in Nat /\ n \in Nat /\ n >= 1
  BY DEF ConstantsAreSound
<1>1. a = [i \in 1 .. n |-> [index |-> i - 1, parts |-> n, error |-> failed /\ i = 1]]
  BY DEF SplitAnswer
<1>2. ASSUME NEW i \in 1 .. n
      PROVE  a[i] \in Parts /\ a[i].index = i - 1 /\ a[i].parts = n
  <2>1. a[i] = [index |-> i - 1, parts |-> n, error |-> failed /\ i = 1]
    BY <1>1
  <2>2. (failed /\ i = 1) \in BOOLEAN
    OBVIOUS
  <2>3. i - 1 \in 0 .. (MaxParts - 1)
    BY <1>0
  <2> QED
    BY <2>1, <2>2, <2>3 DEF Parts
<1>3. a \in [1 .. n -> Parts]
  BY <1>1, <1>2
<1>4. a \in Seq(Parts) /\ Len(a) = n /\ DOMAIN a = 1 .. n
  BY <1>0, <1>3
<1>5. a[1].error = failed
  <2>1. a[1] = [index |-> 1 - 1, parts |-> n, error |-> failed /\ 1 = 1]
    BY <1>0, <1>1
  <2> QED
    BY <2>1
<1> QED
  BY <1>2, <1>4, <1>5

\* A thread posts the first part of what it has left, and the broker's stretch of the
\* answer grows by it.
LEMMA StretchMoves ==
  ASSUME NEW a \in Seq(Parts), NEW k \in 1 .. Len(a), NEW m \in 1 .. k
  PROVE  /\ SubSeq(a, k, Len(a)) \in Seq(Parts) /\ Len(SubSeq(a, k, Len(a))) = Len(a) - k + 1
         /\ Head(SubSeq(a, k, Len(a))) = a[k]
         /\ Tail(SubSeq(a, k, Len(a))) = SubSeq(a, k + 1, Len(a))
         /\ Append(SubSeq(a, m, k - 1), a[k]) = SubSeq(a, m, k)
<1>1. k \in Nat /\ m \in Nat /\ 1 <= m /\ m <= k /\ k <= Len(a) /\ Len(a) \in Nat
  OBVIOUS
<1>2. \A i \in 1 .. Len(a) : a[i] \in Parts
  OBVIOUS
<1>3. SubSeq(a, k, Len(a)) \in Seq(Parts) /\ Len(SubSeq(a, k, Len(a))) = Len(a) - k + 1
  BY <1>1, <1>2, SubSeqProperties
<1>4. /\ Head(SubSeq(a, k, Len(a))) = a[k]
      /\ Tail(SubSeq(a, k, Len(a))) = SubSeq(a, k + 1, Len(a))
  BY <1>1, HeadTailOfSubSeq
<1>5. SubSeq(a, m, k - 1) \in Seq(Parts)
  <2>1. \A i \in m .. (k - 1) : a[i] \in Parts
    BY <1>1, <1>2
  <2> QED
    BY <1>1, <2>1, SubSeqProperties
<1>6. SubSeq(a, m, k) = SubSeq(a, m, k - 1) \o << a[k] >>
  BY <1>1, SubSeqRecursiveSecond
<1>7. Append(SubSeq(a, m, k - 1), a[k]) = SubSeq(a, m, k - 1) \o << a[k] >>
  BY <1>1, <1>2, <1>5, AppendIsConcat
<1> QED
  BY <1>3, <1>4, <1>6, <1>7

\* A stretch is as long as its places, and begins with the first of them.
LEMMA StretchParts ==
  ASSUME NEW a \in Seq(Parts), NEW m \in 1 .. Len(a), NEW k \in (m - 1) .. Len(a)
  PROVE  /\ SubSeq(a, m, k) \in Seq(Parts) /\ Len(SubSeq(a, m, k)) = k - m + 1
         /\ SubSeq(a, m, m - 1) = << >>
         /\ SubSeq(a, 1, Len(a)) = a
         /\ k >= m => SubSeq(a, m, k)[1] = a[m]
<1>1. k \in Int /\ m \in Nat /\ 1 <= m /\ m - 1 <= k /\ k <= Len(a) /\ Len(a) \in Nat
  OBVIOUS
<1>2. \A i \in m .. k : a[i] \in Parts
  BY <1>1
<1>3. /\ SubSeq(a, m, k) \in Seq(Parts)
      /\ Len(SubSeq(a, m, k)) = IF m <= k THEN k - m + 1 ELSE 0
      /\ \A i \in 1 .. k - m + 1 : SubSeq(a, m, k)[i] = a[m + i - 1]
  BY <1>1, <1>2, SubSeqProperties
<1>4. SubSeq(a, m, m - 1) = << >>
  BY <1>1, SubSeqEmpty
<1>5. SubSeq(a, 1, Len(a)) = a
  BY SubSeqFull
<1>6. k >= m => SubSeq(a, m, k)[1] = a[m]
  BY <1>1, <1>3
<1> QED
  BY <1>1, <1>3, <1>4, <1>5, <1>6

\* Parts that came in order are left in order: each is preceded by those before it.
LEMMA InOrderIsSorting ==
  ASSUME NEW parts \in Seq(Parts), \A i \in DOMAIN parts : parts[i].index = i - 1
  PROVE  InOrder(parts) = parts
<1> DEFINE Before(i) == {j \in DOMAIN parts :
                           \/ parts[j].index < parts[i].index
                           \/ parts[j].index = parts[i].index /\ j < i}
           Place(k) == CHOOSE i \in DOMAIN parts : Cardinality(Before(i)) = k - 1
<1>0. DOMAIN parts = 1 .. Len(parts) /\ Len(parts) \in Nat
  OBVIOUS
<1>1. ASSUME NEW i \in DOMAIN parts PROVE Cardinality(Before(i)) = i - 1
  <2>1. Before(i) = 1 .. (i - 1)
    BY <1>0, <1>1
  <2>2. Cardinality(1 .. (i - 1)) = i - 1
    BY <1>0, <1>1, FS_Interval
  <2> QED
    BY <2>1, <2>2
<1>2. ASSUME NEW k \in DOMAIN parts PROVE Place(k) = k
  <2>1. \A i \in DOMAIN parts : Cardinality(Before(i)) = k - 1 <=> i = k
    BY <1>0, <1>1
  <2> QED
    BY <2>1
<1>3. InOrder(parts) = [k \in DOMAIN parts |-> parts[Place(k)]]
  BY DEF InOrder
<1>4. \A k \in DOMAIN parts : parts[Place(k)] = parts[k]
  BY <1>2
<1> HIDE DEF Place
<1>5. InOrder(parts) = [k \in DOMAIN parts |-> parts[k]]
  BY <1>3, <1>4
<1> QED
  BY <1>5
-----------------------------------------------------------------------------
(* The invariant.                                                          *)

Queued(r)   == \E i \in DOMAIN queue : queue[i] = r
Holds(t, r) == thread[t].at \in {"forward", "post"} /\ thread[t].req = r
Untouched(r) == carried[r] = 0 /\ answers[r] = << >>

\* A request is in the queue once or with one thread, and nobody has touched what is
\* queued or only just handed out.
HandedOutOnce ==
  /\ \A i, j \in DOMAIN queue : queue[i] = queue[j] => i = j
  /\ \A r \in Requests, t \in Threads : Holds(t, r) =>
       /\ ~Queued(r)
       /\ \A u \in Threads : Holds(u, r) => u = t
       /\ thread[t].at = "forward" => Untouched(r)
  /\ \A r \in Requests : Queued(r) => Untouched(r)

\* Nothing has happened to a request that was not sent.
NotSent ==
  \A r \in Requests : caller[r] = "new" =>
    Untouched(r) /\ ~Queued(r) /\ \A t \in Threads : ~Holds(t, r)

\* An answer is to a request TM1 carried out, unless it reports an error.
IsAnswer(r, n, failed) == n \in 1 .. MaxParts /\ failed \in BOOLEAN /\ (failed \/ carried[r] = 1)

\* What the broker holds for a request is a stretch of one answer.
Stored(r) ==
  \E n \in 1 .. MaxParts, failed \in BOOLEAN : \E m \in 1 .. n : \E k \in (m - 1) .. n :
    IsAnswer(r, n, failed) /\ answers[r] = SubSeq(SplitAnswer(n, failed), m, k)

\* What a thread has left to post follows what the broker holds.
Posting(t) ==
  \E n \in 1 .. MaxParts, failed \in BOOLEAN : \E k \in 1 .. n : \E m \in 1 .. k :
    /\ IsAnswer(thread[t].req, n, failed)
    /\ thread[t].out = SubSeq(SplitAnswer(n, failed), k, n)
    /\ answers[thread[t].req] = SubSeq(SplitAnswer(n, failed), m, k - 1)

PartsFollow ==
  /\ \A r \in Requests : Stored(r)
  /\ \A t \in Threads : thread[t].at = "post" => Posting(t)

\* A thread that carries something carries a request.
ThreadsHold ==
  \A t \in Threads : thread[t].at \in {"forward", "post"} => thread[t].req \in Requests

RelayInv ==
  /\ TypeOK /\ ThreadsHold
  /\ HandedOutOnce /\ NotSent
  /\ PartsFollow
  /\ CarriedOutOnce /\ AnswersAreWhole /\ LinkedGatewayExists

-----------------------------------------------------------------------------
(* What the steps do to the queue and to the parts.                        *)

\* Queueing a request that is not queued.
LEMMA QueueGrows ==
  ASSUME TypeOK, HandedOutOnce, NEW r \in Requests, ~Queued(r), queue' = Append(queue, r)
  PROVE  /\ queue' \in Seq(Requests)
         /\ \A i, j \in DOMAIN queue' : queue'[i] = queue'[j] => i = j
         /\ \A q \in Requests : Queued(q)' <=> Queued(q) \/ q = r
<1>1. queue \in Seq(Requests) /\ DOMAIN queue = 1 .. Len(queue) /\ Len(queue) \in Nat
  BY DEF TypeOK
<1>2. /\ queue' \in Seq(Requests) /\ DOMAIN queue' = 1 .. (Len(queue) + 1)
      /\ \A i \in 1 .. Len(queue) : queue'[i] = queue[i]
      /\ queue'[Len(queue) + 1] = r
  BY <1>1
<1>3. \A i, j \in DOMAIN queue' : queue'[i] = queue'[j] => i = j
  BY <1>1, <1>2 DEF HandedOutOnce, Queued
<1>4. \A q \in Requests : Queued(q)' <=> Queued(q) \/ q = r
  BY <1>1, <1>2 DEF Queued
<1> QED
  BY <1>2, <1>3, <1>4

\* Handing out the oldest request.
LEMMA QueueShrinks ==
  ASSUME TypeOK, HandedOutOnce, queue # << >>, queue' = Tail(queue), NEW r, r = Head(queue)
  PROVE  /\ queue' \in Seq(Requests)
         /\ \A i, j \in DOMAIN queue' : queue'[i] = queue'[j] => i = j
         /\ r \in Requests /\ Queued(r) /\ ~Queued(r)'
         /\ \A q \in Requests : Queued(q)' => Queued(q)
<1>1. /\ queue \in Seq(Requests) /\ DOMAIN queue = 1 .. Len(queue) /\ Len(queue) \in Nat
      /\ Len(queue) >= 1
  BY DEF TypeOK
<1>2. /\ queue' \in Seq(Requests) /\ DOMAIN queue' = 1 .. (Len(queue) - 1)
      /\ \A i \in 1 .. (Len(queue) - 1) : queue'[i] = queue[i + 1]
  BY <1>1
<1>3. r = queue[1] /\ r \in Requests
  BY <1>1
<1>4. \A i, j \in DOMAIN queue' : queue'[i] = queue'[j] => i = j
  BY <1>1, <1>2 DEF HandedOutOnce
<1>5. ASSUME NEW i \in DOMAIN queue' PROVE queue'[i] # r
  <2>1. i + 1 \in DOMAIN queue /\ 1 \in DOMAIN queue /\ i + 1 # 1 /\ queue'[i] = queue[i + 1]
    BY <1>1, <1>2
  <2> QED
    BY <1>3, <2>1 DEF HandedOutOnce
<1>6. Queued(r)
  BY <1>1, <1>3 DEF Queued
<1>7. \A q \in Requests : Queued(q)' => Queued(q)
  <2> SUFFICES ASSUME NEW q \in Requests, NEW i \in DOMAIN queue', queue'[i] = q PROVE Queued(q)
    BY DEF Queued
  <2>1. i + 1 \in DOMAIN queue /\ queue[i + 1] = q
    BY <1>1, <1>2
  <2> QED
    BY <2>1 DEF Queued
<1> QED
  BY <1>2, <1>3, <1>4, <1>5, <1>6, <1>7 DEF Queued

\* Nothing is a stretch of an answer that reports an error.
LEMMA NothingStored ==
  ASSUME ConstantsAreSound, NEW r \in Requests, answers'[r] = << >>
  PROVE  Stored(r)'
<1>1. 1 \in 1 .. MaxParts
  BY DEF ConstantsAreSound
<1>2. SplitAnswer(1, TRUE) \in Seq(Parts) /\ Len(SplitAnswer(1, TRUE)) = 1
  BY <1>1, AnswerParts
<1>3. SubSeq(SplitAnswer(1, TRUE), 1, 0) = << >>
  BY SubSeqEmpty
<1>4. IsAnswer(r, 1, TRUE)'
  BY <1>1 DEF IsAnswer
<1>5. 1 \in 1 .. 1 /\ 0 \in (1 - 1) .. 1
  OBVIOUS
<1> QED
  BY <1>1, <1>3, <1>4, <1>5 DEF Stored

\* What a step leaves alone stays so.
LEMMA StoredKept ==
  ASSUME NEW q \in Requests, Stored(q), answers'[q] = answers[q], carried'[q] = carried[q]
  PROVE  Stored(q)'
  BY DEF Stored, IsAnswer

LEMMA PostingKept ==
  ASSUME NEW u \in Threads, Posting(u), thread'[u] = thread[u],
         answers'[thread[u].req] = answers[thread[u].req],
         carried'[thread[u].req] = carried[thread[u].req]
  PROVE  Posting(u)'
<1>1. PICK n \in 1 .. MaxParts, failed \in BOOLEAN : \E k \in 1 .. n : \E m \in 1 .. k :
         /\ IsAnswer(thread[u].req, n, failed)
         /\ thread[u].out = SubSeq(SplitAnswer(n, failed), k, n)
         /\ answers[thread[u].req] = SubSeq(SplitAnswer(n, failed), m, k - 1)
  BY DEF Posting
<1>2. IsAnswer(thread[u].req, n, failed) => IsAnswer(thread[u].req, n, failed)'
  BY DEF IsAnswer
<1> QED
  BY <1>1, <1>2 DEF Posting

\* Parts may be dropped at any time.
LEMMA PartsDropped ==
  ASSUME ConstantsAreSound, RelayInv, UNCHANGED <<thread, carried>>,
         \A q \in Requests : answers'[q] = answers[q] \/ answers'[q] = << >>
  PROVE  PartsFollow'
<1>1. ASSUME NEW q \in Requests PROVE Stored(q)'
  <2>1. CASE answers'[q] = << >>
    BY <2>1, NothingStored
  <2>2. CASE answers'[q] = answers[q]
    BY <2>2 DEF RelayInv, PartsFollow, Stored, IsAnswer
  <2> QED
    BY <2>1, <2>2
<1>2. ASSUME NEW t \in Threads, thread[t].at = "post" PROVE Posting(t)'
  <2> DEFINE q == thread[t].req
  <2>1. Posting(t) /\ q \in Requests
    BY <1>2 DEF RelayInv, PartsFollow, ThreadsHold
  <2>2. PICK n \in 1 .. MaxParts, failed \in BOOLEAN : \E k \in 1 .. n : \E m \in 1 .. k :
           /\ IsAnswer(q, n, failed)
           /\ thread[t].out = SubSeq(SplitAnswer(n, failed), k, n)
           /\ answers[q] = SubSeq(SplitAnswer(n, failed), m, k - 1)
    BY <2>1 DEF Posting
  <2>3. PICK k \in 1 .. n : \E m \in 1 .. k :
           /\ IsAnswer(q, n, failed)
           /\ thread[t].out = SubSeq(SplitAnswer(n, failed), k, n)
           /\ answers[q] = SubSeq(SplitAnswer(n, failed), m, k - 1)
    BY <2>2
  <2>4. IsAnswer(q, n, failed)'
    BY <2>3 DEF IsAnswer
  <2>5. SubSeq(SplitAnswer(n, failed), k, k - 1) = << >> /\ k \in 1 .. k
    BY SubSeqEmpty DEF ConstantsAreSound
  <2>6. \E m \in 1 .. k : answers'[q] = SubSeq(SplitAnswer(n, failed), m, k - 1)
    BY <2>1, <2>3, <2>5
  <2> QED
    BY <2>3, <2>4, <2>6 DEF Posting
<1> QED
  BY <1>1, <1>2 DEF PartsFollow

\* A step that takes nothing out of the threads and adds nothing to the queue or to the
\* parts keeps the requests apart.
LEMMA HandsKept ==
  ASSUME HandedOutOnce, UNCHANGED <<thread, carried>>, queue' = queue \/ queue' = << >>,
         \A q \in Requests : answers'[q] = answers[q] \/ answers'[q] = << >>
  PROVE  /\ HandedOutOnce'
         /\ \A q \in Requests : /\ Queued(q)' => Queued(q)
                                /\ Untouched(q) => Untouched(q)'
                                /\ \A t \in Threads : Holds(t, q)' <=> Holds(t, q)
<1>1. \A q \in Requests : Queued(q)' => Queued(q)
  BY DEF Queued
<1>2. \A q \in Requests : Untouched(q) => Untouched(q)'
  BY DEF Untouched
<1>3. \A q \in Requests, t \in Threads : Holds(t, q)' <=> Holds(t, q)
  BY DEF Holds
<1>4. \A i, j \in DOMAIN queue' : queue'[i] = queue'[j] => i = j
  BY DEF HandedOutOnce
<1> QED
  BY <1>1, <1>2, <1>3, <1>4 DEF HandedOutOnce

-----------------------------------------------------------------------------
(* The backend's steps.                                                    *)

LEMMA SendKeeps ==
  ASSUME ConstantsAreSound, RelayInv, NEW r \in Requests, Send(r)
  PROVE  RelayInv'
<1>0. TypeOK /\ HandedOutOnce /\ NotSent
  BY DEF RelayInv
<1>1. /\ caller[r] = "new"
      /\ UNCHANGED <<shared, answers, received, carried, thread, version, key, linked>>
  BY DEF Send, admin
<1>2. Untouched(r) /\ ~Queued(r) /\ \A t \in Threads : ~Holds(t, r)
  BY <1>0, <1>1 DEF NotSent
<1>3. PICK fate \in {"waiting", "error"} : caller' = [caller EXCEPT ![r] = fate]
  BY DEF Send
<1>4. /\ queue' \in Seq(Requests)
      /\ \A i, j \in DOMAIN queue' : queue'[i] = queue'[j] => i = j
      /\ \A q \in Requests : q # r => (Queued(q)' <=> Queued(q))
  <2>1. CASE queue' = queue
    BY <1>0, <2>1 DEF TypeOK, HandedOutOnce, Queued
  <2>2. CASE queue' = Append(queue, r)
    BY <1>0, <1>2, <2>2, QueueGrows
  <2> QED
    BY <2>1, <2>2 DEF Send
<1>5. /\ \A q \in Requests : Untouched(q)' <=> Untouched(q)
      /\ \A q \in Requests, t \in Threads : Holds(t, q)' <=> Holds(t, q)
  BY <1>1 DEF Untouched, Holds
<1>6. caller' \in [Requests -> Fates] /\ \A q \in Requests : caller'[q] # caller[q] => q = r
  BY <1>0, <1>3 DEF TypeOK, Fates
<1>7. caller'[r] \notin {"new", "answered"}
  BY <1>0, <1>3 DEF TypeOK
<1>8. TypeOK'
  BY <1>0, <1>1, <1>4, <1>6 DEF TypeOK
<1>9. HandedOutOnce'
  BY <1>0, <1>1, <1>2, <1>4, <1>5 DEF HandedOutOnce
<1>10. NotSent'
  BY <1>0, <1>4, <1>5, <1>6, <1>7 DEF NotSent
<1>11. PartsFollow'
  BY <1>1, PartsDropped
<1>12. AnswersAreWhole'
  BY <1>1, <1>6, <1>7 DEF RelayInv, AnswersAreWhole
<1> QED
  BY <1>1, <1>8, <1>9, <1>10, <1>11, <1>12
  DEF RelayInv, ThreadsHold, CarriedOutOnce, LinkedGatewayExists

\* The caller is given a whole answer, in order, or an error.
LEMMA ReceiveGets ==
  ASSUME ConstantsAreSound, RelayInv, NEW r \in Requests, Complete(answers[r])
  PROVE  \E n \in 1 .. MaxParts, failed \in BOOLEAN :
           /\ IsAnswer(r, n, failed)
           /\ InOrder(answers[r]) = SplitAnswer(n, failed)
<1>1. PICK n \in 1 .. MaxParts, failed \in BOOLEAN : \E m \in 1 .. n : \E k \in (m - 1) .. n :
         IsAnswer(r, n, failed) /\ answers[r] = SubSeq(SplitAnswer(n, failed), m, k)
  BY DEF RelayInv, PartsFollow, Stored
<1> DEFINE a == SplitAnswer(n, failed)
<1>2. PICK m \in 1 .. n : \E k \in (m - 1) .. n :
         IsAnswer(r, n, failed) /\ answers[r] = SubSeq(a, m, k)
  BY <1>1
<1>3. PICK k \in (m - 1) .. n : IsAnswer(r, n, failed) /\ answers[r] = SubSeq(a, m, k)
  BY <1>2
<1>4. /\ a \in Seq(Parts) /\ Len(a) = n /\ DOMAIN a = 1 .. n
      /\ \A i \in 1 .. n : a[i].index = i - 1 /\ a[i].parts = n
  BY AnswerParts
<1> HIDE DEF a
<1>5. /\ Len(answers[r]) = k - m + 1 /\ SubSeq(a, 1, n) = a
      /\ k >= m => answers[r][1] = a[m]
  BY <1>3, <1>4, StretchParts
<1>6. n \in Nat /\ m \in Nat /\ k \in Int /\ 1 <= m /\ m <= n /\ m - 1 <= k /\ k <= n
  BY DEF ConstantsAreSound
<1>7. k >= m
  BY <1>5, <1>6 DEF Complete, RelayInv, TypeOK
<1>8. answers[r][1].parts = n
  BY <1>4, <1>5, <1>7
<1>9. m = 1 /\ k = n
  BY <1>5, <1>6, <1>8 DEF Complete
<1>10. InOrder(a) = a
  BY <1>4, InOrderIsSorting
<1> QED
  BY <1>3, <1>5, <1>9, <1>10 DEF a

LEMMA ReceiveKeeps ==
  ASSUME ConstantsAreSound, RelayInv, NEW r \in Requests, Receive(r)
  PROVE  RelayInv'
<1>0. TypeOK /\ HandedOutOnce /\ NotSent /\ AnswersAreWhole
  BY DEF RelayInv
<1> DEFINE parts == InOrder(answers[r])
<1>1. /\ caller[r] = "waiting" /\ Complete(answers[r])
      /\ received' = [received EXCEPT ![r] = parts]
      /\ caller' = [caller EXCEPT ![r] = IF parts[1].error THEN "error" ELSE "answered"]
      /\ answers' = [answers EXCEPT ![r] = << >>]
      /\ UNCHANGED <<shared, queue, carried, thread, version, key, linked>>
  BY DEF Receive, admin
<1>2. PICK n \in 1 .. MaxParts, failed \in BOOLEAN :
         IsAnswer(r, n, failed) /\ parts = SplitAnswer(n, failed)
  BY <1>1, ReceiveGets
<1>3. /\ parts \in Seq(Parts) /\ parts[1].error = failed /\ parts[1].parts = n
  <2>1. 1 \in 1 .. n
    BY DEF ConstantsAreSound
  <2> QED
    BY <1>2, <2>1, AnswerParts
<1> HIDE DEF parts
<1>4. \A q \in Requests : answers'[q] = answers[q] \/ answers'[q] = << >>
  BY <1>0, <1>1 DEF TypeOK
<1>5. TypeOK'
  <2>1. answers' \in [Requests -> Seq(Parts)]
    BY <1>0, <1>1 DEF TypeOK
  <2>2. received' \in [Requests -> Seq(Parts)]
    BY <1>0, <1>1, <1>3 DEF TypeOK
  <2>3. caller' \in [Requests -> Fates]
    BY <1>0, <1>1 DEF TypeOK, Fates
  <2> QED
    BY <1>0, <1>1, <2>1, <2>2, <2>3 DEF TypeOK
<1>6. /\ HandedOutOnce'
      /\ \A q \in Requests : /\ Queued(q)' => Queued(q)
                             /\ Untouched(q) => Untouched(q)'
                             /\ \A t \in Threads : Holds(t, q)' <=> Holds(t, q)
  BY <1>0, <1>1, <1>4, HandsKept
<1>7. /\ \A q \in Requests : q # r => caller'[q] = caller[q] /\ received'[q] = received[q]
      /\ received'[r] = parts
      /\ caller'[r] = IF failed THEN "error" ELSE "answered"
  BY <1>0, <1>1, <1>3 DEF TypeOK
<1>8. NotSent'
  BY <1>0, <1>6, <1>7 DEF NotSent
<1>9. AnswersAreWhole'
  <2> SUFFICES ASSUME NEW q \in Requests, caller'[q] = "answered"
               PROVE  received'[q] = SplitAnswer(received'[q][1].parts, FALSE) /\ carried'[q] = 1
    BY DEF AnswersAreWhole
  <2>1. CASE q # r
    BY <1>0, <1>1, <1>2, <1>7, <2>1 DEF AnswersAreWhole
  <2>2. CASE q = r
    <3>1. ~failed
      BY <1>7, <2>2
    <3>2. failed = FALSE
      BY <3>1
    <3>3. carried[r] = 1
      BY <1>2, <3>1 DEF IsAnswer
    <3> QED
      BY <1>1, <1>2, <1>3, <1>7, <2>2, <3>2, <3>3
  <2> QED
    BY <2>1, <2>2
<1>10. PartsFollow'
  BY <1>1, <1>4, PartsDropped
<1> QED
  BY <1>1, <1>5, <1>6, <1>8, <1>9, <1>10
  DEF RelayInv, ThreadsHold, CarriedOutOnce, LinkedGatewayExists

\* The caller gives up, or the broker forgets a list.
LEMMA DropKeeps ==
  ASSUME ConstantsAreSound, RelayInv,
         (\E r \in Requests : Timeout(r)) \/ Expire
  PROVE  RelayInv'
<1>0. TypeOK /\ HandedOutOnce /\ NotSent /\ AnswersAreWhole
  BY DEF RelayInv
<1>1. UNCHANGED <<shared, received, carried, thread, version, key, linked>>
  BY DEF Timeout, Expire, admin, backend
<1>2. queue' = queue \/ queue' = << >>
  BY DEF Timeout, Expire
<1>3. \/ answers' = answers
      \/ \E q \in Requests : answers' = [answers EXCEPT ![q] = << >>]
  BY DEF Timeout, Expire
<1>4. /\ answers' \in [Requests -> Seq(Parts)]
      /\ \A q \in Requests : answers'[q] = answers[q] \/ answers'[q] = << >>
  <2>1. CASE answers' = answers
    BY <1>0, <2>1 DEF TypeOK
  <2>2. ASSUME NEW q \in Requests, answers' = [answers EXCEPT ![q] = << >>]
        PROVE  /\ answers' \in [Requests -> Seq(Parts)]
               /\ \A r \in Requests : answers'[r] = answers[r] \/ answers'[r] = << >>
    BY <1>0, <2>2 DEF TypeOK
  <2> QED
    BY <1>3, <2>1, <2>2
<1>5. /\ caller' \in [Requests -> Fates]
      /\ \A q \in Requests : caller'[q] \in {"new", "answered"} => caller'[q] = caller[q]
  BY <1>0 DEF TypeOK, Timeout, Expire, backend, Fates
<1>6. /\ HandedOutOnce'
      /\ \A q \in Requests : /\ Queued(q)' => Queued(q)
                             /\ Untouched(q) => Untouched(q)'
                             /\ \A t \in Threads : Holds(t, q)' <=> Holds(t, q)
  BY <1>0, <1>1, <1>2, <1>4, HandsKept
<1>7. TypeOK'
  <2>1. queue' \in Seq(Requests)
    <3>1. queue \in Seq(Requests) /\ << >> \in Seq(Requests)
      BY <1>0, EmptySeq DEF TypeOK
    <3> QED
      BY <1>2, <3>1
  <2> QED
    BY <1>0, <1>1, <1>4, <1>5, <2>1 DEF TypeOK
<1>8. NotSent'
  BY <1>0, <1>5, <1>6 DEF NotSent
<1>9. AnswersAreWhole'
  BY <1>0, <1>1, <1>5 DEF AnswersAreWhole
<1>10. PartsFollow'
  BY <1>1, <1>4, PartsDropped
<1> QED
  BY <1>1, <1>6, <1>7, <1>8, <1>9, <1>10
  DEF RelayInv, ThreadsHold, CarriedOutOnce, LinkedGatewayExists

-----------------------------------------------------------------------------
(* The gateway's steps.                                                    *)

ThreadRows == [at : {"idle", "polling", "forward", "post"}, req : Requests \cup {None},
               out : Seq(Parts)]

\* A thread moves to another row.
LEMMA ThreadStep ==
  ASSUME TypeOK, NEW t \in Threads, NEW row \in ThreadRows, thread' = [thread EXCEPT ![t] = row]
  PROVE  /\ thread' \in [Threads -> ThreadRows] /\ thread'[t] = row
         /\ \A u \in Threads : u # t => thread'[u] = thread[u]
  BY DEF TypeOK, ThreadRows

LEMMA IdleRow == Idle \in ThreadRows /\ Idle.at = "idle"
  BY EmptySeq DEF Idle, ThreadRows

\* A thread that carries nothing comes to carry nothing.
LEMMA RestKeeps ==
  ASSUME ConstantsAreSound, RelayInv, NEW t \in Threads, Poll(t) \/ PollEnds(t)
  PROVE  RelayInv'
<1>0. TypeOK /\ HandedOutOnce /\ NotSent
  BY DEF RelayInv
<1>1. /\ thread[t].at \in {"idle", "polling"}
      /\ UNCHANGED <<shared, queue, answers, caller, received, carried, version, key, linked>>
  BY DEF Poll, PollEnds, broker, backend, admin
<1>2. PICK row \in ThreadRows :
         thread' = [thread EXCEPT ![t] = row] /\ row.at \in {"idle", "polling"}
  <2>1. CASE PollEnds(t)
    BY <2>1, IdleRow DEF PollEnds
  <2>2. CASE Poll(t)
    <3>1. thread[t] \in ThreadRows
      BY <1>0 DEF TypeOK, ThreadRows
    <3>2. /\ [thread[t] EXCEPT !.at = "polling"] \in ThreadRows
          /\ [thread[t] EXCEPT !.at = "polling"].at = "polling"
      BY <3>1 DEF ThreadRows
    <3>3. thread' = [thread EXCEPT ![t] = [thread[t] EXCEPT !.at = "polling"]]
      BY <2>2 DEF Poll
    <3> QED
      BY <3>2, <3>3
  <2> QED
    BY <2>1, <2>2
<1>3. /\ thread' \in [Threads -> ThreadRows] /\ thread'[t] = row
      /\ \A u \in Threads : u # t => thread'[u] = thread[u]
  BY <1>0, <1>2, ThreadStep
<1>4. /\ \A q \in Requests, u \in Threads : Holds(u, q)' <=> Holds(u, q)
      /\ \A q \in Requests : (Queued(q)' <=> Queued(q)) /\ (Untouched(q)' <=> Untouched(q))
  BY <1>1, <1>2, <1>3 DEF Holds, Queued, Untouched
<1>5. TypeOK'
  BY <1>0, <1>1, <1>3 DEF TypeOK, ThreadRows
<1>6. HandedOutOnce'
  <2>1. \A q \in Requests, u \in Threads :
          Holds(u, q)' /\ thread'[u].at = "forward" => Untouched(q)'
    BY <1>0, <1>2, <1>3, <1>4 DEF HandedOutOnce
  <2> QED
    BY <1>0, <1>1, <1>4, <2>1 DEF HandedOutOnce
<1>7. NotSent'
  BY <1>0, <1>1, <1>4 DEF NotSent
<1>8. PartsFollow'
  <2>1. \A q \in Requests : Stored(q)'
    BY <1>1, StoredKept DEF RelayInv, PartsFollow
  <2>2. \A u \in Threads : thread'[u].at = "post" => Posting(u)'
    BY <1>1, <1>2, <1>3, PostingKept DEF RelayInv, PartsFollow
  <2> QED
    BY <2>1, <2>2 DEF PartsFollow
<1>9. ThreadsHold'
  BY <1>2, <1>3 DEF RelayInv, ThreadsHold
<1> QED
  BY <1>1, <1>5, <1>6, <1>7, <1>8, <1>9
  DEF RelayInv, CarriedOutOnce, AnswersAreWhole, LinkedGatewayExists

\* A request leaves the queue for one thread, or is lost.
LEMMA TakeKeeps ==
  ASSUME ConstantsAreSound, RelayInv, NEW t \in Threads, Take(t)
  PROVE  RelayInv'
<1>0. TypeOK /\ HandedOutOnce /\ NotSent
  BY DEF RelayInv
<1>1. /\ thread[t].at = "polling" /\ queue # << >> /\ queue' = Tail(queue)
      /\ UNCHANGED <<shared, answers, caller, received, carried, version, key, linked>>
  BY DEF Take, backend, admin
<1>2. PICK r : r = Head(queue)
  OBVIOUS
<1>3. /\ queue' \in Seq(Requests)
      /\ \A i, j \in DOMAIN queue' : queue'[i] = queue'[j] => i = j
      /\ r \in Requests /\ Queued(r) /\ ~Queued(r)'
      /\ \A q \in Requests : Queued(q)' => Queued(q)
  BY <1>0, <1>1, <1>2, QueueShrinks
<1>4. PICK row \in ThreadRows :
         /\ thread' = [thread EXCEPT ![t] = row]
         /\ row.at = "idle" \/ (row.at = "forward" /\ row.req = r)
  <2>1. CASE thread' = [thread EXCEPT ![t] = Idle]
    <3>1. Idle \in ThreadRows /\ Idle.at = "idle"
      BY IdleRow
    <3> QED
      BY <2>1, <3>1
  <2>2. CASE thread' = [thread EXCEPT ![t].at = "forward", ![t].req = Head(queue)]
    <3> DEFINE row == [thread[t] EXCEPT !.at = "forward", !.req = r]
    <3>1. thread[t] \in ThreadRows
      BY <1>0 DEF TypeOK, ThreadRows
    <3>2. row \in ThreadRows /\ row.at = "forward" /\ row.req = r
      BY <1>3, <3>1 DEF ThreadRows
    <3>3. thread' = [thread EXCEPT ![t] = row]
      BY <1>2, <2>2
    <3> QED
      BY <3>2, <3>3
  <2> QED
    BY <2>1, <2>2 DEF Take
<1>5. /\ thread' \in [Threads -> ThreadRows] /\ thread'[t] = row
      /\ \A u \in Threads : u # t => thread'[u] = thread[u]
  BY <1>0, <1>4, ThreadStep
<1>6. /\ \A q \in Requests, u \in Threads : u # t => (Holds(u, q)' <=> Holds(u, q))
      /\ \A q \in Requests : Holds(t, q)' => q = r
      /\ \A q \in Requests : Untouched(q)' <=> Untouched(q)
  BY <1>1, <1>4, <1>5 DEF Holds, Untouched
<1>7. Untouched(r) /\ \A u \in Threads : ~Holds(u, r)
  BY <1>0, <1>3 DEF HandedOutOnce
<1>8. TypeOK'
  BY <1>0, <1>1, <1>3, <1>5 DEF TypeOK, ThreadRows
<1>9. HandedOutOnce'
  <2>1. ASSUME NEW q \in Requests, NEW u \in Threads, Holds(u, q)'
        PROVE  ~Queued(q)'
    BY <1>0, <1>3, <1>6, <1>7, <2>1 DEF HandedOutOnce
  <2>2. ASSUME NEW q \in Requests, NEW u \in Threads, Holds(u, q)'
        PROVE  \A v \in Threads : Holds(v, q)' => v = u
    BY <1>0, <1>6, <1>7, <2>2 DEF HandedOutOnce
  <2>3. ASSUME NEW q \in Requests, NEW u \in Threads, Holds(u, q)', thread'[u].at = "forward"
        PROVE  Untouched(q)'
    BY <1>0, <1>5, <1>6, <1>7, <2>3 DEF HandedOutOnce
  <2>4. \A q \in Requests : Queued(q)' => Untouched(q)'
    BY <1>0, <1>3, <1>6 DEF HandedOutOnce
  <2> QED
    BY <1>3, <2>1, <2>2, <2>3, <2>4 DEF HandedOutOnce
<1>10. NotSent'
  BY <1>0, <1>1, <1>3, <1>6 DEF NotSent
<1>11. PartsFollow'
  <2>1. \A q \in Requests : Stored(q)'
    BY <1>1, StoredKept DEF RelayInv, PartsFollow
  <2>2. \A u \in Threads : thread'[u].at = "post" => Posting(u)'
    BY <1>1, <1>4, <1>5, PostingKept DEF RelayInv, PartsFollow
  <2> QED
    BY <2>1, <2>2 DEF PartsFollow
<1>12. ThreadsHold'
  BY <1>3, <1>4, <1>5 DEF RelayInv, ThreadsHold
<1> QED
  BY <1>1, <1>8, <1>9, <1>10, <1>11, <1>12
  DEF RelayInv, CarriedOutOnce, AnswersAreWhole, LinkedGatewayExists

\* TM1 is asked, or the target refused, and an answer is made of what came of it.
LEMMA ForwardKeeps ==
  ASSUME ConstantsAreSound, RelayInv, NEW t \in Threads, Forward(t)
  PROVE  RelayInv'
<1>0. TypeOK /\ HandedOutOnce /\ NotSent /\ AnswersAreWhole /\ CarriedOutOnce
  BY DEF RelayInv
<1> DEFINE r == thread[t].req
<1>1. /\ thread[t].at = "forward" /\ r \in Requests
      /\ UNCHANGED <<shared, queue, answers, caller, received, version, key, linked>>
  BY DEF Forward, broker, backend, admin, RelayInv, ThreadsHold
<1>2. Holds(t, r) /\ ~Queued(r) /\ carried[r] = 0 /\ answers[r] = << >>
      /\ \A u \in Threads : Holds(u, r) => u = t
  BY <1>0, <1>1 DEF Holds, HandedOutOnce, Untouched
<1>3. PICK n \in 1 .. MaxParts, failed \in BOOLEAN :
         /\ thread' = [thread EXCEPT ![t].at = "post", ![t].out = SplitAnswer(n, failed)]
         /\ \/ failed /\ carried' = carried
            \/ r \in Listed /\ carried' = [carried EXCEPT ![r] = @ + 1]
  <2>1. 1 \in 1 .. MaxParts
    BY DEF ConstantsAreSound
  <2> QED
    BY <2>1 DEF Forward
<1> DEFINE row == [thread[t] EXCEPT !.at = "post", !.out = SplitAnswer(n, failed)]
<1>4. row \in ThreadRows /\ row.at = "post" /\ row.req = r /\ row.out = SplitAnswer(n, failed)
  <2>1. thread[t] \in ThreadRows
    BY <1>0 DEF TypeOK, ThreadRows
  <2>2. SplitAnswer(n, failed) \in Seq(Parts)
    BY AnswerParts
  <2> QED
    BY <2>1, <2>2 DEF ThreadRows
<1>5. thread' = [thread EXCEPT ![t] = row]
  BY <1>3
<1> HIDE DEF row
<1>6. /\ thread' \in [Threads -> ThreadRows] /\ thread'[t] = row
      /\ \A u \in Threads : u # t => thread'[u] = thread[u]
  BY <1>0, <1>4, <1>5, ThreadStep
<1>7. /\ carried' \in [Requests -> Nat]
      /\ \A q \in Requests : q # r => carried'[q] = carried[q]
      /\ carried'[r] <= (IF r \in Listed THEN 1 ELSE 0) /\ (failed \/ carried'[r] = 1)
  <2>1. CASE failed /\ carried' = carried
    BY <1>0, <1>2, <2>1 DEF TypeOK, CarriedOutOnce
  <2>2. CASE r \in Listed /\ carried' = [carried EXCEPT ![r] = @ + 1]
    BY <1>0, <1>1, <1>2, <2>2 DEF TypeOK
  <2> QED
    BY <1>3, <2>1, <2>2
<1>8. /\ \A q \in Requests, u \in Threads : Holds(u, q)' <=> Holds(u, q)
      /\ \A q \in Requests : Queued(q)' <=> Queued(q)
      /\ \A q \in Requests : q # r => (Untouched(q)' <=> Untouched(q))
  BY <1>1, <1>4, <1>6, <1>7 DEF Holds, Queued, Untouched
<1>9. TypeOK'
  BY <1>0, <1>1, <1>6, <1>7 DEF TypeOK, ThreadRows
<1>10. HandedOutOnce'
  <2>1. ASSUME NEW q \in Requests, NEW u \in Threads, Holds(u, q)', thread'[u].at = "forward"
        PROVE  Untouched(q)'
    <3>1. u # t /\ Holds(u, q) /\ thread[u].at = "forward"
      BY <1>4, <1>6, <1>8, <2>1
    <3>2. q # r
      BY <1>2, <3>1
    <3> QED
      BY <1>0, <1>8, <3>1, <3>2 DEF HandedOutOnce
  <2>2. \A q \in Requests : Queued(q)' => Untouched(q)'
    BY <1>0, <1>2, <1>8 DEF HandedOutOnce
  <2>3. \A i, j \in DOMAIN queue' : queue'[i] = queue'[j] => i = j
    BY <1>0, <1>1 DEF HandedOutOnce
  <2>4. \A q \in Requests, u \in Threads : Holds(u, q)' =>
          ~Queued(q)' /\ \A v \in Threads : Holds(v, q)' => v = u
    BY <1>0, <1>8 DEF HandedOutOnce
  <2> QED
    BY <2>1, <2>2, <2>3, <2>4 DEF HandedOutOnce
<1>11. NotSent'
  BY <1>0, <1>1, <1>2, <1>8 DEF NotSent
<1>12. CarriedOutOnce'
  BY <1>0, <1>7 DEF CarriedOutOnce
<1>13. AnswersAreWhole'
  <2> SUFFICES ASSUME NEW q \in Requests, caller'[q] = "answered"
               PROVE  received'[q] = SplitAnswer(received'[q][1].parts, FALSE) /\ carried'[q] = 1
    BY DEF AnswersAreWhole
  <2>1. received[q] = SplitAnswer(received[q][1].parts, FALSE) /\ carried[q] = 1
    BY <1>0, <1>1 DEF AnswersAreWhole
  <2>2. q # r
    BY <1>2, <2>1
  <2> QED
    BY <1>1, <1>7, <2>1, <2>2
<1>14. ASSUME NEW q \in Requests PROVE Stored(q)'
  <2>1. CASE q = r
    BY <1>1, <1>2, <2>1, NothingStored
  <2>2. CASE q # r
    BY <1>1, <1>7, <2>2, StoredKept DEF RelayInv, PartsFollow
  <2> QED
    BY <2>1, <2>2
<1>15. ASSUME NEW u \in Threads, thread'[u].at = "post" PROVE Posting(u)'
  <2>1. CASE u # t
    <3>1. thread'[u] = thread[u] /\ thread[u].req \in Requests /\ thread[u].req # r /\ Posting(u)
      <4>1. thread'[u] = thread[u] /\ thread[u].at = "post"
        BY <1>6, <1>15, <2>1
      <4> QED
        BY <1>2, <2>1, <4>1 DEF Holds, RelayInv, ThreadsHold, PartsFollow
    <3> QED
      BY <1>1, <1>7, <3>1 DEF Posting, IsAnswer
  <2>2. CASE u = t
    <3>1. thread'[u].req = r /\ thread'[u].out = SplitAnswer(n, failed)
      BY <1>4, <1>6, <2>2
    <3>2. /\ SplitAnswer(n, failed) \in Seq(Parts) /\ Len(SplitAnswer(n, failed)) = n
          /\ n \in Nat /\ 1 \in 1 .. n /\ 1 \in 1 .. 1
      BY AnswerParts DEF ConstantsAreSound
    <3>3. SubSeq(SplitAnswer(n, failed), 1, n) = SplitAnswer(n, failed)
      BY <3>2, SubSeqFull
    <3>4. SubSeq(SplitAnswer(n, failed), 1, 1 - 1) = << >>
      BY SubSeqEmpty
    <3>5. answers'[r] = << >> /\ (failed \/ carried'[r] = 1)
      BY <1>1, <1>2, <1>7
    <3> QED
      BY <3>1, <3>2, <3>3, <3>4, <3>5 DEF Posting, IsAnswer
  <2> QED
    BY <2>1, <2>2
<1>16. ThreadsHold'
  BY <1>1, <1>4, <1>6 DEF RelayInv, ThreadsHold
<1>17. PartsFollow'
  BY <1>14, <1>15 DEF PartsFollow
<1> QED
  BY <1>1, <1>9, <1>10, <1>11, <1>12, <1>13, <1>16, <1>17 DEF RelayInv, LinkedGatewayExists

\* A thread that posts has a place in one answer, and what the broker holds of it ends
\* there.
LEMMA PostingAt ==
  ASSUME ConstantsAreSound, RelayInv, NEW t \in Threads, thread[t].at = "post"
  PROVE  \E n \in 1 .. MaxParts, failed \in BOOLEAN : \E k \in 1 .. n : \E m \in 1 .. k :
           LET a == SplitAnswer(n, failed) IN
           /\ IsAnswer(thread[t].req, n, failed)
           /\ a \in Seq(Parts) /\ Len(a) = n
           /\ Head(thread[t].out) = a[k] /\ a[k] \in Parts
           /\ Len(thread[t].out) = n - k + 1
           /\ Tail(thread[t].out) = SubSeq(a, k + 1, n)
           /\ Append(answers[thread[t].req], Head(thread[t].out)) = SubSeq(a, m, k)
<1> DEFINE r == thread[t].req
<1>1. Posting(t)
  BY DEF RelayInv, PartsFollow
<1>2. PICK n \in 1 .. MaxParts, failed \in BOOLEAN : \E k \in 1 .. n : \E m \in 1 .. k :
         /\ IsAnswer(r, n, failed)
         /\ thread[t].out = SubSeq(SplitAnswer(n, failed), k, n)
         /\ answers[r] = SubSeq(SplitAnswer(n, failed), m, k - 1)
  BY <1>1 DEF Posting
<1> DEFINE a == SplitAnswer(n, failed)
<1>3. PICK k \in 1 .. n : \E m \in 1 .. k :
         /\ IsAnswer(r, n, failed)
         /\ thread[t].out = SubSeq(a, k, n)
         /\ answers[r] = SubSeq(a, m, k - 1)
  BY <1>2
<1>4. PICK m \in 1 .. k : /\ IsAnswer(r, n, failed)
                          /\ thread[t].out = SubSeq(a, k, n)
                          /\ answers[r] = SubSeq(a, m, k - 1)
  BY <1>3
<1>5. a \in Seq(Parts) /\ Len(a) = n /\ \A i \in 1 .. n : a[i] \in Parts
  BY AnswerParts
<1> HIDE DEF a
<1>6. /\ Len(SubSeq(a, k, n)) = n - k + 1
      /\ Head(SubSeq(a, k, n)) = a[k]
      /\ Tail(SubSeq(a, k, n)) = SubSeq(a, k + 1, n)
      /\ Append(SubSeq(a, m, k - 1), a[k]) = SubSeq(a, m, k)
  BY <1>5, StretchMoves
<1>7. /\ Head(thread[t].out) = a[k] /\ a[k] \in Parts
      /\ Len(thread[t].out) = n - k + 1
      /\ Tail(thread[t].out) = SubSeq(a, k + 1, n)
      /\ Append(answers[r], Head(thread[t].out)) = SubSeq(a, m, k)
  BY <1>4, <1>5, <1>6
<1> QED
  BY <1>4, <1>5, <1>7 DEF a

\* A part reaches the broker or is lost, and the thread goes on or gives up.
LEMMA PostKeeps ==
  ASSUME ConstantsAreSound, RelayInv, NEW t \in Threads, Post(t) \/ PostFails(t)
  PROVE  RelayInv'
<1>0. TypeOK /\ HandedOutOnce /\ NotSent /\ AnswersAreWhole
  BY DEF RelayInv
<1> DEFINE r == thread[t].req
<1>1. /\ thread[t].at = "post" /\ r \in Requests
      /\ UNCHANGED <<shared, queue, caller, received, carried, version, key, linked>>
  BY DEF Post, PostFails, backend, admin, RelayInv, ThreadsHold
<1>2. Holds(t, r) /\ ~Queued(r) /\ \A u \in Threads : Holds(u, r) => u = t
  BY <1>0, <1>1 DEF Holds, HandedOutOnce
<1>3. PICK n \in 1 .. MaxParts, failed \in BOOLEAN : \E k \in 1 .. n : \E m \in 1 .. k :
           LET a == SplitAnswer(n, failed) IN
           /\ IsAnswer(r, n, failed)
           /\ a \in Seq(Parts) /\ Len(a) = n
           /\ Head(thread[t].out) = a[k] /\ a[k] \in Parts
           /\ Len(thread[t].out) = n - k + 1
           /\ Tail(thread[t].out) = SubSeq(a, k + 1, n)
           /\ Append(answers[r], Head(thread[t].out)) = SubSeq(a, m, k)
  BY <1>1, PostingAt
<1> DEFINE a == SplitAnswer(n, failed)
<1>3a. PICK k \in 1 .. n : \E m \in 1 .. k :
           /\ IsAnswer(r, n, failed)
           /\ a \in Seq(Parts) /\ Len(a) = n
           /\ Head(thread[t].out) = a[k] /\ a[k] \in Parts
           /\ Len(thread[t].out) = n - k + 1
           /\ Tail(thread[t].out) = SubSeq(a, k + 1, n)
           /\ Append(answers[r], Head(thread[t].out)) = SubSeq(a, m, k)
  BY <1>3
<1>4. PICK m \in 1 .. k :
           /\ IsAnswer(r, n, failed)
           /\ a \in Seq(Parts) /\ Len(a) = n
           /\ Head(thread[t].out) = a[k] /\ a[k] \in Parts
           /\ Len(thread[t].out) = n - k + 1
           /\ Tail(thread[t].out) = SubSeq(a, k + 1, n)
           /\ Append(answers[r], Head(thread[t].out)) = SubSeq(a, m, k)
  BY <1>3a
<1>5. n \in Nat /\ k \in Nat /\ m \in Nat /\ 1 <= m /\ m <= k /\ k <= n
  BY DEF ConstantsAreSound
<1> HIDE DEF a
<1>6. \/ answers' = answers
      \/ answers' = [answers EXCEPT ![r] = SubSeq(a, m, k)]
  BY <1>4 DEF Post, PostFails
<1>7. /\ answers' \in [Requests -> Seq(Parts)]
      /\ \A q \in Requests : q # r => answers'[q] = answers[q]
      /\ answers'[r] = answers[r] \/ answers'[r] = SubSeq(a, m, k)
  <2>1. SubSeq(a, m, k) \in Seq(Parts)
    BY <1>4, <1>5, StretchParts
  <2>2. CASE answers' = answers
    BY <1>0, <2>2 DEF TypeOK
  <2>3. CASE answers' = [answers EXCEPT ![r] = SubSeq(a, m, k)]
    BY <1>0, <1>1, <2>1, <2>3 DEF TypeOK
  <2> QED
    BY <1>6, <2>2, <2>3
<1>8. PICK row \in ThreadRows :
         /\ thread' = [thread EXCEPT ![t] = row]
         /\ \/ row.at = "idle"
            \/ /\ row.at = "post" /\ row.req = r /\ row.out = SubSeq(a, k + 1, n) /\ k < n
               /\ answers'[r] = SubSeq(a, m, k)
  <2>1. CASE thread' = [thread EXCEPT ![t] = Idle]
    <3>1. Idle \in ThreadRows /\ Idle.at = "idle"
      BY IdleRow
    <3> QED
      BY <2>1, <3>1
  <2>2. CASE thread' # [thread EXCEPT ![t] = Idle]
    <3> DEFINE row == [thread[t] EXCEPT !.out = Tail(thread[t].out)]
    <3>0. Post(t)
      BY <2>2 DEF PostFails
    <3>0a. answers' = [answers EXCEPT ![r] = Append(@, Head(thread[t].out))]
      BY <3>0 DEF Post
    <3>0b. Len(thread[t].out) # 1
      BY <3>0, <2>2 DEF Post
    <3>1. /\ thread' = [thread EXCEPT ![t] = row] /\ Len(thread[t].out) # 1
          /\ answers' = [answers EXCEPT ![r] = Append(@, Head(thread[t].out))]
      <4>1. thread' = [thread EXCEPT ![t] =
                         IF Len(thread[t].out) = 1 THEN Idle
                         ELSE [thread[t] EXCEPT !.out = Tail(thread[t].out)]]
        BY <3>0 DEF Post
      <4>2. thread' = [thread EXCEPT ![t] = row]
        BY <3>0b, <4>1
      <4> QED
        BY <3>0a, <3>0b, <4>2
    <3>2. thread[t] \in ThreadRows
      BY <1>0 DEF TypeOK, ThreadRows
    <3>3. k < n
      BY <1>4, <1>5, <3>1
    <3>4. k + 1 \in 1 .. n
      BY <1>5, <3>3
    <3>5. SubSeq(a, k + 1, n) \in Seq(Parts)
      BY <1>4, <1>5, <3>4, StretchParts
    <3>6. row \in ThreadRows /\ row.at = "post" /\ row.req = r /\ row.out = SubSeq(a, k + 1, n)
      BY <1>1, <1>4, <3>2, <3>5 DEF ThreadRows
    <3>7. answers'[r] = SubSeq(a, m, k)
      BY <1>0, <1>1, <1>4, <3>1 DEF TypeOK
    <3> QED
      BY <3>1, <3>3, <3>6, <3>7
  <2> QED
    BY <2>1, <2>2
<1>9. /\ thread' \in [Threads -> ThreadRows] /\ thread'[t] = row
      /\ \A u \in Threads : u # t => thread'[u] = thread[u]
  BY <1>0, <1>8, ThreadStep
<1>10. /\ \A q \in Requests, u \in Threads : Holds(u, q)' => Holds(u, q)
       /\ \A q \in Requests : Queued(q)' <=> Queued(q)
       /\ \A q \in Requests : q # r => (Untouched(q)' <=> Untouched(q))
  BY <1>1, <1>7, <1>8, <1>9 DEF Holds, Queued, Untouched
<1>11. TypeOK'
  BY <1>0, <1>1, <1>7, <1>9 DEF TypeOK, ThreadRows
<1>12. HandedOutOnce'
  <2>1. ASSUME NEW q \in Requests, NEW u \in Threads, Holds(u, q)', thread'[u].at = "forward"
        PROVE  Untouched(q)'
    <3>1. u # t /\ Holds(u, q) /\ thread[u].at = "forward"
      BY <1>8, <1>9, <1>10, <2>1
    <3>2. q # r
      BY <1>2, <3>1
    <3> QED
      BY <1>0, <1>10, <3>1, <3>2 DEF HandedOutOnce
  <2>2. \A q \in Requests : Queued(q)' => Untouched(q)'
    BY <1>0, <1>2, <1>10 DEF HandedOutOnce
  <2>3. \A i, j \in DOMAIN queue' : queue'[i] = queue'[j] => i = j
    BY <1>0, <1>1 DEF HandedOutOnce
  <2>4. \A q \in Requests, u \in Threads : Holds(u, q)' =>
          ~Queued(q)' /\ \A v \in Threads : Holds(v, q)' => v = u
    BY <1>0, <1>10 DEF HandedOutOnce
  <2> QED
    BY <2>1, <2>2, <2>3, <2>4 DEF HandedOutOnce
<1>13. NotSent'
  BY <1>0, <1>1, <1>2, <1>10 DEF NotSent
<1>14. AnswersAreWhole'
  BY <1>0, <1>1 DEF AnswersAreWhole
<1>15. ASSUME NEW q \in Requests PROVE Stored(q)'
  <2>1. CASE answers'[q] = answers[q]
    BY <1>1, <2>1, StoredKept DEF RelayInv, PartsFollow
  <2>2. CASE answers'[q] # answers[q]
    <3>1. q = r /\ answers'[q] = SubSeq(a, m, k)
      BY <1>7, <2>2
    <3>2. m \in 1 .. n /\ k \in (m - 1) .. n
      BY <1>5
    <3>3. IsAnswer(q, n, failed)'
      BY <1>1, <1>4, <3>1 DEF IsAnswer
    <3> QED
      BY <3>1, <3>2, <3>3 DEF Stored, a
  <2> QED
    BY <2>1, <2>2
<1>16. ASSUME NEW u \in Threads, thread'[u].at = "post" PROVE Posting(u)'
  <2>1. CASE u # t
    <3>1. thread'[u] = thread[u] /\ thread[u].at = "post"
      BY <1>9, <1>16, <2>1
    <3>2. thread[u].req \in Requests /\ thread[u].req # r /\ Posting(u)
      BY <1>2, <2>1, <3>1 DEF Holds, RelayInv, ThreadsHold, PartsFollow
    <3> QED
      BY <1>1, <1>7, <3>1, <3>2, PostingKept
  <2>2. CASE u = t
    <3>1. /\ thread'[u].req = r /\ thread'[u].out = SubSeq(a, k + 1, n) /\ k < n
          /\ answers'[r] = SubSeq(a, m, k)
      BY <1>8, <1>9, <1>16, <2>2
    <3>2. k + 1 \in 1 .. n /\ m \in 1 .. (k + 1) /\ (k + 1) - 1 = k
      BY <1>5, <3>1
    <3>3. PICK q \in Requests : q = r
      BY <1>1
    <3>4. IsAnswer(q, n, failed)'
      BY <1>1, <1>4, <3>3 DEF IsAnswer
    <3>5. /\ thread'[u].req = q /\ answers'[q] = SubSeq(a, m, (k + 1) - 1)
          /\ thread'[u].out = SubSeq(a, k + 1, n)
      BY <3>1, <3>2, <3>3
    <3> QED
      BY <3>2, <3>4, <3>5 DEF Posting, a, IsAnswer
  <2> QED
    BY <2>1, <2>2
<1>17. ThreadsHold'
  BY <1>1, <1>8, <1>9 DEF RelayInv, ThreadsHold
<1>18. PartsFollow'
  BY <1>15, <1>16 DEF PartsFollow
<1> QED
  BY <1>1, <1>11, <1>12, <1>13, <1>14, <1>17, <1>18
  DEF RelayInv, CarriedOutOnce, LinkedGatewayExists

-----------------------------------------------------------------------------
(* Administrators, and the theorems.                                       *)

\* What is only about the requests does not depend on keys and connections.
LEMMA RequestsUntouched ==
  ASSUME RelayInv, TypeOK', LinkedGatewayExists',
         UNCHANGED <<queue, answers, caller, received, carried, thread>>
  PROVE  RelayInv'
<1>1. HandedOutOnce' /\ NotSent'
  BY DEF RelayInv, HandedOutOnce, NotSent, Queued, Holds, Untouched
<1>2. PartsFollow'
  <2>1. \A q \in Requests : Stored(q)'
    BY StoredKept DEF RelayInv, PartsFollow
  <2>2. \A u \in Threads : thread'[u].at = "post" => Posting(u)'
    BY PostingKept DEF RelayInv, PartsFollow
  <2> QED
    BY <2>1, <2>2 DEF PartsFollow
<1> QED
  BY <1>1, <1>2 DEF RelayInv, ThreadsHold, CarriedOutOnce, AnswersAreWhole

LEMMA AdminKeeps ==
  ASSUME ConstantsAreSound, RelayInv, AdminStep
  PROVE  RelayInv'
<1>1. UNCHANGED <<shared, queue, answers, caller, received, carried, thread>>
  BY DEF AdminStep, RotateKey, Setup, Link, Delete, broker, backend
<1>2. /\ version \in 0 .. MaxVersion /\ key \in 0 .. MaxVersion /\ linked \in BOOLEAN
      /\ (linked => version > 0) /\ MaxVersion \in Nat
  BY DEF RelayInv, TypeOK, LinkedGatewayExists, ConstantsAreSound
<1>3. /\ version' \in 0 .. MaxVersion /\ key' \in 0 .. MaxVersion /\ linked' \in BOOLEAN
      /\ (linked' => version' > 0)
  <2>1. CASE RotateKey
    BY <1>2, <2>1 DEF RotateKey
  <2>2. CASE Setup
    BY <1>2, <2>2 DEF Setup
  <2>3. CASE Link
    <3>1. version > 0 /\ version' = version /\ key' = key /\ linked' = ~linked
      BY <2>3 DEF Link
    <3>3. linked' \in BOOLEAN
      BY <1>2, <3>1
    <3>4. version' \in 0 .. MaxVersion /\ key' \in 0 .. MaxVersion /\ version' > 0
      BY <1>2, <3>1
    <3> QED
      BY <3>3, <3>4
  <2>4. CASE Delete
    BY <1>2, <2>4 DEF Delete
  <2> QED
    BY <2>1, <2>2, <2>3, <2>4 DEF AdminStep
<1>4. TypeOK' /\ LinkedGatewayExists'
  BY <1>1, <1>3 DEF RelayInv, TypeOK, LinkedGatewayExists
<1> QED
  BY <1>1, <1>4, RequestsUntouched

\* RelayInv is inductive.
LEMMA NextRelay ==
  ASSUME ConstantsAreSound, RelayInv, [Next]_vars
  PROVE  RelayInv'
<1>1. CASE \E r \in Requests : Send(r)
  BY <1>1, SendKeeps
<1>2. CASE \E r \in Requests : Receive(r)
  BY <1>2, ReceiveKeeps
<1>3. CASE (\E r \in Requests : Timeout(r)) \/ Expire
  BY <1>3, DropKeeps
<1>4. ASSUME NEW t \in Threads, GatewayStep(t) PROVE RelayInv'
  BY <1>4, RestKeeps, TakeKeeps, ForwardKeeps, PostKeeps DEF GatewayStep
<1>5. CASE AdminStep
  BY <1>5, AdminKeeps
<1>6. CASE UNCHANGED vars
  <2>1. UNCHANGED <<shared, queue, answers, caller, received, carried, thread,
                    version, key, linked>>
    BY <1>6 DEF vars
  <2>2. TypeOK' /\ LinkedGatewayExists'
    BY <2>1 DEF RelayInv, TypeOK, LinkedGatewayExists
  <2> QED
    BY <2>1, <2>2, RequestsUntouched
<1> QED
  BY <1>1, <1>2, <1>3, <1>4, <1>5, <1>6 DEF Next

LEMMA InitRelay == ConstantsAreSound /\ Init => RelayInv
<1> SUFFICES ASSUME ConstantsAreSound, Init PROVE RelayInv
  OBVIOUS
<1>1. /\ << >> \in Seq(Requests) /\ << >> \in Seq(Parts) /\ Idle \in ThreadRows
      /\ Idle.at = "idle"
  BY EmptySeq, IdleRow
<1>2. TypeOK
  BY <1>1 DEF Init, TypeOK, ThreadRows, ConstantsAreSound, Fates
<1>3. \A t \in Threads : thread[t].at = "idle"
  BY <1>1 DEF Init
<1>4. \A q \in Requests : /\ ~Queued(q) /\ Untouched(q) /\ \A t \in Threads : ~Holds(t, q)
  BY <1>3 DEF Init, Queued, Untouched, Holds
<1>5. HandedOutOnce /\ NotSent /\ ThreadsHold
  BY <1>3, <1>4 DEF Init, HandedOutOnce, NotSent, ThreadsHold
<1>6. CarriedOutOnce /\ AnswersAreWhole /\ LinkedGatewayExists
  BY DEF Init, CarriedOutOnce, AnswersAreWhole, LinkedGatewayExists
<1>7. \A q \in Requests : Stored(q)
  <2>1. 1 \in 1 .. MaxParts
    BY DEF ConstantsAreSound
  <2>2. SubSeq(SplitAnswer(1, TRUE), 1, 0) = << >>
    BY SubSeqEmpty
  <2>3. 1 \in 1 .. 1 /\ 0 \in (1 - 1) .. 1
    OBVIOUS
  <2>4. \A q \in Requests : IsAnswer(q, 1, TRUE) /\ answers[q] = << >>
    BY <2>1 DEF Init, IsAnswer
  <2> QED
    BY <2>1, <2>2, <2>3, <2>4 DEF Stored
<1>8. PartsFollow
  BY <1>3, <1>7 DEF PartsFollow
<1> QED
  BY <1>2, <1>5, <1>6, <1>8 DEF RelayInv

\* A request is in the queue once or with one thread, and the broker holds a stretch of
\* the one answer to it, whatever is lost on the way.
THEOREM RelayInvariant ==
  ASSUME ConstantsAreSound
  PROVE  Spec => []RelayInv
<1>1. Init => RelayInv
  BY InitRelay
<1>2. RelayInv /\ [Next]_vars => RelayInv'
  BY NextRelay
<1> QED
  BY <1>1, <1>2, PTL DEF Spec
\* A part is stored only under a key that is accepted.
LEMMA OldKeyStep ==
  ASSUME ConstantsAreSound, RelayInv, [Next]_vars
  PROVE  OldKeyDeliversNothing
<1> SUFFICES ASSUME key # version, NEW r \in Requests PROVE Len(answers'[r]) <= Len(answers[r])
  BY DEF OldKeyDeliversNothing
<1>1. answers \in [Requests -> Seq(Parts)] /\ ~KeyAccepted
  BY DEF RelayInv, TypeOK, KeyAccepted
<1>2. Len(<< >>) = 0 /\ Len(answers[r]) \in Nat
  BY <1>1, LenProperties
<1>3. answers'[r] = answers[r] \/ answers'[r] = << >>
  <2>1. CASE (\E q \in Requests : Send(q) \/ Receive(q) \/ Timeout(q)) \/ Expire
    BY <1>1, <2>1 DEF Send, Receive, Timeout, Expire
  <2>2. CASE \E t \in Threads : GatewayStep(t)
    BY <1>1, <2>2 DEF GatewayStep, Poll, Take, PollEnds, Forward, Post, PostFails, broker
  <2>3. CASE AdminStep \/ UNCHANGED vars
    BY <2>3 DEF AdminStep, RotateKey, Setup, Link, Delete, broker, vars
  <2> QED BY <2>1, <2>2, <2>3 DEF Next
<1> QED BY <1>2, <1>3
=============================================================================

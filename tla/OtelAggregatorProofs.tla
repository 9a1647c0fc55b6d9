------------------------ MODULE OtelAggregatorProofs ------------------------
(***************************************************************************)
(* Proofs about OtelAggregator, for any finite set of workers and any      *)
(* number of scrapes.                                                      *)
(***************************************************************************)
EXTENDS OtelAggregator, FiniteSetTheorems, SequenceTheorems, TLAPS

-----------------------------------------------------------------------------
\* The inductive invariant.

Elems(s) == {s[i] : i \in DOMAIN s}

Once(s) == \A i, j \in DOMAIN s : s[i] = s[j] => i = j

Queued(w) == Elems(inbox[w])

\* The workers whose answer to r has not been counted in.
Owed(r) == asked[r] \ Senders(responses[r])

Fresh ==
    \A r \in RequestIds :
        ~ (r < requestCtr) => /\ asked[r] = {}
                              /\ responses[r] = <<>>
                              /\ outcome[r] = "idle"
                              /\ report[r] = {}

Counting ==
    \A r \in RequestIds :
        /\ Senders(responses[r]) \subseteq asked[r]
        /\ r < requestCtr => pending[r] = Cardinality(Owed(r))
        /\ Len(responses[r]) + Cardinality(Owed(r)) = Cardinality(asked[r])
        /\ Owed(r) # {} => r \in requests

\* A request to a worker is in one place at a time: queued for the worker,
\* being collected, on its way back, or counted in.
AnswersOwed ==
    \A a \in answers : /\ a.from \in Owed(a.requestId)
                       /\ a.requestId \notin collecting[a.from]
                       /\ a.requestId \notin Queued(a.from)

AnswersUnique ==
    \A a, b \in answers :
        a.from = b.from /\ a.requestId = b.requestId => a = b

CollectingOwed ==
    \A w \in Workers : \A r \in collecting[w] : w \in Owed(r) /\ r \notin Queued(w)

QueuedOwed ==
    \A w \in Workers : \A r \in Queued(w) : w \in Owed(r)

QueuedOnce == \A w \in Workers : Once(inbox[w])

Settling ==
    \A r \in RequestIds :
        outcome[r] = "ok" => report[r] = asked[r] /\ Owed(r) = {}

Places == /\ AnswersOwed
          /\ AnswersUnique
          /\ CollectingOwed
          /\ QueuedOwed
          /\ QueuedOnce

IInv == TypeOK /\ Fresh /\ Counting /\ Places /\ Settling

-----------------------------------------------------------------------------
\* Facts about the operators.

LEMMA RequestIdsType == RequestIds \subseteq Nat
BY AggregatorAssumption DEF RequestIds

\* One more response adds its sender to the senders, and nothing else.
LEMMA SendersAppend ==
    ASSUME NEW rs \in Seq(Response), NEW e \in Response
    PROVE  /\ Append(rs, e) \in Seq(Response)
           /\ Len(Append(rs, e)) = Len(rs) + 1
           /\ Senders(Append(rs, e)) = Senders(rs) \cup {e.from}
<1> DEFINE n == Len(rs)
           t == Append(rs, e)
<1>1. /\ t \in Seq(Response)
      /\ Len(t) = n + 1
      /\ n \in Nat
      /\ DOMAIN t = 1 .. n + 1
      /\ DOMAIN rs = 1 .. n
      /\ \A i \in 1 .. n : t[i] = rs[i]
      /\ t[n + 1] = e
  OBVIOUS
<1>2. Senders(t) \subseteq Senders(rs) \cup {e.from}
  BY <1>1 DEF Senders
<1>3. Senders(rs) \subseteq Senders(t)
  <2>1. SUFFICES ASSUME NEW i \in 1 .. n
                 PROVE  rs[i].from \in Senders(t)
    BY <1>1 DEF Senders
  <2>2. i \in DOMAIN t /\ t[i] = rs[i]
    BY <1>1
  <2> QED BY <2>2 DEF Senders
<1>4. e.from \in Senders(t)
  <2>1. n + 1 \in DOMAIN t
    BY <1>1
  <2> QED BY <1>1, <2>1 DEF Senders
<1> QED BY <1>1, <1>2, <1>3, <1>4

\* Senders are workers.
LEMMA SendersType ==
    ASSUME NEW rs \in Seq(Response)
    PROVE  Senders(rs) \subseteq Workers
<1> SUFFICES ASSUME NEW i \in DOMAIN rs PROVE rs[i].from \in Workers
  BY DEF Senders
<1>1. rs[i] \in Response
  OBVIOUS
<1> QED BY <1>1 DEF Response

\* Nobody has answered yet.
LEMMA SendersEmpty == Senders(<<>>) = {} /\ Len(<<>>) = 0
BY DEF Senders

LEMMA OwedFinite ==
    ASSUME TypeOK, NEW r \in RequestIds
    PROVE  IsFiniteSet(asked[r]) /\ IsFiniteSet(Owed(r)) /\ IsFiniteSet(connected)
<1>1. asked[r] \subseteq Workers /\ connected \subseteq Workers
  BY DEF TypeOK
<1>2. Owed(r) \subseteq Workers
  BY <1>1 DEF Owed
<1> QED BY <1>1, <1>2, AggregatorAssumption, FS_Subset

-----------------------------------------------------------------------------
\* The worker's and the master's actions preserve the types.

LEMMA TypeInit == Init => TypeOK
BY AggregatorAssumption DEF Init, TypeOK, WorkerState, RequestIds

LEMMA TypeStep == TypeOK /\ [Next]_vars => TypeOK'
<1> SUFFICES ASSUME TypeOK, [Next]_vars
             PROVE  TypeOK'
  OBVIOUS
<1> USE DEF TypeOK
<1>1. ASSUME NEW w \in Workers, WorkerLife(w)
      PROVE  TypeOK'
  <2>1. CASE Fork(w)
    BY <2>1 DEF Fork, WorkerState, channelVars, requestVars
  <2>2. CASE StartWorker(w)
    BY <2>2 DEF StartWorker, WorkerState, channelVars, requestVars
  <2>3. CASE Terminate(w)
    BY <2>3 DEF Terminate, WorkerState, channelVars, requestVars
  <2>4. CASE Exit(w)
    BY <2>4 DEF Exit, WorkerState, requestVars
  <2>5. CASE NoticeExit(w)
    BY <2>5 DEF NoticeExit, channelVars, requestVars
  <2> QED BY <1>1, <2>1, <2>2, <2>3, <2>4, <2>5 DEF WorkerLife
<1>2. ASSUME NEW w \in Workers, ReceiveRequest(w)
      PROVE  TypeOK'
  <2>1. Head(inbox[w]) \in RequestIds /\ Tail(inbox[w]) \in Seq(RequestIds)
    BY <1>2 DEF ReceiveRequest
  <2>2. inbox' \in [Workers -> Seq(RequestIds)]
    BY <1>2, <2>1 DEF ReceiveRequest
  <2>3. collecting' \in [Workers -> SUBSET RequestIds]
    BY <1>2, <2>1 DEF ReceiveRequest
  <2>4. answers' = answers /\ UNCHANGED <<workerVars, requestVars>>
    BY <1>2 DEF ReceiveRequest
  <2> QED BY <2>2, <2>3, <2>4 DEF workerVars, requestVars
<1>3. ASSUME NEW w \in Workers, NEW r \in RequestIds,
             NEW kind \in {"metrics", "null", "error"}, SendAnswer(w, r, kind)
      PROVE  TypeOK'
  BY <1>3 DEF SendAnswer, Answer, workerVars, requestVars
<1>4. ASSUME ClusterMetrics
      PROVE  TypeOK'
  <2>1. requestCtr \in RequestIds /\ requestCtr + 1 \in 0 .. MaxRequests
    BY <1>4, AggregatorAssumption DEF ClusterMetrics, RequestIds
  <2>2. Cardinality(connected) \in Nat
    BY <2>1, OwedFinite, FS_CardinalityType
  <2>3. inbox' \in [Workers -> Seq(RequestIds)]
    BY <1>4, <2>1 DEF ClusterMetrics
  <2>4. /\ requestCtr' \in 0 .. MaxRequests /\ requests' \in SUBSET RequestIds
        /\ pending' \in [RequestIds -> Int]
        /\ responses' \in [RequestIds -> Seq(Response)]
        /\ errorTimeout' \in [RequestIds -> BOOLEAN]
    BY <1>4, <2>1, <2>2 DEF ClusterMetrics
  <2>5. /\ outcome' \in [RequestIds -> {"idle", "open", "ok", "failed"}]
        /\ report' \in [RequestIds -> SUBSET Workers]
        /\ asked' \in [RequestIds -> SUBSET Workers]
    BY <1>4, <2>1 DEF ClusterMetrics
  <2>6. UNCHANGED <<workerVars, collecting, answers>>
    BY <1>4 DEF ClusterMetrics
  <2> QED BY <2>3, <2>4, <2>5, <2>6 DEF workerVars
<1>5. ASSUME NEW a \in answers, ErrorResponse(a)
      PROVE  TypeOK'
  BY <1>5 DEF ErrorResponse, Done, Answer, workerVars
<1>6. ASSUME NEW a \in answers, MetricsResponse(a)
      PROVE  TypeOK'
  <2> DEFINE r == a.requestId
             e == [from |-> a.from, kind |-> a.kind]
  <2>1. r \in RequestIds /\ e \in Response
    BY <1>6 DEF MetricsResponse, Last, Answer, Response
  <2>2. /\ Append(responses[r], e) \in Seq(Response)
        /\ Senders(Append(responses[r], e)) \in SUBSET Workers
    <3>1. responses[r] \in Seq(Response)
      BY <2>1
    <3>2. Senders(responses[r]) \subseteq Workers /\ e.from \in Workers
      BY <2>1, <3>1, SendersType DEF Response
    <3> QED BY <2>1, <3>1, <3>2, SendersAppend
  <2>3. responses' \in [RequestIds -> Seq(Response)]
    BY <1>6, <2>1, <2>2 DEF MetricsResponse, Last
  <2>4. /\ pending' \in [RequestIds -> Int]
        /\ requests' \in SUBSET RequestIds
        /\ errorTimeout' \in [RequestIds -> BOOLEAN]
        /\ answers' \in SUBSET Answer
    BY <1>6, <2>1 DEF MetricsResponse, Last
  <2>5. /\ outcome' \in [RequestIds -> {"idle", "open", "ok", "failed"}]
        /\ report' \in [RequestIds -> SUBSET Workers]
    BY <1>6, <2>1, <2>2 DEF MetricsResponse, Last, Done
  <2> QED BY <1>6, <2>3, <2>4, <2>5 DEF MetricsResponse, Last, workerVars
<1>7. ASSUME NEW r \in RequestIds, Timeout(r)
      PROVE  TypeOK'
  BY <1>7 DEF Timeout, Done, workerVars, channelVars
<1>8. CASE UNCHANGED vars
  BY <1>8 DEF vars
<1>9. ASSUME NEW w \in Workers, NEW r \in RequestIds,
             Collected(w, r) \/ CollectionRejected(w, r) \/ CollectionThrew(w, r)
      PROVE  TypeOK'
  BY <1>3, <1>9 DEF Collected, CollectionRejected, CollectionThrew
<1> QED
  BY <1>1, <1>2, <1>4, <1>5, <1>6, <1>7, <1>8, <1>9
     DEF Next, WorkerStep, MasterStep

\* Every variable keeps to its type in every state of every execution.
THEOREM TypeCorrect == Spec => []TypeOK
BY TypeInit, TypeStep, PTL DEF Spec

-----------------------------------------------------------------------------
\* Queues in which nothing is twice.

LEMMA AppendOnce ==
    ASSUME NEW S, NEW s \in Seq(S), NEW e \in S, Once(s), e \notin Elems(s)
    PROVE  Elems(Append(s, e)) = Elems(s) \cup {e} /\ Once(Append(s, e))
<1> DEFINE n == Len(s)
           t == Append(s, e)
<1>1. /\ n \in Nat
      /\ DOMAIN t = 1 .. n + 1
      /\ DOMAIN s = 1 .. n
      /\ \A i \in 1 .. n : t[i] = s[i]
      /\ t[n + 1] = e
  OBVIOUS
<1> HIDE DEF t, n
<1>2. Elems(t) \subseteq Elems(s) \cup {e}
  BY <1>1 DEF Elems
<1>3. Elems(s) \subseteq Elems(t)
  <2>1. SUFFICES ASSUME NEW i \in 1 .. n
                 PROVE  s[i] \in Elems(t)
    BY <1>1 DEF Elems
  <2>2. i \in DOMAIN t /\ t[i] = s[i]
    BY <1>1
  <2> QED BY <2>2 DEF Elems
<1>4. e \in Elems(t)
  <2>1. n + 1 \in DOMAIN t
    BY <1>1
  <2> QED BY <1>1, <2>1 DEF Elems
<1>5. Once(t)
  <2> SUFFICES ASSUME NEW i \in 1 .. n + 1, NEW j \in 1 .. n + 1, t[i] = t[j]
               PROVE  i = j
    BY <1>1 DEF Once
  <2>1. \A k \in 1 .. n : s[k] # e
    BY <1>1 DEF Elems
  <2>2. CASE i \in 1 .. n /\ j \in 1 .. n
    BY <1>1, <2>2 DEF Once
  <2>3. CASE i = n + 1 \/ j = n + 1
    BY <1>1, <2>1, <2>3
  <2> QED BY <1>1, <2>2, <2>3
<1> QED BY <1>2, <1>3, <1>4, <1>5 DEF t

LEMMA TailOnce ==
    ASSUME NEW S, NEW s \in Seq(S), s # <<>>, Once(s)
    PROVE  /\ Elems(Tail(s)) \subseteq Elems(s)
           /\ Head(s) \in Elems(s)
           /\ Head(s) \notin Elems(Tail(s))
           /\ Once(Tail(s))
<1> DEFINE n == Len(s)
           t == Tail(s)
<1>1. /\ n \in Nat \ {0}
      /\ DOMAIN s = 1 .. n
      /\ DOMAIN t = 1 .. n - 1
      /\ \A i \in 1 .. n - 1 : t[i] = s[i + 1]
      /\ Head(s) = s[1]
  OBVIOUS
<1> HIDE DEF t, n
<1>2. \A i \in 1 .. n - 1 : i + 1 \in 1 .. n /\ i + 1 # 1
  BY <1>1
<1>3. Head(s) \in Elems(s)
  BY <1>1 DEF Elems
<1>4. Elems(t) \subseteq Elems(s)
  <2> SUFFICES ASSUME NEW i \in 1 .. n - 1
               PROVE  t[i] \in Elems(s)
    BY <1>1 DEF Elems
  <2> QED BY <1>1, <1>2 DEF Elems
<1>5. Head(s) \notin Elems(t)
  <2> SUFFICES ASSUME NEW i \in 1 .. n - 1
               PROVE  s[1] # t[i]
    BY <1>1 DEF Elems
  <2>1. 1 \in DOMAIN s /\ i + 1 \in DOMAIN s /\ i + 1 # 1
    BY <1>1, <1>2
  <2>2. s[1] # s[i + 1]
    BY <2>1 DEF Once
  <2> QED BY <1>1, <2>2
<1>6. Once(t)
  <2> SUFFICES ASSUME NEW i \in 1 .. n - 1, NEW j \in 1 .. n - 1, t[i] = t[j]
               PROVE  i = j
    BY <1>1 DEF Once
  <2>1. i + 1 \in DOMAIN s /\ j + 1 \in DOMAIN s /\ s[i + 1] = s[j + 1]
    BY <1>1, <1>2
  <2>2. i + 1 = j + 1
    BY <2>1 DEF Once
  <2> QED BY <1>1, <2>2
<1> QED BY <1>3, <1>4, <1>5, <1>6 DEF t

LEMMA EmptyOnce == Elems(<<>>) = {} /\ Once(<<>>)
BY DEF Elems, Once

-----------------------------------------------------------------------------
\* The inductive step, one lemma for each kind of action.

LEMMA InvInit == Init => IInv
<1> SUFFICES ASSUME Init PROVE IInv
  OBVIOUS
<1>1. TypeOK
  BY TypeInit
<1>2. \A r \in RequestIds : Owed(r) = {}
  BY DEF Init, Owed
<1>3. Fresh
  BY DEF Init, Fresh
<1>4. Counting
  <2> SUFFICES ASSUME NEW r \in RequestIds
               PROVE  /\ Senders(responses[r]) \subseteq asked[r]
                      /\ pending[r] = Cardinality(Owed(r))
                      /\ Len(responses[r]) + Cardinality(Owed(r)) = Cardinality(asked[r])
                      /\ Owed(r) = {}
    BY DEF Counting
  <2>1. responses[r] = <<>> /\ asked[r] = {} /\ pending[r] = 0 /\ Owed(r) = {}
    BY <1>2 DEF Init
  <2> QED BY <2>1, SendersEmpty, FS_EmptySet
<1>5. Places
  BY EmptyOnce DEF Init, Places, AnswersOwed, AnswersUnique, CollectingOwed,
                   QueuedOwed, QueuedOnce, Queued
<1>6. Settling
  BY DEF Init, Settling
<1> QED BY <1>1, <1>3, <1>4, <1>5, <1>6 DEF IInv

\* What a step that leaves the scrapes alone must preserve.
LEMMA ScrapesUnchanged ==
    ASSUME IInv, UNCHANGED requestVars
    PROVE  /\ Fresh' /\ Counting' /\ Settling'
           /\ \A r \in RequestIds : Owed(r)' = Owed(r)
BY DEF IInv, requestVars, Fresh, Counting, Settling, Owed, Senders

LEMMA LifeStep ==
    ASSUME IInv, TypeOK', NEW w \in Workers, WorkerLife(w)
    PROVE  IInv'
<1>1. UNCHANGED requestVars
  BY DEF WorkerLife, Fork, StartWorker, Terminate, Exit, NoticeExit
<1>2. Fresh' /\ Counting' /\ Settling' /\ \A r \in RequestIds : Owed(r)' = Owed(r)
  BY <1>1, ScrapesUnchanged
<1>3. Places'
  <2>1. CASE UNCHANGED channelVars
    BY <1>1, <2>1 DEF channelVars, requestVars, IInv, Places, AnswersOwed,
       AnswersUnique, CollectingOwed, QueuedOwed, QueuedOnce, Queued, Owed
  <2>2. CASE Exit(w)
    <3>1. /\ answers' = answers
          /\ \A v \in Workers : collecting'[v] \subseteq collecting[v]
          /\ \A v \in Workers : inbox'[v] = inbox[v] \/ inbox'[v] = <<>>
      BY <2>2 DEF Exit, IInv, TypeOK
    <3>2. \A v \in Workers : Queued(v)' \subseteq Queued(v) /\ Once(inbox[v])'
      BY <3>1, EmptyOnce DEF IInv, Places, QueuedOnce, Queued
    <3>3. \A a \in answers : a.from \in Workers /\ a.requestId \in RequestIds
      BY DEF IInv, TypeOK, Answer
    <3>4. \A v \in Workers : collecting[v] \subseteq RequestIds
      BY DEF IInv, TypeOK
    <3>5. \A v \in Workers : Queued(v) \subseteq RequestIds
      BY DEF IInv, TypeOK, Queued, Elems
    <3>6. AnswersOwed' /\ AnswersUnique'
      BY <1>2, <3>1, <3>2, <3>3 DEF IInv, Places, AnswersOwed, AnswersUnique
    <3>7. CollectingOwed'
      BY <1>2, <3>1, <3>2, <3>4 DEF IInv, Places, CollectingOwed
    <3>8. QueuedOwed' /\ QueuedOnce'
      BY <1>2, <3>2, <3>5 DEF IInv, Places, QueuedOwed, QueuedOnce
    <3> QED BY <3>6, <3>7, <3>8 DEF Places
  <2> QED BY <2>1, <2>2 DEF WorkerLife, Fork, StartWorker, Terminate, NoticeExit
<1> QED BY <1>2, <1>3 DEF IInv


LEMMA ReceiveStep ==
    ASSUME IInv, TypeOK', NEW w \in Workers, ReceiveRequest(w)
    PROVE  IInv'
<1> DEFINE r == Head(inbox[w])
<1>1. Fresh' /\ Counting' /\ Settling' /\ \A q \in RequestIds : Owed(q)' = Owed(q)
  BY ScrapesUnchanged DEF ReceiveRequest
<1>2. /\ inbox[w] \in Seq(RequestIds)
      /\ inbox[w] # <<>>
      /\ Once(inbox[w])
      /\ r \in RequestIds
  BY DEF ReceiveRequest, IInv, TypeOK, Places, QueuedOnce
<1>3. /\ Queued(w)' \subseteq Queued(w)
      /\ r \in Queued(w)
      /\ r \notin Queued(w)'
      /\ Once(inbox[w])'
  <2>1. inbox'[w] = Tail(inbox[w])
    BY DEF ReceiveRequest, IInv, TypeOK
  <2> QED BY <1>2, <2>1, TailOnce DEF Queued
<1>4. \A v \in Workers \ {w} : inbox'[v] = inbox[v] /\ collecting'[v] = collecting[v]
  BY DEF ReceiveRequest, IInv, TypeOK
<1>5. collecting'[w] \subseteq collecting[w] \cup {r}
  BY DEF ReceiveRequest, IInv, TypeOK
<1>6. answers' = answers
  BY DEF ReceiveRequest
<1>7. \A v \in Workers : Queued(v)' \subseteq Queued(v) /\ Once(inbox[v])'
  BY <1>3, <1>4 DEF IInv, Places, QueuedOnce, Queued
<1>8. \A v \in Workers : Queued(v) \subseteq RequestIds /\ collecting[v] \subseteq RequestIds
  BY DEF IInv, TypeOK, Queued, Elems
<1>9. \A a \in answers : a.from \in Workers /\ a.requestId \in RequestIds
  BY DEF IInv, TypeOK, Answer
<1>10. AnswersOwed' /\ AnswersUnique'
  BY <1>1, <1>3, <1>4, <1>5, <1>6, <1>7, <1>9
     DEF IInv, Places, AnswersOwed, AnswersUnique
<1>11. CollectingOwed'
  <2> SUFFICES ASSUME NEW v \in Workers, NEW q \in collecting'[v]
               PROVE  v \in Owed(q)' /\ q \notin Queued(v)'
    BY DEF CollectingOwed
  <2>1. CASE q \in collecting[v]
    BY <1>1, <1>7, <1>8, <2>1 DEF IInv, Places, CollectingOwed
  <2>2. CASE v = w /\ q = r
    BY <1>1, <1>2, <1>3, <2>2 DEF IInv, Places, QueuedOwed
  <2> QED BY <1>4, <1>5, <2>1, <2>2
<1>12. QueuedOwed' /\ QueuedOnce'
  BY <1>1, <1>7, <1>8 DEF IInv, Places, QueuedOwed, QueuedOnce
<1> QED BY <1>1, <1>10, <1>11, <1>12 DEF IInv, Places

LEMMA AnswerStep ==
    ASSUME IInv, TypeOK', NEW w \in Workers, NEW r \in RequestIds,
           NEW kind \in {"metrics", "null", "error"}, SendAnswer(w, r, kind)
    PROVE  IInv'
<1> DEFINE b == [from |-> w, requestId |-> r, kind |-> kind]
<1>1. Fresh' /\ Counting' /\ Settling' /\ \A q \in RequestIds : Owed(q)' = Owed(q)
  BY ScrapesUnchanged DEF SendAnswer
<1>2. /\ r \in collecting[w]
      /\ w \in Owed(r)
      /\ r \notin Queued(w)
      /\ r \notin collecting'[w]
  BY DEF SendAnswer, IInv, TypeOK, Places, CollectingOwed
<1>3. /\ \A v \in Workers : collecting'[v] \subseteq collecting[v]
      /\ answers' = answers \cup {b}
      /\ inbox' = inbox
  BY DEF SendAnswer, IInv, TypeOK
<1>4. \A v \in Workers : Queued(v)' = Queued(v)
  BY <1>3 DEF Queued
<1>5. \A a \in answers : a.from \in Workers /\ a.requestId \in RequestIds
  BY DEF IInv, TypeOK, Answer
<1>6. \A v \in Workers : Queued(v) \subseteq RequestIds /\ collecting[v] \subseteq RequestIds
  BY DEF IInv, TypeOK, Queued, Elems
<1>7. b.from = w /\ b.requestId = r
  OBVIOUS
<1> HIDE DEF b
<1>8. AnswersOwed'
  BY <1>1, <1>2, <1>3, <1>4, <1>5, <1>7 DEF IInv, Places, AnswersOwed
<1>9. AnswersUnique'
  <2>1. \A a \in answers : ~ (a.from = w /\ a.requestId = r)
    BY <1>2 DEF IInv, Places, AnswersOwed
  <2> QED BY <1>3, <1>7, <2>1 DEF IInv, Places, AnswersUnique
<1>10. CollectingOwed'
  BY <1>1, <1>3, <1>4, <1>6 DEF IInv, Places, CollectingOwed
<1>11. QueuedOwed' /\ QueuedOnce'
  BY <1>1, <1>3, <1>4, <1>6 DEF IInv, Places, QueuedOwed, QueuedOnce
<1> QED BY <1>1, <1>8, <1>9, <1>10, <1>11 DEF IInv, Places

\* What the places keep when no scrape's Owed grows or shrinks and answers
\* are only consumed.
LEMMA PlacesConsumed ==
    ASSUME IInv, answers' \subseteq answers, UNCHANGED <<inbox, collecting>>,
           \A q \in RequestIds : Owed(q)' = Owed(q)
    PROVE  Places'
<1>1. \A v \in Workers : Queued(v)' = Queued(v)
  BY DEF Queued
<1>2. \A a \in answers : a.from \in Workers /\ a.requestId \in RequestIds
  BY DEF IInv, TypeOK, Answer
<1>3. \A v \in Workers : Queued(v) \subseteq RequestIds /\ collecting[v] \subseteq RequestIds
  BY DEF IInv, TypeOK, Queued, Elems
<1>4. AnswersOwed' /\ AnswersUnique'
  BY <1>1, <1>2 DEF IInv, Places, AnswersOwed, AnswersUnique
<1>5. CollectingOwed' /\ QueuedOwed' /\ QueuedOnce'
  BY <1>1, <1>3 DEF IInv, Places, CollectingOwed, QueuedOwed, QueuedOnce
<1> QED BY <1>4, <1>5 DEF Places

\* Settling a promise with a failure touches nothing but the promise.
LEMMA FailStep ==
    ASSUME IInv, TypeOK', NEW r \in RequestIds,
           Done(r, "failed", {}), answers' \subseteq answers,
           UNCHANGED <<inbox, collecting, requestCtr, requests, pending,
                       responses, asked>>
    PROVE  IInv'
<1>1. \A q \in RequestIds : Owed(q)' = Owed(q)
  BY DEF Owed
<1>2. Places'
  BY <1>1, PlacesConsumed
<1>3. Fresh'
  BY DEF Done, IInv, TypeOK, Fresh
<1>4. Counting'
  BY <1>1 DEF IInv, Counting
<1>5. Settling'
  <2> SUFFICES ASSUME NEW q \in RequestIds, outcome'[q] = "ok"
               PROVE  report'[q] = asked'[q] /\ Owed(q)' = {}
    BY DEF Settling
  <2>1. outcome[q] = "ok" /\ report'[q] = report[q]
    BY DEF Done, IInv, TypeOK
  <2> QED BY <1>1, <2>1 DEF IInv, Settling
<1> QED BY <1>2, <1>3, <1>4, <1>5 DEF IInv

LEMMA ScrapeStep ==
    ASSUME IInv, TypeOK', ClusterMetrics
    PROVE  IInv'
<1>1. PICK r \in RequestIds : r = requestCtr /\ r \in Nat
  BY AggregatorAssumption DEF ClusterMetrics, IInv, TypeOK, RequestIds
<1>2. /\ asked[r] = {} /\ responses[r] = <<>> /\ report[r] = {}
      /\ Owed(r) = {}
  BY <1>1 DEF IInv, Fresh, Owed
<1>3. /\ requestCtr' = requestCtr + 1
      /\ requests' = requests \cup {r}
      /\ asked' = [asked EXCEPT ![r] = connected]
      /\ pending' = [pending EXCEPT ![r] = Cardinality(connected)]
      /\ outcome' = [outcome EXCEPT ![r] = IF connected = {} THEN "ok" ELSE "open"]
      /\ UNCHANGED <<collecting, answers, responses, report>>
  BY <1>1 DEF ClusterMetrics
<1>4. \A v \in Workers : \/ inbox'[v] = inbox[v]
                         \/ v \in connected /\ inbox'[v] = Append(inbox[v], r)
  BY <1>1 DEF ClusterMetrics
<1>5. Owed(r)' = connected
  BY <1>1, <1>2, <1>3, SendersEmpty DEF Owed, IInv, TypeOK
<1>6. \A q \in RequestIds \ {r} : Owed(q)' = Owed(q) /\ asked'[q] = asked[q]
  BY <1>3 DEF Owed, IInv, TypeOK
<1>7. \A v \in Workers : Queued(v) \subseteq RequestIds /\ collecting[v] \subseteq RequestIds
  BY DEF IInv, TypeOK, Queued, Elems
<1>8. \A a \in answers : a.from \in Workers /\ a.requestId \in RequestIds
  BY DEF IInv, TypeOK, Answer
<1>9. \A a \in answers : a.requestId # r
  BY <1>2 DEF IInv, Places, AnswersOwed
<1>10. \A v \in Workers : r \notin collecting[v] /\ r \notin Queued(v)
  BY <1>2 DEF IInv, Places, CollectingOwed, QueuedOwed
<1>11. \A v \in Workers :
         /\ Once(inbox[v])'
         /\ Queued(v)' = Queued(v) \/ (v \in connected /\ Queued(v)' = Queued(v) \cup {r})
  <2> SUFFICES ASSUME NEW v \in Workers
               PROVE  /\ Once(inbox[v])'
                      /\ Queued(v)' = Queued(v) \/ (v \in connected /\ Queued(v)' = Queued(v) \cup {r})
    OBVIOUS
  <2>1. inbox[v] \in Seq(RequestIds) /\ Once(inbox[v]) /\ r \notin Elems(inbox[v])
    BY <1>10 DEF IInv, TypeOK, Places, QueuedOnce, Queued
  <2>2. CASE inbox'[v] = inbox[v]
    BY <2>1, <2>2 DEF Queued
  <2>3. CASE v \in connected /\ inbox'[v] = Append(inbox[v], r)
    <3>1. /\ Elems(Append(inbox[v], r)) = Elems(inbox[v]) \cup {r}
          /\ Once(Append(inbox[v], r))
      BY <2>1, AppendOnce
    <3> QED BY <2>3, <3>1 DEF Queued
  <2> QED BY <1>4, <2>2, <2>3
<1>12. Fresh'
  <2> SUFFICES ASSUME NEW q \in RequestIds, ~ (q < requestCtr')
               PROVE  /\ asked'[q] = {} /\ responses'[q] = <<>>
                      /\ outcome'[q] = "idle" /\ report'[q] = {}
    BY DEF Fresh
  <2>1. q # r /\ ~ (q < requestCtr)
    BY <1>1, <1>3, RequestIdsType
  <2> QED BY <1>3, <2>1 DEF IInv, Fresh, TypeOK
<1>13. Counting'
  <2> SUFFICES ASSUME NEW q \in RequestIds
               PROVE  /\ Senders(responses'[q]) \subseteq asked'[q]
                      /\ q < requestCtr' => pending'[q] = Cardinality(Owed(q)')
                      /\ Len(responses'[q]) + Cardinality(Owed(q)') = Cardinality(asked'[q])
                      /\ Owed(q)' # {} => q \in requests'
    BY DEF Counting, Senders
  <2>1. CASE q = r
    <3>1. /\ responses'[q] = <<>> /\ asked'[q] = connected
          /\ pending'[q] = Cardinality(connected)
      BY <1>1, <1>2, <1>3, <2>1 DEF IInv, TypeOK
    <3>2. Cardinality(connected) \in Nat
      BY <1>1, OwedFinite, FS_CardinalityType DEF IInv
    <3> QED BY <1>3, <1>5, <2>1, <3>1, <3>2, SendersEmpty
  <2>2. CASE q # r
    <3>1. q < requestCtr' => q < requestCtr
      BY <1>1, <1>3, <2>2, RequestIdsType
    <3>2. /\ responses'[q] = responses[q] /\ asked'[q] = asked[q]
          /\ pending'[q] = pending[q] /\ Owed(q)' = Owed(q)
          /\ requests \subseteq requests'
      BY <1>3, <1>6, <2>2 DEF IInv, TypeOK
    <3> QED BY <3>1, <3>2 DEF IInv, Counting
  <2> QED BY <2>1, <2>2
<1>14. Settling'
  <2> SUFFICES ASSUME NEW q \in RequestIds, outcome'[q] = "ok"
               PROVE  report'[q] = asked'[q] /\ Owed(q)' = {}
    BY DEF Settling
  <2>1. CASE q = r
    BY <1>1, <1>2, <1>3, <1>5, <2>1 DEF IInv, TypeOK
  <2>2. CASE q # r
    BY <1>3, <1>6, <2>2 DEF IInv, TypeOK, Settling
  <2> QED BY <2>1, <2>2
<1>15. AnswersOwed' /\ AnswersUnique'
  BY <1>3, <1>6, <1>8, <1>9, <1>11 DEF IInv, Places, AnswersOwed, AnswersUnique
<1>16. CollectingOwed'
  BY <1>3, <1>6, <1>7, <1>10, <1>11 DEF IInv, Places, CollectingOwed
<1>17. QueuedOwed'
  BY <1>5, <1>6, <1>7, <1>10, <1>11 DEF IInv, Places, QueuedOwed
<1>18. QueuedOnce'
  BY <1>11 DEF QueuedOnce
<1> QED BY <1>12, <1>13, <1>14, <1>15, <1>16, <1>17, <1>18 DEF IInv, Places

LEMMA ResponseStep ==
    ASSUME IInv, TypeOK', NEW a \in answers, MetricsResponse(a)
    PROVE  IInv'
<1> DEFINE r == a.requestId
           w == a.from
           e == [from |-> w, kind |-> a.kind]
           rs == Append(responses[r], e)
<1>1. r \in RequestIds /\ w \in Workers /\ e \in Response /\ e.from = w
  BY DEF MetricsResponse, Last, IInv, TypeOK, Answer, Response
<1>2. w \in Owed(r) /\ r \notin collecting[w] /\ r \notin Queued(w)
  BY DEF IInv, Places, AnswersOwed
<1>3. r < requestCtr
  BY <1>1, <1>2 DEF IInv, Fresh, Owed
<1>4. /\ responses' = [responses EXCEPT ![r] = rs]
      /\ pending' = [pending EXCEPT ![r] = @ - 1]
      /\ requests' = IF pending[r] - 1 = 0 THEN requests \ {r} ELSE requests
      /\ answers' = answers \ {a}
      /\ UNCHANGED <<inbox, collecting, requestCtr, asked>>
  BY DEF MetricsResponse, Last, workerVars
<1>5. IF pending[r] - 1 = 0 /\ Mergeable(rs)
      THEN Done(r, "ok", Senders(rs))
      ELSE UNCHANGED <<outcome, report>>
  BY DEF MetricsResponse, Last
<1>6. /\ Len(rs) = Len(responses[r]) + 1
      /\ Senders(rs) = Senders(responses[r]) \cup {w}
      /\ Len(responses[r]) \in Nat
  <2>1. responses[r] \in Seq(Response)
    BY <1>1 DEF IInv, TypeOK
  <2> QED BY <1>1, <2>1, SendersAppend
<1> HIDE DEF rs, e
<1>7. responses'[r] = rs
  BY <1>1, <1>4 DEF IInv, TypeOK
<1>8. Owed(r)' = Owed(r) \ {w}
  BY <1>4, <1>6, <1>7 DEF Owed
<1>9. \A q \in RequestIds \ {r} : Owed(q)' = Owed(q) /\ responses'[q] = responses[q]
  BY <1>4 DEF Owed, IInv, TypeOK
<1>10. /\ Cardinality(Owed(r)') = Cardinality(Owed(r)) - 1
       /\ Cardinality(Owed(r)) \in Nat
       /\ Cardinality(Owed(r)') = 0 <=> Owed(r)' = {}
  <2>1. IsFiniteSet(Owed(r))
    BY <1>1, OwedFinite DEF IInv
  <2>2. /\ IsFiniteSet(Owed(r) \ {w})
        /\ Cardinality(Owed(r) \ {w}) = Cardinality(Owed(r)) - 1
    BY <1>2, <2>1, FS_RemoveElement
  <2>3. Cardinality(Owed(r)) \in Nat
    BY <2>1, FS_CardinalityType
  <2>4. Cardinality(Owed(r) \ {w}) = 0 <=> Owed(r) \ {w} = {}
    BY <2>2, FS_EmptySet
  <2> QED BY <1>8, <2>2, <2>3, <2>4
<1>11. pending[r] = Cardinality(Owed(r)) /\ pending'[r] = pending[r] - 1
  BY <1>1, <1>3, <1>4 DEF IInv, TypeOK, Counting
<1>12. Senders(responses[r]) \subseteq asked[r] /\ w \in asked[r]
  BY <1>1, <1>2 DEF IInv, Counting, Owed
<1>13. Fresh'
  BY <1>3, <1>4, <1>5, <1>9, RequestIdsType DEF Done, IInv, TypeOK, Fresh
<1>14. Counting'
  <2> SUFFICES ASSUME NEW q \in RequestIds
               PROVE  /\ Senders(responses'[q]) \subseteq asked'[q]
                      /\ q < requestCtr' => pending'[q] = Cardinality(Owed(q)')
                      /\ Len(responses'[q]) + Cardinality(Owed(q)') = Cardinality(asked'[q])
                      /\ Owed(q)' # {} => q \in requests'
    BY DEF Counting, Senders
  <2>1. CASE q = r
    <3>1. /\ Senders(responses'[r]) \subseteq asked'[r]
          /\ pending'[r] = Cardinality(Owed(r)')
      BY <1>4, <1>6, <1>7, <1>10, <1>11, <1>12
    <3>2. Len(responses'[r]) + Cardinality(Owed(r)') = Cardinality(asked'[r])
      <4>1. Len(responses[r]) + Cardinality(Owed(r)) = Cardinality(asked[r])
        BY <1>1 DEF IInv, Counting
      <4> QED BY <1>4, <1>6, <1>7, <1>10, <4>1
    <3>3. Owed(r)' # {} => r \in requests'
      <4>1. r \in requests
        BY <1>1, <1>2 DEF IInv, Counting
      <4> QED BY <1>4, <1>10, <1>11, <4>1
    <3> QED BY <2>1, <3>1, <3>2, <3>3
  <2>2. CASE q # r
    BY <1>4, <1>9, <2>2 DEF IInv, TypeOK, Counting
  <2> QED BY <2>1, <2>2
<1>15. Settling'
  <2> SUFFICES ASSUME NEW q \in RequestIds, outcome'[q] = "ok"
               PROVE  report'[q] = asked'[q] /\ Owed(q)' = {}
    BY DEF Settling
  <2>1. CASE outcome[q] = "ok"
    <3>1. outcome'[q] = outcome[q] /\ report'[q] = report[q]
      BY <1>1, <1>5, <2>1 DEF Done, IInv, TypeOK
    <3> QED BY <1>2, <1>4, <1>9, <2>1, <3>1 DEF IInv, Settling
  <2>2. CASE outcome[q] # "ok"
    <3>1. q = r /\ pending[r] - 1 = 0 /\ report'[r] = Senders(rs)
      BY <1>1, <1>5, <2>2 DEF Done, IInv, TypeOK
    <3>2. Owed(r)' = {}
      BY <1>10, <1>11, <3>1
    <3>3. Senders(rs) = asked[r]
      BY <1>6, <1>8, <1>12, <3>2 DEF Owed
    <3> QED BY <1>4, <3>1, <3>2, <3>3
  <2> QED BY <2>1, <2>2
<1>16. \A v \in Workers : Queued(v)' = Queued(v)
  BY <1>4 DEF Queued
<1>17. \A v \in Workers : Queued(v) \subseteq RequestIds /\ collecting[v] \subseteq RequestIds
  BY DEF IInv, TypeOK, Queued, Elems
<1>18. \A b \in answers' : /\ b \in answers /\ b.from \in Workers /\ b.requestId \in RequestIds
                           /\ ~ (b.from = w /\ b.requestId = r)
  BY <1>4 DEF IInv, TypeOK, Answer, Places, AnswersUnique
<1>19. AnswersOwed' /\ AnswersUnique'
  BY <1>4, <1>8, <1>9, <1>16, <1>18 DEF IInv, Places, AnswersOwed, AnswersUnique
<1>20. CollectingOwed'
  BY <1>2, <1>4, <1>8, <1>9, <1>16, <1>17 DEF IInv, Places, CollectingOwed
<1>21. QueuedOwed' /\ QueuedOnce'
  BY <1>2, <1>4, <1>8, <1>9, <1>16, <1>17 DEF IInv, Places, QueuedOwed, QueuedOnce
<1> QED BY <1>13, <1>14, <1>15, <1>19, <1>20, <1>21 DEF IInv, Places


LEMMA InvStep == IInv /\ [Next]_vars => IInv'
<1> SUFFICES ASSUME IInv, [Next]_vars
             PROVE  IInv'
  OBVIOUS
<1>0. TypeOK'
  BY TypeStep DEF IInv
<1>1. ASSUME NEW w \in Workers, WorkerLife(w)
      PROVE  IInv'
  BY <1>0, <1>1, LifeStep
<1>2. ASSUME NEW w \in Workers, ReceiveRequest(w)
      PROVE  IInv'
  BY <1>0, <1>2, ReceiveStep
<1>3. ASSUME NEW w \in Workers, NEW r \in RequestIds,
             Collected(w, r) \/ CollectionRejected(w, r) \/ CollectionThrew(w, r)
      PROVE  IInv'
  BY <1>0, <1>3, AnswerStep DEF Collected, CollectionRejected, CollectionThrew
<1>4. CASE ClusterMetrics
  BY <1>0, <1>4, ScrapeStep
<1>5. ASSUME NEW a \in answers, ErrorResponse(a)
      PROVE  IInv'
  <2>1. a.requestId \in RequestIds
    BY DEF IInv, TypeOK, Answer
  <2> QED BY <1>0, <1>5, <2>1, FailStep DEF ErrorResponse
<1>6. ASSUME NEW a \in answers, MetricsResponse(a)
      PROVE  IInv'
  BY <1>0, <1>6, ResponseStep
<1>7. ASSUME NEW r \in RequestIds, Timeout(r)
      PROVE  IInv'
  BY <1>0, <1>7, FailStep DEF Timeout, channelVars
<1>8. CASE UNCHANGED vars
  <2>1. UNCHANGED requestVars /\ UNCHANGED channelVars
    BY <1>8 DEF vars, requestVars, channelVars
  <2>2. Fresh' /\ Counting' /\ Settling' /\ \A r \in RequestIds : Owed(r)' = Owed(r)
    BY <2>1, ScrapesUnchanged
  <2>3. Places'
    BY <2>1, <2>2, PlacesConsumed DEF channelVars
  <2> QED BY <1>0, <2>2, <2>3 DEF IInv
<1> QED
  BY <1>1, <1>2, <1>3, <1>4, <1>5, <1>6, <1>7, <1>8
     DEF Next, WorkerStep, MasterStep

LEMMA Invariance == Spec => []IInv
BY InvInit, InvStep, PTL DEF Spec

-----------------------------------------------------------------------------
\* What the invariant is for.

\* A scrape that resolves has merged the registry of each worker it asked,
\* once each (opentelemetry-aggregator.ts:39-53).
THEOREM ResolvedIsComplete == Spec => []CompleteScrape
<1>1. IInv => CompleteScrape
  <2> SUFFICES ASSUME IInv, NEW r \in RequestIds, outcome[r] = "ok"
               PROVE  /\ report[r] = asked[r]
                      /\ Len(responses[r]) = Cardinality(asked[r])
    BY DEF CompleteScrape
  <2>1. report[r] = asked[r] /\ Owed(r) = {}
    BY DEF IInv, Settling
  <2>2. Len(responses[r]) + Cardinality(Owed(r)) = Cardinality(asked[r])
    BY DEF IInv, Counting
  <2>3. Len(responses[r]) \in Nat
    BY DEF IInv, TypeOK
  <2> QED BY <2>1, <2>2, <2>3, FS_EmptySet
<1> QED BY <1>1, Invariance, PTL

\* The counter that decides when a scrape is done is the number of workers
\* still owing an answer, so it cannot reach zero early or stay above it
\* (opentelemetry-aggregator.ts:43-45, 121-126).
THEOREM PendingCounts == Spec => []PendingIsOutstanding
<1>1. IInv => PendingIsOutstanding
  BY DEF IInv, Counting, Owed, PendingIsOutstanding
<1> QED BY <1>1, Invariance, PTL

\* The Map lookup of line 30 never comes back empty for an answer.
THEOREM LookupFinds == Spec => []AnswerHasRequest
<1>1. IInv => AnswerHasRequest
  BY DEF IInv, TypeOK, Answer, Places, AnswersOwed, Counting, AnswerHasRequest
<1> QED BY <1>1, Invariance, PTL


\* A promise settles once, whatever arrives afterwards
\* (opentelemetry-aggregator.ts:92-102).
THEOREM SettlesOnce == Spec => SettledOnce
<1> DEFINE Kept == \A r \in RequestIds :
                        outcome[r] \in {"ok", "failed"} =>
                            outcome'[r] = outcome[r] /\ report'[r] = report[r]
<1>1. ASSUME IInv, [Next]_vars
      PROVE  Kept
  <2>1. CASE UNCHANGED <<outcome, report>>
    BY <2>1
  <2>2. ASSUME NEW q \in RequestIds, NEW result, NEW ws, Done(q, result, ws)
        PROVE  Kept
    BY <1>1, <2>2 DEF Done, IInv, TypeOK
  <2>3. CASE ClusterMetrics
    <3>1. PICK q \in RequestIds : q = requestCtr /\ q \in Nat
      BY <1>1, <2>3, AggregatorAssumption DEF ClusterMetrics, IInv, TypeOK, RequestIds
    <3>2. outcome[q] = "idle"
      BY <1>1, <3>1 DEF IInv, Fresh
    <3> QED BY <1>1, <2>3, <3>1, <3>2 DEF ClusterMetrics, IInv, TypeOK
  <2>4. ASSUME NEW w \in Workers, WorkerLife(w) \/ WorkerStep(w)
        PROVE  UNCHANGED <<outcome, report>>
    BY <2>4 DEF WorkerLife, Fork, StartWorker, Terminate, Exit, NoticeExit,
       WorkerStep, ReceiveRequest, Collected, CollectionRejected, CollectionThrew,
       SendAnswer, requestVars
  <2>5. ASSUME NEW a \in answers, ErrorResponse(a) \/ MetricsResponse(a)
        PROVE  Kept
    <3>1. a.requestId \in RequestIds
      BY <1>1 DEF IInv, TypeOK, Answer
    <3> QED BY <2>1, <2>2, <2>5, <3>1 DEF ErrorResponse, MetricsResponse, Last
  <2>6. ASSUME NEW r \in RequestIds, Timeout(r)
        PROVE  Kept
    BY <2>2, <2>6 DEF Timeout
  <2>7. CASE UNCHANGED vars
    BY <2>1, <2>7 DEF vars
  <2> QED BY <1>1, <2>1, <2>3, <2>4, <2>5, <2>6, <2>7 DEF Next, MasterStep
<1> QED BY <1>1, Invariance, PTL DEF Spec, SettledOnce

-----------------------------------------------------------------------------
\* The timer as the safety net of an open scrape.

\* A null registry stays among the responses.
LEMMA NullStays ==
    ASSUME NEW rs \in Seq(Response), NEW e \in Response, Mergeable(Append(rs, e))
    PROVE  Mergeable(rs)
<1> SUFFICES ASSUME NEW i \in DOMAIN rs
             PROVE  rs[i].kind = "metrics"
  BY DEF Mergeable
<1>1. i \in DOMAIN Append(rs, e) /\ Append(rs, e)[i] = rs[i]
  OBVIOUS
<1> QED BY <1>1 DEF Mergeable

LEMMA TimerInit == Init => OpenHasTimer
BY DEF Init, OpenHasTimer

LEMMA TimerStep == IInv /\ OpenHasTimer /\ [Next]_vars => OpenHasTimer'
<1> SUFFICES ASSUME IInv, OpenHasTimer, [Next]_vars
             PROVE  OpenHasTimer'
  OBVIOUS
<1> USE DEF OpenHasTimer
<1>1. ASSUME UNCHANGED <<responses, outcome, errorTimeout>>
      PROVE  OpenHasTimer'
  BY <1>1 DEF Mergeable
<1>2. ASSUME NEW w \in Workers, WorkerLife(w) \/ WorkerStep(w)
      PROVE  UNCHANGED <<responses, outcome, errorTimeout>>
  BY <1>2 DEF WorkerLife, Fork, StartWorker, Terminate, Exit, NoticeExit,
     WorkerStep, ReceiveRequest, Collected, CollectionRejected, CollectionThrew,
     SendAnswer, requestVars
<1>3. CASE ClusterMetrics
  <2>1. UNCHANGED responses
    BY <1>3 DEF ClusterMetrics
  <2>2. \A r \in RequestIds :
            \/ outcome'[r] = outcome[r] /\ errorTimeout'[r] = errorTimeout[r]
            \/ outcome'[r] = "open" => errorTimeout'[r]
    BY <1>3 DEF ClusterMetrics, IInv, TypeOK
  <2> QED BY <2>1, <2>2 DEF Mergeable
<1>4. ASSUME NEW r \in RequestIds, Done(r, "failed", {}), UNCHANGED responses,
             \A q \in RequestIds \ {r} : errorTimeout'[q] = errorTimeout[q]
      PROVE  OpenHasTimer'
  <2>1. \A q \in RequestIds : outcome'[q] = "open" => outcome[q] = "open" /\ q # r
    BY <1>4 DEF Done, IInv, TypeOK
  <2> QED BY <1>4, <2>1 DEF Mergeable
<1>5. ASSUME NEW a \in answers, ErrorResponse(a)
      PROVE  OpenHasTimer'
  <2>1. a.requestId \in RequestIds
    BY DEF IInv, TypeOK, Answer
  <2> QED BY <1>4, <1>5, <2>1 DEF ErrorResponse
<1>6. ASSUME NEW a \in answers, MetricsResponse(a)
      PROVE  OpenHasTimer'
  <2> DEFINE r == a.requestId
             e == [from |-> a.from, kind |-> a.kind]
             rs == Append(responses[r], e)
  <2>1. r \in RequestIds /\ e \in Response
    BY <1>6 DEF MetricsResponse, IInv, TypeOK, Answer, Response
  <2>2. responses[r] \in Seq(Response)
    BY <2>1 DEF IInv, TypeOK
  <2>3. Mergeable(rs) => Mergeable(responses[r])
    BY <2>1, <2>2, NullStays
  <2>4. responses' = [responses EXCEPT ![r] = rs]
    BY <1>6 DEF MetricsResponse
  <2>5. \/ UNCHANGED <<outcome, errorTimeout>>
        \/ Done(r, "ok", Senders(rs)) /\ Last(r)
        \/ ~ Mergeable(rs) /\ UNCHANGED outcome
    BY <1>6 DEF MetricsResponse
  <2>6. \A q \in RequestIds \ {r} : errorTimeout'[q] = errorTimeout[q]
    BY <1>6, <2>1 DEF MetricsResponse, IInv, TypeOK
  <2> HIDE DEF rs, e
  <2>7. responses'[r] = rs /\ \A q \in RequestIds \ {r} : responses'[q] = responses[q]
    BY <2>1, <2>4 DEF IInv, TypeOK
  <2>8. ASSUME NEW q \in RequestIds, outcome'[q] = "open"
        PROVE  errorTimeout'[q] \/ ~ Mergeable(responses'[q])
    <3>1. outcome[q] = "open"
      BY <2>1, <2>5, <2>8 DEF Done, IInv, TypeOK
    <3>2. CASE q # r
      BY <2>6, <2>7, <3>1, <3>2
    <3>3. CASE q = r
      <4>1. UNCHANGED errorTimeout \/ ~ Mergeable(rs)
        BY <2>1, <2>5, <2>8, <3>3 DEF Done, IInv, TypeOK
      <4> QED BY <2>3, <2>7, <3>1, <3>3, <4>1
    <3> QED BY <3>2, <3>3
  <2> QED BY <2>8 DEF Mergeable
<1>7. ASSUME NEW r \in RequestIds, Timeout(r)
      PROVE  OpenHasTimer'
  BY <1>4, <1>7 DEF Timeout, IInv, TypeOK
<1>8. CASE UNCHANGED vars
  BY <1>1, <1>8 DEF vars
<1> QED
  BY <1>1, <1>2, <1>3, <1>5, <1>6, <1>7, <1>8 DEF Next, MasterStep

\* An open scrape has its five-second timer armed unless a null registry has
\* been answered to it (opentelemetry-aggregator.ts:45-53, 108-111).
THEOREM TimerGuardsOpen == Spec => []OpenHasTimer
BY TimerInit, TimerStep, Invariance, PTL DEF Spec

-----------------------------------------------------------------------------
\* The code implements the promise.

LEMMA ImplInit == Init => Promise!Init
BY DEF Init, Promise!Init, Promise!Scrapes, RequestIds

\* There is no text before the promise resolves.
Unreported == \A r \in RequestIds : outcome[r] # "ok" => report[r] = {}

LEMMA UnreportedStep == IInv /\ Unreported /\ [Next]_vars => Unreported'
<1> SUFFICES ASSUME IInv, Unreported, [Next]_vars,
                    ~ UNCHANGED <<outcome, report>>
             PROVE  Unreported'
  BY DEF Unreported
<1>1. ASSUME NEW r \in RequestIds, NEW result, NEW ws, Done(r, result, ws),
             result = "ok" \/ ws = {}
      PROVE  Unreported'
  BY <1>1 DEF Done, IInv, TypeOK, Unreported
<1>2. CASE ClusterMetrics
  <2>1. PICK q \in RequestIds : q = requestCtr /\ q \in Nat
    BY <1>2, AggregatorAssumption DEF ClusterMetrics, IInv, TypeOK, RequestIds
  <2>2. report[q] = {}
    BY <2>1 DEF IInv, Fresh
  <2> QED BY <1>2, <2>1, <2>2 DEF ClusterMetrics, IInv, TypeOK, Unreported
<1>3. ASSUME NEW w \in Workers, WorkerLife(w) \/ WorkerStep(w)
      PROVE  FALSE
  BY <1>3 DEF WorkerLife, Fork, StartWorker, Terminate, Exit, NoticeExit,
     WorkerStep, ReceiveRequest, Collected, CollectionRejected, CollectionThrew,
     SendAnswer, requestVars
<1>4. ASSUME NEW a \in answers, ErrorResponse(a) \/ MetricsResponse(a)
      PROVE  Unreported'
  <2>1. a.requestId \in RequestIds
    BY DEF IInv, TypeOK, Answer
  <2> QED BY <1>1, <1>4, <2>1 DEF ErrorResponse, MetricsResponse, Last
<1>5. ASSUME NEW r \in RequestIds, Timeout(r)
      PROVE  Unreported'
  BY <1>1, <1>5 DEF Timeout
<1> QED BY <1>2, <1>3, <1>4, <1>5 DEF Next, MasterStep, vars

LEMMA ImplStep ==
    IInv /\ IInv' /\ Unreported /\ [Next]_vars => [Promise!Next]_(Promise!scrape)
<1> SUFFICES ASSUME IInv, IInv', Unreported, [Next]_vars,
                    ~ UNCHANGED <<asked, outcome, report>>
             PROVE  Promise!Next
  BY DEF Promise!scrape
<1>0. Promise!Scrapes = RequestIds
  BY DEF Promise!Scrapes, RequestIds
<1>1. ASSUME NEW w \in Workers, WorkerLife(w) \/ WorkerStep(w)
      PROVE  FALSE
  BY <1>1 DEF WorkerLife, Fork, StartWorker, Terminate, Exit, NoticeExit,
     WorkerStep, ReceiveRequest, Collected, CollectionRejected, CollectionThrew,
     SendAnswer, requestVars
<1>2. CASE ClusterMetrics
  <2>1. PICK q \in RequestIds : q = requestCtr /\ q \in Nat
    BY <1>2, AggregatorAssumption DEF ClusterMetrics, IInv, TypeOK, RequestIds
  <2>2. outcome[q] = "idle" /\ connected \in SUBSET Workers
    BY <2>1 DEF IInv, TypeOK, Fresh
  <2>3. Promise!Ask(q, connected)
    BY <1>2, <2>1, <2>2 DEF ClusterMetrics, Promise!Ask
  <2> QED BY <1>0, <2>1, <2>2, <2>3 DEF Promise!Next
<1>3. ASSUME NEW r \in RequestIds, Done(r, "failed", {}), asked' = asked
      PROVE  Promise!Next
  <2>1. outcome[r] = "open" /\ asked' = asked
        /\ outcome' = [outcome EXCEPT ![r] = "failed"]
        /\ report' = [report EXCEPT ![r] = {}]
    BY <1>3 DEF Done
  <2>2. report' = report
    <3>1. report \in [RequestIds -> SUBSET Workers] /\ report[r] = {}
      BY <2>1 DEF IInv, TypeOK, Unreported
    <3> QED BY <2>1, <3>1
  <2> QED BY <1>0, <2>1, <2>2 DEF Promise!Next, Promise!Settle, Promise!Reject
<1>4. ASSUME NEW a \in answers, MetricsResponse(a)
      PROVE  Promise!Next
  <2> DEFINE r == a.requestId
             ws == Senders(Append(responses[r], [from |-> a.from, kind |-> a.kind]))
  <2>1. r \in RequestIds
    BY DEF IInv, TypeOK, Answer
  <2>2. Done(r, "ok", ws) /\ asked' = asked
    BY <1>4 DEF MetricsResponse, Last
  <2> HIDE DEF ws
  <2>3. /\ outcome[r] = "open"
        /\ outcome' = [outcome EXCEPT ![r] = "ok"]
        /\ report' = [report EXCEPT ![r] = ws]
    BY <2>2 DEF Done
  <2>4. outcome'[r] = "ok" /\ report'[r] = ws
    BY <2>1, <2>3 DEF IInv, TypeOK
  <2>5. ws = asked[r]
    BY <2>1, <2>2, <2>4 DEF IInv, Settling
  <2> QED
    BY <1>0, <2>1, <2>2, <2>3, <2>5 DEF Promise!Next, Promise!Settle, Promise!Resolve
<1>5. CASE UNCHANGED vars
  BY <1>5 DEF vars
<1>6. ASSUME NEW a \in answers, ErrorResponse(a)
      PROVE  Promise!Next
  <2>1. a.requestId \in RequestIds
    BY DEF IInv, TypeOK, Answer
  <2> QED BY <1>3, <1>6, <2>1 DEF ErrorResponse
<1>7. ASSUME NEW r \in RequestIds, Timeout(r)
      PROVE  Promise!Next
  BY <1>3, <1>7 DEF Timeout
<1> QED BY <1>1, <1>2, <1>4, <1>5, <1>6, <1>7 DEF Next, MasterStep

\* Every execution of the aggregator, workers dying and shutting down
\* included, is one that the abstract scrape allows: what is left to the
\* model checker is only that an open scrape ends.
THEOREM ImplementsPromise == Spec => Promise!Safety
<1>1. Init => Unreported
  BY DEF Init, Unreported
<1> QED BY <1>1, UnreportedStep, ImplInit, ImplStep, Invariance, PTL
        DEF Spec, Promise!Safety


=============================================================================

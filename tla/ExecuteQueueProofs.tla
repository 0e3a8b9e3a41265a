------------------------- MODULE ExecuteQueueProofs -------------------------
(***************************************************************************)
(* Proofs about ExecuteQueue, for any number of instances, queues and      *)
(* batches: the types, the tokens of worker_queue_semaphore, and that the  *)
(* heap is never popped when it is empty.                                  *)
(*                                                                         *)
(* A batch k can be executed before its id is in the heap, and a pop takes *)
(* the least id whichever it is, so what is in the heap says little about  *)
(* the batches.  The count does: an instance that has begun to enqueue i   *)
(* messages has pushed at least i - 1 ids, and it begins with the one of   *)
(* the genesis, so the instance has pushed as many ids as it has batches   *)
(* that were executed, and the instances together as many as there were    *)
(* executions, which is one more than there were pops.                     *)
(***************************************************************************)
EXTENDS ExecuteQueue, TallyProofs

(* Batch k is in what its instance has begun to enqueue. *)
Begun(k) == sent[k % Instances] >= 2 + (k \div Instances)
BegunMsg == {TxnId(k) : k \in {j \in Batch : Begun(j)}} \cup {GenesisId}

(* The ids of an instance that are in the heap or were popped from it. *)
Pushed == [p \in Producer |-> IF enqueuing[p] # None /\ ~heaped[p] THEN sent[p] - 1 ELSE sent[p]]

Lengths == [q \in 0 .. (IndexSize - 1) |-> Len(work_queue[q])]

(* Only what was begun is under way. *)
UnderWay ==
  /\ enqueuing \in [Thread -> BegunMsg \cup {None}]
  /\ work_queue \in [0 .. (IndexSize - 1) -> Seq(BegunMsg)]
  /\ running = "execute" => expectedExecuteCount \in BegunMsg

(* Where the threads are. *)
Steps ==
  /\ \A t \in Thread : heaped[t] => enqueuing[t] # None
  /\ running # "wait" => ~heaped[Executor]
  /\ running = "requeue" => enqueuing[Executor] # None
  /\ \A p \in Producer : enqueuing[p] # None => sent[p] > 0

(* The first e batches were executed, and each popped an id. *)
Executions(e) ==
  /\ expectedExecuteCount = TxnId(e)
  /\ \A k \in 0 .. (e - 1) : Begun(k)
  /\ running = "pop" => e > 0
  /\ Total(execute_msg_heap) + (IF running = "pop" THEN e - 1 ELSE e) >= Total(Pushed)

Inv ==
  /\ TypeOK /\ UnderWay /\ Steps
  /\ \E e \in 0 .. (MaxBatch + 1) : Executions(e)
-----------------------------------------------------------------------------
LEMMA Constants ==
  /\ Instances \in Nat /\ Instances > 0 /\ IndexSize \in Nat /\ IndexSize > 0
  /\ MaxBatch \in Nat /\ BatchSize \in Nat /\ BatchSize >= 2
  /\ WORD \in Nat /\ WORD > (MaxBatch + 2) * BatchSize
  BY ConstantsAssumption

(* The ids of the batches are different, and the one of the genesis is     *)
(* greater than all of them.                                               *)
LEMMA TxnIdNext ==
  ASSUME NEW k \in Nat
  PROVE  TxnId(k) \in Nat /\ TxnId(k) + BatchSize = TxnId(k + 1)
<1>1. (k + 1) * BatchSize = k * BatchSize + BatchSize /\ (k + 1 + 1) * BatchSize = (k + 1) * BatchSize + BatchSize
  BY Constants
<1>2. k * BatchSize \in Nat /\ (k + 1) * BatchSize \in Nat
  BY Constants
<1>3. QED
  BY <1>1, <1>2, Constants DEF TxnId

LEMMA TxnIdLess ==
  ASSUME NEW j \in Nat, NEW k \in Nat, j < k
  PROVE  TxnId(j) < TxnId(k)
<1>1. k * BatchSize = j * BatchSize + (k - j) * BatchSize
  BY Constants
<1>2. (k - j) * BatchSize > 0
  BY Constants
<1>3. /\ (k + 1) * BatchSize = k * BatchSize + BatchSize /\ (j + 1) * BatchSize = j * BatchSize + BatchSize
      /\ k * BatchSize \in Nat /\ j * BatchSize \in Nat /\ (k - j) * BatchSize \in Nat
  BY Constants
<1>4. QED
  BY <1>1, <1>2, <1>3, Constants DEF TxnId

LEMMA TxnIdInjective ==
  ASSUME NEW j \in Nat, NEW k \in Nat, TxnId(j) = TxnId(k)
  PROVE  j = k
<1>1. TxnId(j) \in Nat
  BY TxnIdNext
<1>2. ~(j < k) /\ ~(k < j)
  <2>1. j < k => TxnId(j) < TxnId(k)
    BY TxnIdLess
  <2>2. k < j => TxnId(k) < TxnId(j)
    BY TxnIdLess
  <2>3. QED
    BY <1>1, <2>1, <2>2
<1>3. QED
  BY <1>2

LEMMA Genesis == GenesisId = WORD - 1
<1>1. 0 - 1 \in Int /\ WORD - 1 \in 0 .. (WORD - 1) /\ 0 - 1 = WORD * (0 - 1) + (WORD - 1) /\ WORD > 0
  <2>1. (MaxBatch + 2) * BatchSize >= 0
    BY Constants
  <2>2. WORD > 0 /\ WORD * (0 - 1) = 0 - WORD
    BY <2>1, Constants
  <2>3. QED
    BY <2>2, Constants
<1>2. QED
  BY <1>1, Constants, IsRemainder DEF GenesisId

LEMMA TxnIdNotGenesis ==
  ASSUME NEW k \in 0 .. (MaxBatch + 1)
  PROVE  TxnId(k) # GenesisId
<1>1. PICK n \in Nat : n = MaxBatch + 1
  BY Constants
<1>2. TxnId(k) <= TxnId(n)
  <2>1. k \in Nat /\ (k = n \/ k < n)
    BY <1>1, Constants
  <2>2. TxnId(k) \in Nat /\ TxnId(n) \in Nat
    BY <2>1, TxnIdNext
  <2>3. k < n => TxnId(k) < TxnId(n)
    BY <2>1, TxnIdLess
  <2>4. QED
    BY <2>1, <2>2, <2>3
<1>3. TxnId(n) = (MaxBatch + 2) * BatchSize - 2
  <2>1. n + 1 = MaxBatch + 2
    BY <1>1, Constants
  <2>2. QED
    BY <2>1 DEF TxnId
<1>4. TxnId(k) \in Nat /\ TxnId(n) \in Nat /\ (MaxBatch + 2) * BatchSize \in Nat
  BY <1>1, Constants, TxnIdNext
<1>5. QED
  BY <1>2, <1>3, <1>4, Constants, Genesis

LEMMA MsgType ==
  /\ Msg \subseteq Nat /\ IsFiniteSet(Msg) /\ None \notin Msg
  /\ \A m \in Nat : qid(m) \in 0 .. (IndexSize - 1)
<1>1. \A k \in Batch : TxnId(k) \in Nat
  BY TxnIdNext, Constants DEF Batch
<1>2. GenesisId \in Nat
  <2>1. (MaxBatch + 2) * BatchSize >= 0
    BY Constants
  <2>2. QED
    BY <2>1, Constants, Genesis
<1>3. Msg \subseteq Nat /\ None \notin Msg
  BY <1>1, <1>2 DEF Msg, None
<1>4. IsFiniteSet(Msg)
  <2> DEFINE T == {TxnId(k) : k \in Batch}
             g == [k \in Batch |-> TxnId(k)]
  <2>1. g \in Surjection(Batch, T)
    BY DEF Surjection
  <2>2. IsFiniteSet(Batch)
    BY Constants, FS_Interval DEF Batch
  <2>3. Msg = T \cup {GenesisId}
    BY DEF Msg
  <2> HIDE DEF T, g
  <2>4. IsFiniteSet(T)
    BY <2>1, <2>2, FS_Surjection
  <2>5. QED
    BY <2>3, <2>4, FS_AddElement
<1>5. ASSUME NEW m \in Nat PROVE qid(m) \in 0 .. (IndexSize - 1)
  <2>0. (MaxBatch + 2) * BatchSize >= 0
    BY Constants
  <2>1. (m + 2) - BatchSize \in Int /\ WORD > 0
    BY <2>0, Constants
  <2>2. PICK a \in Int : a = ((m + 2) - BatchSize) % WORD
    BY <2>1, Constants, Remainder
  <2>3. PICK b \in Int : b = a \div BatchSize
    BY Constants, Remainder
  <2>4. b % IndexSize \in 0 .. (IndexSize - 1)
    BY Constants, Remainder
  <2>5. QED
    BY <2>2, <2>3, <2>4 DEF qid
<1>6. QED
  BY <1>3, <1>4, <1>5
-----------------------------------------------------------------------------
LEMMA ThreadType ==
  /\ Executor \in Thread /\ Executor \notin Producer /\ Producer \subseteq Thread
  /\ IsFiniteSet(Producer) /\ Producer \subseteq Nat
<1>1. IsFiniteSet(Producer)
  BY Constants, FS_Interval DEF Producer
<1>2. QED
  BY <1>1, Constants DEF Thread, Executor, Producer

LEMMA Types ==
  ASSUME TypeOK
  PROVE  /\ sent \in [Producer -> Nat]
         /\ enqueuing \in [Thread -> Msg \cup {None}]
         /\ heaped \in [Thread -> BOOLEAN]
         /\ work_queue \in [0 .. (IndexSize - 1) -> Seq(Msg)]
         /\ worker_queue_semaphore \in Nat /\ execute_semaphore \in Nat
         /\ execute_msg_heap \in [Msg -> Nat]
         /\ running \in {"wait", "requeue", "execute", "pop", "top"}
  BY DEF TypeOK

LEMMA ExpectedType ==
  ASSUME TypeOK
  PROVE  expectedExecuteCount \in Nat
<1>1. PICK k \in 0 .. MaxBatch + 1 : expectedExecuteCount = TxnId(k)
  BY DEF TypeOK
<1>2. QED
  BY <1>1, TxnIdNext, Constants

(* The place of batch k among the messages of its instance. *)
LEMMA BatchPlace ==
  ASSUME NEW k \in Nat
  PROVE  k % Instances \in Producer /\ k \div Instances \in Nat
<1>1. PICK r \in 0 .. (Instances - 1) : r = k % Instances
  BY Constants, Remainder
<1>2. PICK d \in Int : d = k \div Instances
  BY Constants, Remainder
<1>3. k = Instances * d + r
  BY <1>1, <1>2, Constants, Remainder
<1>4. d >= 0
  <2>1. SUFFICES ASSUME d <= -1 PROVE FALSE
    OBVIOUS
  <2>2. Instances * d <= -Instances
    BY <2>1, Constants
  <2>3. QED
    BY <1>3, <2>2, Constants
<1>5. QED
  BY <1>1, <1>2, <1>4 DEF Producer

LEMMA BegunMsgs ==
  /\ BegunMsg \subseteq Msg /\ GenesisId \in BegunMsg
  /\ \A k \in Batch : Begun(k) => TxnId(k) \in BegunMsg
  BY DEF BegunMsg, Msg

(* What was begun stays begun. *)
LEMMA BegunKept ==
  ASSUME sent \in [Producer -> Nat], sent' \in [Producer -> Nat],
         \A p \in Producer : sent'[p] >= sent[p]
  PROVE  /\ \A k \in Nat : Begun(k) => Begun(k)'
         /\ BegunMsg \subseteq BegunMsg'
<1>1. ASSUME NEW k \in Nat, Begun(k) PROVE Begun(k)'
  <2>1. PICK p \in Producer : p = k % Instances
    BY BatchPlace
  <2>2. PICK d \in Nat : d = k \div Instances
    BY BatchPlace
  <2>3. sent[p] >= 2 + d
    BY <1>1, <2>1, <2>2 DEF Begun
  <2>4. sent[p] \in Nat /\ sent'[p] \in Nat /\ sent'[p] >= sent[p]
    OBVIOUS
  <2>5. sent'[p] >= 2 + d
    BY <2>3, <2>4
  <2>6. QED
    BY <2>1, <2>2, <2>5 DEF Begun
<1>2. Batch \subseteq Nat
  BY Constants DEF Batch
<1>3. BegunMsg \subseteq BegunMsg'
  BY <1>1, <1>2 DEF BegunMsg
<1>4. QED
  BY <1>1, <1>3

(* The message to execute next, if it was begun, is the one of a batch. *)
LEMMA ExpectedBegun ==
  ASSUME NEW k \in 0 .. (MaxBatch + 1), TxnId(k) \in BegunMsg
  PROVE  k \in Batch /\ Begun(k)
<1>1. PICK j \in Batch : TxnId(k) = TxnId(j) /\ Begun(j)
  BY TxnIdNotGenesis DEF BegunMsg
<1>2. j \in Nat /\ k \in Nat
  BY Constants DEF Batch
<1>3. j = k
  BY <1>1, <1>2, TxnIdInjective
<1>4. QED
  BY <1>1, <1>3

(* A message of an instance is begun with it. *)
LEMMA NthBegun ==
  ASSUME NEW p \in Producer, NEW i \in Nat, NthMsg(p, i) \in Msg,
         sent'[p] = i + 1
  PROVE  NthMsg(p, i) \in BegunMsg'
<1>1. CASE i = 0
  BY <1>1 DEF NthMsg, BegunMsg
<1>2. CASE i # 0 /\ NthMsg(p, i) = GenesisId
  BY <1>2 DEF BegunMsg
<1>3. CASE i # 0 /\ NthMsg(p, i) # GenesisId
  <2>1. PICK k \in Batch : NthMsg(p, i) = TxnId(k)
    BY <1>3 DEF Msg
  <2>2. PICK j \in Nat : j = i - 1
    BY <1>3
  <2>3. p \in 0 .. (Instances - 1) /\ j * Instances \in Nat /\ j * Instances = Instances * j
    BY Constants DEF Producer
  <2>4. PICK n \in Nat : n = p + j * Instances
    BY <2>3, Constants
  <2>5. TxnId(n) = TxnId(k) /\ k \in Nat
    BY <1>3, <2>1, <2>2, <2>4, Constants DEF NthMsg, Batch
  <2>6. n = k
    BY <2>5, TxnIdInjective
  <2>7. k \in Int /\ j \in Int /\ k = Instances * j + p
    BY <2>3, <2>4, <2>5, <2>6, Constants
  <2>8. k % Instances = p /\ k \div Instances = j
    BY <2>3, <2>7, Constants, IsRemainder, IsQuotient
  <2>9. Begun(k)'
    BY <2>2, <2>8 DEF Begun
  <2>10. QED
    BY <2>1, <2>9 DEF BegunMsg
<1>4. QED
  BY <1>1, <1>2, <1>3
-----------------------------------------------------------------------------
(* The steps. *)
LEMMA Actions ==
  ASSUME [Next]_vars
  PROVE  \/ \E p \in Producer : send_execute_msg_hotstuff(p)
         \/ \E t \in Thread : execute_msg_heap_push(t) \/ enqueue_check(t)
         \/ dequeue \/ requeue \/ process_hotstuff_execute
         \/ execute_msg_heap_pop \/ execute_msg_heap_top
         \/ UNCHANGED vars
  BY DEF Next, ThreadNext

(* Only an instance that enqueues a message changes what was begun. *)
LEMMA SentOnce ==
  ASSUME TypeOK, [Next]_vars
  PROVE  /\ sent' \in [Producer -> Nat] /\ \A p \in Producer : sent'[p] >= sent[p]
         /\ (\A p \in Producer : ~send_execute_msg_hotstuff(p)) => sent' = sent
<1>0. sent \in [Producer -> Nat]
  BY DEF TypeOK
<1>1. ASSUME NEW p \in Producer, send_execute_msg_hotstuff(p)
      PROVE  sent' \in [Producer -> Nat] /\ \A r \in Producer : sent'[r] >= sent[r]
  <2>1. sent' = [sent EXCEPT ![p] = sent[p] + 1]
    BY <1>1 DEF send_execute_msg_hotstuff
  <2>2. QED
    BY <1>0, <2>1
<1>2. CASE \A p \in Producer : ~send_execute_msg_hotstuff(p)
  <2>1. sent' = sent
    <3>1. CASE \E t \in Thread : execute_msg_heap_push(t) \/ enqueue_check(t)
      BY <3>1 DEF execute_msg_heap_push, enqueue_check
    <3>2. CASE dequeue \/ requeue \/ process_hotstuff_execute
      BY <3>2 DEF dequeue, requeue, process_hotstuff_execute
    <3>3. CASE execute_msg_heap_pop \/ execute_msg_heap_top \/ UNCHANGED vars
      BY <3>3 DEF execute_msg_heap_pop, execute_msg_heap_top, vars
    <3>4. QED
      BY <1>2, <3>1, <3>2, <3>3, Actions
  <2>2. QED
    BY <1>0, <2>1
<1>3. QED
  BY <1>1, <1>2

LEMMA SeqMore ==
  ASSUME NEW S, NEW T, S \subseteq T, NEW s \in Seq(S)
  PROVE  s \in Seq(T)
  OBVIOUS

LEMMA InitInv == Init => Inv
<1> SUFFICES ASSUME Init PROVE Inv
  OBVIOUS
<1>1. TypeOK
  <2>1. expectedExecuteCount \in {TxnId(k) : k \in 0 .. MaxBatch + 1}
    BY Constants DEF Init
  <2>2. QED
    BY <2>1 DEF Init, TypeOK
<1>2. UnderWay /\ Steps
  <2>1. \A p \in Producer : p \in Thread
    BY ThreadType
  <2>2. UnderWay
    BY DEF Init, UnderWay
  <2>3. Steps
    BY <2>1, ThreadType DEF Init, Steps
  <2>4. QED
    BY <2>2, <2>3
<1>3. Executions(0)
  <2>1. execute_msg_heap \in [Msg -> Nat] /\ IsFiniteSet(Msg)
    BY MsgType DEF Init
  <2>2. Pushed \in [Producer -> Nat] /\ \A p \in Producer : Pushed[p] = 0
    BY ThreadType DEF Init, Pushed
  <2>3. Total(Pushed) = 0
    BY <2>2, ThreadType, TotalZero
  <2>4. Total(execute_msg_heap) \in Nat
    BY <2>1, UnitsFinite
  <2>5. QED
    BY <2>3, <2>4 DEF Init, Executions
<1>4. QED
  BY <1>1, <1>2, <1>3, Constants DEF Inv

LEMMA UnderWayNext ==
  ASSUME Inv, [Next]_vars
  PROVE  UnderWay'
<1>0. TypeOK /\ UnderWay
  BY DEF Inv
<1>1. BegunMsg \subseteq BegunMsg' /\ BegunMsg \subseteq Msg
  BY <1>0, SentOnce, BegunKept, BegunMsgs, Types
<1> DEFINE Queue == 0 .. (IndexSize - 1)
<1>2. /\ enqueuing \in [Thread -> BegunMsg' \cup {None}]
      /\ work_queue \in [Queue -> Seq(BegunMsg')]
      /\ running = "execute" => expectedExecuteCount \in BegunMsg'
  <2>1. enqueuing \in [Thread -> BegunMsg \cup {None}] /\ work_queue \in [Queue -> Seq(BegunMsg)]
    BY <1>0 DEF UnderWay
  <2>2. \A q \in Queue : work_queue[q] \in Seq(BegunMsg')
    BY <1>1, <2>1, SeqMore
  <2>3. QED
    BY <1>0, <1>1, <2>1, <2>2 DEF UnderWay
<1>3. ASSUME NEW t \in Thread, NEW m \in BegunMsg', m \in Msg, push(t, m)
      PROVE  enqueuing' \in [Thread -> BegunMsg' \cup {None}] /\ work_queue' \in [Queue -> Seq(BegunMsg')]
  <2>1. PICK q \in Queue : q = qid(m)
    BY <1>3, MsgType
  <2>2. work_queue' = [work_queue EXCEPT ![q] = Append(work_queue[q], m)]
    BY <1>3, <2>1 DEF push
  <2>3. enqueuing' = [enqueuing EXCEPT ![t] = m]
    BY <1>3 DEF push
  <2>4. QED
    BY <1>2, <2>2, <2>3
<1>4. ASSUME NEW p \in Producer, send_execute_msg_hotstuff(p) PROVE UnderWay'
  <2>1. PICK i \in Nat : i = sent[p]
    BY <1>0 DEF TypeOK
  <2>2. sent'[p] = i + 1
    BY <1>0, <1>4, <2>1 DEF send_execute_msg_hotstuff, TypeOK
  <2>3. PICK m : m = NthMsg(p, i)
    OBVIOUS
  <2>4. m \in Msg /\ push(p, m) /\ UNCHANGED <<running, expectedExecuteCount>>
    BY <1>4, <2>1, <2>3 DEF send_execute_msg_hotstuff
  <2>5. m \in BegunMsg'
    BY <2>2, <2>3, <2>4, NthBegun
  <2>6. QED
    BY <1>2, <1>3, <2>4, <2>5, ThreadType DEF UnderWay
<1>5. ASSUME NEW t \in Thread, execute_msg_heap_push(t) \/ enqueue_check(t) PROVE UnderWay'
  BY <1>2, <1>5 DEF execute_msg_heap_push, enqueue_check, UnderWay
<1>6. CASE dequeue
  <2>1. PICK q \in Queue : q = qid(expectedExecuteCount)
    BY <1>0, ExpectedType, MsgType
  <2>2. work_queue[q] \in Seq(BegunMsg')
    BY <1>2
  <2>3. CASE UNCHANGED <<enqueuing, work_queue, running>>
    BY <1>2, <1>6, <2>3 DEF dequeue, UnderWay
  <2>4. CASE work_queue[q] # <<>> /\ work_queue' = [work_queue EXCEPT ![q] = Tail(work_queue[q])]
    <3>1. Head(work_queue[q]) \in BegunMsg' /\ Tail(work_queue[q]) \in Seq(BegunMsg')
      BY <2>2, <2>4
    <3>2. work_queue' \in [Queue -> Seq(BegunMsg')]
      BY <1>2, <2>4, <3>1
    <3>3. enqueuing' = enqueuing \/ enqueuing' = [enqueuing EXCEPT ![Executor] = Head(work_queue[q])]
      BY <1>6, <2>1 DEF dequeue
    <3>4. enqueuing' \in [Thread -> BegunMsg' \cup {None}]
      BY <1>2, <3>1, <3>3
    <3>5. running' = "execute" => Head(work_queue[q]) = expectedExecuteCount /\ expectedExecuteCount' = expectedExecuteCount
      BY <1>6, <2>1, <2>4 DEF dequeue, Awake
    <3>6. QED
      BY <3>1, <3>2, <3>4, <3>5 DEF UnderWay
  <2>5. QED
    BY <1>6, <2>1, <2>3, <2>4 DEF dequeue
<1>7. CASE requeue
  <2>1. PICK m \in BegunMsg' : m = enqueuing[Executor]
    BY <1>0, <1>2, <1>7, ThreadType DEF requeue, Inv, Steps
  <2>2. m \in Msg /\ push(Executor, m)
    BY <1>0, <1>7, <2>1, ThreadType DEF requeue, Inv, Steps, TypeOK
  <2>3. running' = "wait"
    BY <1>7 DEF requeue
  <2>4. QED
    BY <1>3, <2>2, <2>3, ThreadType DEF UnderWay
<1>8. CASE process_hotstuff_execute \/ execute_msg_heap_pop \/ execute_msg_heap_top
  BY <1>2, <1>8 DEF process_hotstuff_execute, execute_msg_heap_pop, execute_msg_heap_top, UnderWay
<1>9. CASE UNCHANGED vars
  BY <1>2, <1>9 DEF vars, UnderWay
<1>10. QED
  BY <1>4, <1>5, <1>6, <1>7, <1>8, <1>9, Actions

LEMMA StepsNext ==
  ASSUME Inv, [Next]_vars
  PROVE  Steps'
<1>0. /\ sent \in [Producer -> Nat] /\ enqueuing \in [Thread -> Msg \cup {None}]
      /\ heaped \in [Thread -> BOOLEAN]
  BY DEF Inv, TypeOK
<1>1. /\ \A t \in Thread : heaped[t] => enqueuing[t] # None
      /\ running # "wait" => ~heaped[Executor]
      /\ running = "requeue" => enqueuing[Executor] # None
      /\ \A p \in Producer : enqueuing[p] # None => sent[p] > 0
  BY DEF Inv, Steps
<1>2. ASSUME NEW p \in Producer, send_execute_msg_hotstuff(p) PROVE Steps'
  <2>1. PICK m \in Msg : /\ enqueuing' = [enqueuing EXCEPT ![p] = m]
                         /\ sent' = [sent EXCEPT ![p] = sent[p] + 1]
                         /\ UNCHANGED <<heaped, running>>
    BY <1>2 DEF send_execute_msg_hotstuff, push
  <2>2. m # None /\ p \in Thread /\ p # Executor
    BY MsgType, ThreadType
  <2>3. \A r \in Producer : r # p => sent'[r] = sent[r] /\ enqueuing'[r] = enqueuing[r]
    BY <1>0, <2>1, ThreadType
  <2>4. sent'[p] > 0 /\ enqueuing'[p] # None
    BY <1>0, <2>1, <2>2
  <2>5. \A t \in Thread : t # p => enqueuing'[t] = enqueuing[t]
    BY <1>0, <2>1
  <2>6. QED
    BY <1>1, <2>1, <2>2, <2>3, <2>4, <2>5, ThreadType DEF Steps
<1>3. ASSUME NEW t \in Thread, execute_msg_heap_push(t) PROVE Steps'
  <2>1. /\ enqueuing[t] # None /\ (t = Executor => running = "wait")
        /\ heaped' = [heaped EXCEPT ![t] = TRUE] /\ UNCHANGED <<sent, enqueuing, running>>
    BY <1>3 DEF execute_msg_heap_push
  <2>2. \A u \in Thread : u # t => heaped'[u] = heaped[u]
    BY <1>0, <2>1
  <2>3. QED
    BY <1>1, <2>1, <2>2, ThreadType DEF Steps
<1>4. ASSUME NEW t \in Thread, enqueue_check(t) PROVE Steps'
  <2>1. /\ heaped[t] /\ heaped' = [heaped EXCEPT ![t] = FALSE]
        /\ enqueuing' = [enqueuing EXCEPT ![t] = None] /\ UNCHANGED <<sent, running>>
    BY <1>4 DEF enqueue_check
  <2>2. /\ ~heaped'[t] /\ enqueuing'[t] = None
        /\ \A u \in Thread : u # t => heaped'[u] = heaped[u] /\ enqueuing'[u] = enqueuing[u]
    BY <1>0, <2>1
  <2>3. t = Executor => running = "wait"
    BY <1>1, <2>1
  <2>4. QED
    BY <1>1, <2>1, <2>2, <2>3, ThreadType DEF Steps
<1>5. CASE dequeue
  <2>1. enqueuing[Executor] = None /\ ~heaped[Executor]
    BY <1>1, <1>5, ThreadType DEF dequeue, Awake
  <2>2. UNCHANGED <<sent, heaped>>
    BY <1>5 DEF dequeue
  <2>3. CASE running' # "requeue" /\ UNCHANGED enqueuing
    BY <1>1, <2>1, <2>2, <2>3 DEF Steps
  <2>4. CASE \E m \in Msg : enqueuing' = [enqueuing EXCEPT ![Executor] = m]
    <3>1. enqueuing'[Executor] # None /\ \A p \in Producer : enqueuing'[p] = enqueuing[p]
      BY <1>0, <2>4, ThreadType, MsgType
    <3>2. \A t \in Thread : t # Executor => enqueuing'[t] = enqueuing[t]
      BY <1>0, <2>4
    <3>3. QED
      BY <1>1, <2>1, <2>2, <3>1, <3>2 DEF Steps
  <2>5. PICK q \in 0 .. (IndexSize - 1) : q = qid(expectedExecuteCount)
    BY ExpectedType, MsgType DEF Inv
  <2>6. work_queue[q] \in Seq(Msg)
    BY DEF Inv, TypeOK
  <2>7. work_queue[q] # <<>> => Head(work_queue[q]) \in Msg
    BY <2>6
  <2>8. QED
    BY <1>5, <2>3, <2>4, <2>5, <2>7 DEF dequeue, Awake
<1>6. CASE requeue
  <2>1. enqueuing' = [enqueuing EXCEPT ![Executor] = enqueuing[Executor]]
    BY <1>6 DEF requeue, push
  <2>2. enqueuing' = enqueuing
    BY <1>0, <2>1
  <2>3. UNCHANGED <<sent, heaped>> /\ running' = "wait"
    BY <1>6 DEF requeue
  <2>4. QED
    BY <1>1, <2>2, <2>3 DEF Steps
<1>7. CASE process_hotstuff_execute
  BY <1>1, <1>7 DEF process_hotstuff_execute, Steps
<1>8. CASE execute_msg_heap_pop
  BY <1>1, <1>8 DEF execute_msg_heap_pop, Steps
<1>9. CASE execute_msg_heap_top
  BY <1>1, <1>9 DEF execute_msg_heap_top, Steps
<1>10. CASE UNCHANGED vars
  BY <1>1, <1>10 DEF vars, Steps
<1>11. QED
  BY <1>2, <1>3, <1>4, <1>5, <1>6, <1>7, <1>8, <1>9, <1>10, Actions
-----------------------------------------------------------------------------
LEMMA PushedType ==
  ASSUME TypeOK, Steps
  PROVE  /\ Pushed \in [Producer -> Nat] /\ Total(Pushed) \in Nat
         /\ \A p \in Producer : Pushed[p] >= sent[p] - 1
<1>0. sent \in [Producer -> Nat]
  BY DEF TypeOK
<1>1. ASSUME NEW p \in Producer PROVE Pushed[p] \in Nat /\ Pushed[p] >= sent[p] - 1
  <2>1. PICK n \in Nat : n = sent[p]
    BY <1>0
  <2>2. Pushed[p] = IF enqueuing[p] # None /\ ~heaped[p] THEN n - 1 ELSE n
    BY <2>1 DEF Pushed
  <2>3. enqueuing[p] # None => n > 0
    BY <2>1 DEF Steps
  <2>4. QED
    BY <2>1, <2>2, <2>3
<1>2. Pushed \in [Producer -> Nat]
  BY <1>1 DEF Pushed
<1>3. QED
  BY <1>1, <1>2, ThreadType, UnitsFinite

(* There are as many pushes as executions. *)
LEMMA PushedBound ==
  ASSUME TypeOK, Steps, NEW e \in Nat, \A k \in 0 .. (e - 1) : Begun(k)
  PROVE  Total(Pushed) >= e
<1> DEFINE D == 0 .. (e - 1)
           place(k) == <<k % Instances, (k \div Instances) + 1>>
           f == [k \in D |-> place(k)]
<1>1. ASSUME NEW k \in D PROVE place(k) \in Units(Pushed)
  <2>1. PICK p \in Producer : p = k % Instances
    BY BatchPlace
  <2>2. PICK d \in Nat : d = k \div Instances
    BY BatchPlace
  <2>3. sent[p] >= 2 + d /\ sent[p] \in Nat
    BY <2>1, <2>2 DEF Begun, TypeOK
  <2>4. Pushed[p] >= sent[p] - 1 /\ Pushed[p] \in Nat
    BY PushedType
  <2>5. d + 1 \in 1 .. Pushed[p]
    BY <2>3, <2>4
  <2>6. Pushed \in [Producer -> Nat]
    BY PushedType
  <2>7. <<p, d + 1>> \in Units(Pushed)
    BY <2>5, <2>6, UnitsOf
  <2>8. QED
    BY <2>1, <2>2, <2>7
<1>2. ASSUME NEW j \in D, NEW k \in D, place(j) = place(k) PROVE j = k
  <2>0. j % Instances = k % Instances /\ (j \div Instances) + 1 = (k \div Instances) + 1
    BY <1>2
  <2>1. PICK p \in Int : p = k % Instances /\ p = j % Instances
    <3>1. k % Instances \in Int
      BY Constants, Remainder
    <3>2. QED
      BY <2>0, <3>1
  <2>2. PICK d \in Nat : d = k \div Instances
    BY BatchPlace
  <2>3. PICK c \in Nat : c = j \div Instances
    BY BatchPlace
  <2>4. c + 1 = d + 1
    BY <2>0, <2>2, <2>3
  <2>5. k = Instances * d + p /\ j = Instances * c + p
    BY <2>1, <2>2, <2>3, Constants, Remainder
  <2>6. QED
    BY <2>4, <2>5
<1>3. f \in [D -> Units(Pushed)] /\ \A j, k \in D : f[j] = f[k] => j = k
  <2> HIDE DEF place
  <2>1. QED
    BY <1>1, <1>2
<1>4. f \in Injection(D, Units(Pushed))
  <2> HIDE DEF f, D
  <2>1. QED
    BY <1>3, Fun_IsInj
<1>5. IsFiniteSet(Units(Pushed))
  BY PushedType, ThreadType, UnitsFinite
<1>6. Cardinality(D) <= Cardinality(Units(Pushed))
  <2> HIDE DEF f, D
  <2>1. QED
    BY <1>4, <1>5, FS_Injection
<1>7. Cardinality(D) = e
  <2>1. Cardinality(D) = IF 0 > e - 1 THEN 0 ELSE (e - 1) - 0 + 1
    BY FS_Interval
  <2>2. QED
    BY <2>1
<1>8. QED
  BY <1>6, <1>7 DEF Total

(* The heap holds an id whenever it is popped. *)
LEMMA PopFindsId ==
  ASSUME Inv, running = "pop"
  PROVE  InHeap # {}
<1>1. PICK e \in 0 .. (MaxBatch + 1) : Executions(e)
  BY DEF Inv
<1>2. TypeOK /\ Steps /\ e \in Nat
  BY Constants DEF Inv
<1>3. Total(Pushed) >= e /\ Total(Pushed) \in Nat
  BY <1>1, <1>2, PushedBound, PushedType DEF Executions
<1>4. execute_msg_heap \in [Msg -> Nat] /\ IsFiniteSet(Msg)
  BY <1>2, MsgType DEF TypeOK
<1>5. Total(execute_msg_heap) \in Nat
  BY <1>4, UnitsFinite
<1>6. Total(execute_msg_heap) + (e - 1) >= Total(Pushed)
  BY <1>1 DEF Executions
<1>7. Total(execute_msg_heap) # 0
  BY <1>2, <1>3, <1>5, <1>6
<1>8. PICK i \in Msg : execute_msg_heap[i] # 0
  BY <1>4, <1>7, TotalZero
<1>9. QED
  BY <1>4, <1>8 DEF InHeap

LEMMA LeastId ==
  ASSUME InHeap # {}
  PROVE  Min(InHeap) \in InHeap
<1>1. InHeap \subseteq Nat
  BY MsgType DEF InHeap
<1>2. \E x \in InHeap : \A y \in InHeap : x <= y
  BY <1>1, LeastNatural
<1>3. QED
  BY <1>2 DEF Min
-----------------------------------------------------------------------------
LEMMA TypeNext ==
  ASSUME Inv, [Next]_vars
  PROVE  TypeOK'
<1>0. /\ sent \in [Producer -> Nat] /\ heaped \in [Thread -> BOOLEAN]
      /\ worker_queue_semaphore \in Nat /\ execute_semaphore \in Nat
      /\ execute_msg_heap \in [Msg -> Nat]
      /\ running \in {"wait", "requeue", "execute", "pop", "top"}
      /\ expectedExecuteCount \in {TxnId(k) : k \in 0 .. MaxBatch + 1}
      /\ enqueuing \in [Thread -> Msg \cup {None}]
  BY DEF Inv, TypeOK
<1>1. enqueuing' \in [Thread -> Msg \cup {None}] /\ work_queue' \in [0 .. (IndexSize - 1) -> Seq(Msg)]
  <2>1. /\ enqueuing' \in [Thread -> BegunMsg' \cup {None}]
        /\ work_queue' \in [0 .. (IndexSize - 1) -> Seq(BegunMsg')]
    BY UnderWayNext DEF UnderWay
  <2>2. BegunMsg' \subseteq Msg
    BY DEF BegunMsg, Msg
  <2>3. \A q \in 0 .. (IndexSize - 1) : work_queue'[q] \in Seq(Msg)
    BY <2>1, <2>2, SeqMore
  <2>4. QED
    BY <2>1, <2>2, <2>3
<1>2. sent' \in [Producer -> Nat]
  BY SentOnce DEF Inv
<1> DEFINE Rest == /\ heaped' \in [Thread -> BOOLEAN]
                   /\ worker_queue_semaphore' \in Nat /\ execute_semaphore' \in Nat
                   /\ execute_msg_heap' \in [Msg -> Nat]
                   /\ running' \in {"wait", "requeue", "execute", "pop", "top"}
                   /\ expectedExecuteCount' \in {TxnId(k) : k \in 0 .. MaxBatch + 1}
<1> SUFFICES Rest
  BY <1>1, <1>2 DEF TypeOK
<1>3. ASSUME NEW p \in Producer, send_execute_msg_hotstuff(p) PROVE Rest
  BY <1>0, <1>3 DEF send_execute_msg_hotstuff, push
<1>4. ASSUME NEW t \in Thread, execute_msg_heap_push(t) PROVE Rest
  <2>1. PICK m \in Msg : m = enqueuing[t]
    BY <1>0, <1>4 DEF execute_msg_heap_push
  <2>2. execute_msg_heap' = [execute_msg_heap EXCEPT ![m] = execute_msg_heap[m] + 1]
    BY <1>4, <2>1 DEF execute_msg_heap_push
  <2>3. execute_msg_heap' \in [Msg -> Nat]
    BY <1>0, <2>2
  <2>4. heaped' = [heaped EXCEPT ![t] = TRUE]
    BY <1>4 DEF execute_msg_heap_push
  <2>5. heaped' \in [Thread -> BOOLEAN]
    BY <1>0, <2>4
  <2>6. QED
    BY <1>0, <1>4, <2>3, <2>5 DEF execute_msg_heap_push
<1>5. ASSUME NEW t \in Thread, enqueue_check(t) PROVE Rest
  <2>1. heaped' = [heaped EXCEPT ![t] = FALSE]
    BY <1>5 DEF enqueue_check
  <2>2. heaped' \in [Thread -> BOOLEAN]
    BY <1>0, <2>1
  <2>3. execute_semaphore' \in Nat
    BY <1>0, <1>5 DEF enqueue_check
  <2>4. QED
    BY <1>0, <1>5, <2>2, <2>3 DEF enqueue_check
<1>6. CASE dequeue
  <2>1. execute_semaphore' \in Nat /\ worker_queue_semaphore' \in Nat
    BY <1>0, <1>6 DEF dequeue, Awake
  <2>2. running' \in {"wait", "requeue", "execute", "pop", "top"}
    BY <1>0, <1>6 DEF dequeue
  <2>3. UNCHANGED <<heaped, execute_msg_heap, expectedExecuteCount>>
    BY <1>6 DEF dequeue
  <2>4. QED
    BY <1>0, <2>1, <2>2, <2>3
<1>7. CASE requeue
  BY <1>0, <1>7 DEF requeue, push
<1>8. CASE process_hotstuff_execute
  <2>1. PICK k \in 0 .. MaxBatch + 1 : expectedExecuteCount = TxnId(k)
    BY <1>0
  <2>2. expectedExecuteCount \in BegunMsg
    BY <1>8 DEF process_hotstuff_execute, Inv, UnderWay
  <2>3. k \in Batch
    BY <2>1, <2>2, ExpectedBegun
  <2>4. k \in Nat /\ k + 1 \in 0 .. MaxBatch + 1
    BY <2>3, Constants DEF Batch
  <2>5. expectedExecuteCount' = TxnId(k + 1)
    BY <1>8, <2>1, <2>4, TxnIdNext DEF process_hotstuff_execute
  <2>6. UNCHANGED <<heaped, worker_queue_semaphore, execute_semaphore, execute_msg_heap>> /\ running' = "pop"
    BY <1>8 DEF process_hotstuff_execute
  <2>7. QED
    BY <1>0, <2>4, <2>5, <2>6
<1>9. CASE execute_msg_heap_pop
  <2>1. PICK m \in Msg : m = Min(InHeap) /\ execute_msg_heap[m] > 0
    <3>1. Min(InHeap) \in InHeap
      BY <1>9, PopFindsId, LeastId DEF execute_msg_heap_pop
    <3>2. QED
      BY <3>1 DEF InHeap
  <2>2. execute_msg_heap' = [execute_msg_heap EXCEPT ![m] = execute_msg_heap[m] - 1]
    BY <1>9, <2>1 DEF execute_msg_heap_pop
  <2>3. execute_msg_heap' \in [Msg -> Nat]
    BY <1>0, <2>1, <2>2
  <2>4. QED
    BY <1>0, <1>9, <2>3 DEF execute_msg_heap_pop
<1>10. CASE execute_msg_heap_top
  BY <1>0, <1>10 DEF execute_msg_heap_top
<1>11. CASE UNCHANGED vars
  BY <1>0, <1>11 DEF vars
<1>12. QED
  <2> HIDE DEF Rest
  <2>1. QED
    BY <1>3, <1>4, <1>5, <1>6, <1>7, <1>8, <1>9, <1>10, <1>11, Actions

LEMMA ExecutionsNext ==
  ASSUME Inv, [Next]_vars
  PROVE  \E e \in 0 .. (MaxBatch + 1) : Executions(e)'
<1>0. /\ sent \in [Producer -> Nat] /\ heaped \in [Thread -> BOOLEAN]
      /\ execute_msg_heap \in [Msg -> Nat] /\ enqueuing \in [Thread -> Msg \cup {None}]
      /\ TypeOK /\ Steps /\ IsFiniteSet(Msg) /\ IsFiniteSet(Producer)
  BY MsgType, ThreadType DEF Inv, TypeOK
<1>1. PICK e \in 0 .. (MaxBatch + 1) : Executions(e)
  BY DEF Inv
<1>2. e \in Nat /\ \A k \in 0 .. (e - 1) : k \in Nat
  BY Constants
<1>3. \A k \in 0 .. (e - 1) : Begun(k)'
  BY <1>0, <1>1, <1>2, SentOnce, BegunKept DEF Executions
<1>4. /\ Total(execute_msg_heap) \in Nat /\ Total(Pushed) \in Nat /\ Pushed \in [Producer -> Nat]
  BY <1>0, PushedType, UnitsFinite
<1>5. /\ expectedExecuteCount = TxnId(e) /\ (running = "pop" => e > 0)
      /\ Total(execute_msg_heap) + (IF running = "pop" THEN e - 1 ELSE e) >= Total(Pushed)
  BY <1>1 DEF Executions
<1>6. ASSUME UNCHANGED <<execute_msg_heap, expectedExecuteCount>>, running # "pop" <=> running' # "pop", Pushed' = Pushed
      PROVE  Executions(e)'
  BY <1>3, <1>5, <1>6 DEF Executions
<1>7. ASSUME UNCHANGED <<sent, enqueuing, heaped>> PROVE Pushed' = Pushed
  BY <1>7 DEF Pushed
<1>8. ASSUME NEW p \in Producer, send_execute_msg_hotstuff(p) PROVE Executions(e)'
  <2>1. PICK m \in Msg : /\ enqueuing' = [enqueuing EXCEPT ![p] = m]
                         /\ sent' = [sent EXCEPT ![p] = sent[p] + 1]
                         /\ UNCHANGED <<heaped, running, execute_msg_heap, expectedExecuteCount>>
    BY <1>8 DEF send_execute_msg_hotstuff, push
  <2>2. enqueuing[p] = None /\ ~heaped[p] /\ m # None
    BY <1>0, <1>8, MsgType, ThreadType DEF send_execute_msg_hotstuff, Steps
  <2>3. PICK n \in Nat : n = sent[p]
    BY <1>0
  <2>4. sent'[p] = n + 1 /\ enqueuing'[p] = m
    BY <1>0, <2>1, <2>3, ThreadType
  <2>5. \A r \in Producer : r # p => sent'[r] = sent[r] /\ enqueuing'[r] = enqueuing[r]
    BY <1>0, <2>1, ThreadType
  <2>6. Pushed'[p] = Pushed[p]
    BY <2>1, <2>2, <2>3, <2>4 DEF Pushed
  <2>7. \A r \in Producer : r # p => Pushed'[r] = Pushed[r]
    BY <2>1, <2>5 DEF Pushed
  <2>8. Pushed' = Pushed
    BY <2>6, <2>7 DEF Pushed
  <2>9. QED
    BY <1>6, <2>1, <2>8
<1>9. ASSUME NEW t \in Thread, execute_msg_heap_push(t) PROVE Executions(e)'
  <2>1. PICK m \in Msg : m = enqueuing[t] /\ m # None
    BY <1>0, <1>9, MsgType DEF execute_msg_heap_push
  <2>2. /\ execute_msg_heap' = [execute_msg_heap EXCEPT ![m] = execute_msg_heap[m] + 1]
        /\ ~heaped[t] /\ heaped' = [heaped EXCEPT ![t] = TRUE]
        /\ UNCHANGED <<sent, enqueuing, running, expectedExecuteCount>>
    BY <1>9, <2>1 DEF execute_msg_heap_push
  <2>3. Total(execute_msg_heap') = Total(execute_msg_heap) + 1
    BY <1>0, <2>2, TotalMore
  <2>4. Total(Pushed') = Total(Pushed) \/ Total(Pushed') = Total(Pushed) + 1
    <3>1. CASE t = Executor
      <4>1. \A p \in Producer : heaped'[p] = heaped[p]
        BY <1>0, <2>2, <3>1, ThreadType
      <4>2. Pushed' = Pushed
        BY <2>2, <4>1 DEF Pushed
      <4>3. QED
        BY <4>2
    <3>2. CASE t \in Producer
      <4>1. heaped'[t] /\ \A p \in Producer : p # t => heaped'[p] = heaped[p]
        BY <1>0, <2>2, <3>2, ThreadType
      <4>2. PICK n \in Nat : n = sent[t]
        BY <1>0, <3>2
      <4>3. Pushed[t] = n - 1 /\ Pushed'[t] = n
        BY <2>1, <2>2, <3>2, <4>1, <4>2 DEF Pushed
      <4>4. \A p \in Producer : p # t => Pushed'[p] = Pushed[p]
        BY <2>2, <4>1 DEF Pushed
      <4>5. Pushed' = [Pushed EXCEPT ![t] = Pushed[t] + 1]
        <5>1. Pushed' = [p \in Producer |-> IF p = t THEN n ELSE Pushed[p]]
          BY <3>2, <4>3, <4>4 DEF Pushed
        <5>2. Pushed[t] + 1 = n
          BY <4>2, <4>3
        <5>3. \E f \in [Producer -> Nat] : f = Pushed
          BY <1>4
        <5>4. QED
          BY <5>1, <5>2, <5>3
      <4>6. Total(Pushed') = Total(Pushed) + 1
        BY <1>0, <1>4, <3>2, <4>5, TotalMore
      <4>7. QED
        BY <4>6
    <3>3. QED
      BY <3>1, <3>2 DEF Thread
  <2>5. PICK h \in Nat : h = Total(execute_msg_heap)
    BY <1>4
  <2>6. PICK d \in Nat : d = Total(Pushed)
    BY <1>4
  <2>7. Total(execute_msg_heap') + (IF running' = "pop" THEN e - 1 ELSE e) >= Total(Pushed')
    <3>1. h + (IF running = "pop" THEN e - 1 ELSE e) >= d
      BY <1>5, <2>5, <2>6
    <3>2. /\ Total(execute_msg_heap') = h + 1 /\ Total(Pushed') \in {d, d + 1}
          /\ running' = running
      BY <2>2, <2>3, <2>4, <2>5, <2>6
    <3>3. QED
      BY <1>2, <3>1, <3>2
  <2>8. QED
    BY <1>3, <1>5, <2>2, <2>7 DEF Executions
<1>10. ASSUME NEW t \in Thread, enqueue_check(t) PROVE Executions(e)'
  <2>1. /\ heaped[t] /\ heaped' = [heaped EXCEPT ![t] = FALSE]
        /\ enqueuing' = [enqueuing EXCEPT ![t] = None]
        /\ UNCHANGED <<sent, running, execute_msg_heap, expectedExecuteCount>>
    BY <1>10 DEF enqueue_check
  <2>2. /\ enqueuing'[t] = None
        /\ \A u \in Thread : u # t => heaped'[u] = heaped[u] /\ enqueuing'[u] = enqueuing[u]
    BY <1>0, <2>1
  <2>3. \A p \in Producer : Pushed'[p] = Pushed[p]
    BY <2>1, <2>2, ThreadType DEF Pushed
  <2>4. Pushed' = Pushed
    BY <2>3 DEF Pushed
  <2>5. QED
    BY <1>6, <2>1, <2>4
<1>11. CASE dequeue
  <2>1. UNCHANGED <<sent, heaped, execute_msg_heap, expectedExecuteCount>> /\ running # "pop" /\ running' # "pop"
    BY <1>11 DEF dequeue, Awake
  <2>2. \A p \in Producer : enqueuing'[p] = enqueuing[p]
    BY <1>0, <1>11, ThreadType DEF dequeue
  <2>3. Pushed' = Pushed
    BY <2>1, <2>2 DEF Pushed
  <2>4. QED
    BY <1>6, <2>1, <2>3
<1>12. CASE requeue
  <2>1. UNCHANGED <<sent, heaped, execute_msg_heap, expectedExecuteCount>> /\ running # "pop" /\ running' # "pop"
    BY <1>12 DEF requeue
  <2>2. enqueuing' = [enqueuing EXCEPT ![Executor] = enqueuing[Executor]]
    BY <1>12 DEF requeue, push
  <2>3. enqueuing' = enqueuing
    BY <1>0, <2>2
  <2>4. QED
    BY <1>6, <1>7, <2>1, <2>3
<1>13. CASE execute_msg_heap_top \/ UNCHANGED vars
  <2>1. UNCHANGED <<sent, enqueuing, heaped, execute_msg_heap, expectedExecuteCount>> /\ (running # "pop" <=> running' # "pop")
    BY <1>13 DEF execute_msg_heap_top, vars
  <2>2. QED
    BY <1>6, <1>7, <2>1
<1>14. CASE execute_msg_heap_pop
  <2>1. PICK m \in Msg : m = Min(InHeap) /\ execute_msg_heap[m] > 0
    <3>1. Min(InHeap) \in InHeap
      BY <1>14, PopFindsId, LeastId DEF execute_msg_heap_pop
    <3>2. QED
      BY <3>1 DEF InHeap
  <2>2. /\ execute_msg_heap' = [execute_msg_heap EXCEPT ![m] = execute_msg_heap[m] - 1]
        /\ running = "pop" /\ running' = "top" /\ UNCHANGED <<sent, enqueuing, heaped, expectedExecuteCount>>
    BY <1>14, <2>1 DEF execute_msg_heap_pop
  <2>3. Total(execute_msg_heap') = Total(execute_msg_heap) - 1
    BY <1>0, <2>1, <2>2, TotalLess
  <2>4. Pushed' = Pushed
    BY <1>7, <2>2
  <2>5. Total(execute_msg_heap') + e >= Total(Pushed')
    BY <1>2, <1>4, <1>5, <2>2, <2>3, <2>4
  <2>6. QED
    BY <1>3, <1>5, <2>2, <2>5 DEF Executions
<1>15. CASE process_hotstuff_execute
  <2>1. expectedExecuteCount \in BegunMsg
    BY <1>15 DEF process_hotstuff_execute, Inv, UnderWay
  <2>2. e \in Batch /\ Begun(e)
    BY <1>5, <2>1, ExpectedBegun
  <2>3. e + 1 \in 0 .. (MaxBatch + 1)
    BY <2>2, Constants DEF Batch
  <2>4. /\ expectedExecuteCount' = expectedExecuteCount + BatchSize /\ running = "execute" /\ running' = "pop"
        /\ UNCHANGED <<sent, enqueuing, heaped, execute_msg_heap>>
    BY <1>15 DEF process_hotstuff_execute
  <2>5. expectedExecuteCount' = TxnId(e + 1)
    BY <1>2, <1>5, <2>4, TxnIdNext
  <2>6. Begun(e)'
    BY <2>2, <2>4 DEF Begun
  <2>7. \A k \in 0 .. ((e + 1) - 1) : Begun(k)'
    BY <1>2, <1>3, <2>6
  <2>8. Total(execute_msg_heap') + ((e + 1) - 1) >= Total(Pushed')
    BY <1>2, <1>5, <1>7, <2>4
  <2>9. Executions(e + 1)'
    BY <1>2, <2>4, <2>5, <2>7, <2>8 DEF Executions
  <2>10. QED
    BY <2>3, <2>9
<1>16. QED
  BY <1>1, <1>8, <1>9, <1>10, <1>11, <1>12, <1>13, <1>14, <1>15, Actions
-----------------------------------------------------------------------------
LEMMA InvNext == Inv /\ [Next]_vars => Inv'
<1> SUFFICES ASSUME Inv, [Next]_vars PROVE Inv'
  OBVIOUS
<1>1. (\E e \in 0 .. (MaxBatch + 1) : Executions(e))'
  BY ExecutionsNext
<1>2. QED
  BY <1>1, TypeNext, UnderWayNext, StepsNext DEF Inv

LEMMA InvHolds == Spec => []Inv
<1>1. QED
  BY InitInv, InvNext, PTL DEF Spec

(* The types, and with them that no semaphore is below zero and that the   *)
(* execution thread goes from batch to batch: expectedExecuteCount is the  *)
(* id of a batch, and never passes the one after the last.                 *)
THEOREM TypeCorrect == Spec => []TypeOK
<1>1. Inv => TypeOK
  BY DEF Inv
<1>2. QED
  BY <1>1, InvHolds, PTL

(* The pop of set_expectedExecuteCount never finds an empty heap, for any  *)
(* number of instances and any order in which ids are pushed and batches   *)
(* are executed.                                                           *)
THEOREM PopNeverEmpty == Spec => []HeapNonEmpty
<1>1. Inv => HeapNonEmpty
  BY PopFindsId DEF HeapNonEmpty
<1>2. QED
  BY <1>1, InvHolds, PTL
-----------------------------------------------------------------------------
(* A message that is added to a queue, and one that is taken. *)
LEMMA LengthsType ==
  ASSUME TypeOK
  PROVE  /\ Lengths \in [0 .. (IndexSize - 1) -> Nat] /\ IsFiniteSet(0 .. (IndexSize - 1))
         /\ Total(Lengths) \in Nat
<1>1. \A q \in 0 .. (IndexSize - 1) : work_queue[q] \in Seq(Msg)
  BY DEF TypeOK
<1>2. Lengths \in [0 .. (IndexSize - 1) -> Nat]
  BY <1>1 DEF Lengths
<1>3. IsFiniteSet(0 .. (IndexSize - 1))
  BY Constants, FS_Interval
<1>4. QED
  BY <1>2, <1>3, UnitsFinite

LEMMA OneMore ==
  ASSUME TypeOK, NEW m \in Nat, m \in Msg, NEW t, push(t, m)
  PROVE  Total(Lengths') = Total(Lengths) + 1
<1>1. PICK q \in 0 .. (IndexSize - 1) : q = qid(m)
  BY MsgType
<1>2. work_queue' = [work_queue EXCEPT ![q] = Append(work_queue[q], m)]
  BY <1>1 DEF push
<1>3. work_queue \in [0 .. (IndexSize - 1) -> Seq(Msg)]
  BY DEF TypeOK
<1>4. \A r \in 0 .. (IndexSize - 1) : Len(work_queue'[r]) = IF r = q THEN Len(work_queue[r]) + 1 ELSE Len(work_queue[r])
  BY <1>2, <1>3
<1>5. Lengths' = [r \in 0 .. (IndexSize - 1) |-> IF r = q THEN Lengths[r] + 1 ELSE Lengths[r]]
  BY <1>4 DEF Lengths
<1>6. Lengths' = [Lengths EXCEPT ![q] = Lengths[q] + 1]
  BY <1>5, LengthsType
<1>7. QED
  BY <1>6, LengthsType, TotalMore

LEMMA OneLess ==
  ASSUME TypeOK, NEW q \in 0 .. (IndexSize - 1), work_queue[q] # <<>>,
         work_queue' = [work_queue EXCEPT ![q] = Tail(work_queue[q])]
  PROVE  Total(Lengths') = Total(Lengths) - 1
<1>1. work_queue \in [0 .. (IndexSize - 1) -> Seq(Msg)]
  BY DEF TypeOK
<1>2. Len(work_queue[q]) > 0 /\ Len(Tail(work_queue[q])) = Len(work_queue[q]) - 1
  BY <1>1
<1>3. \A r \in 0 .. (IndexSize - 1) : Len(work_queue'[r]) = IF r = q THEN Len(work_queue[r]) - 1 ELSE Len(work_queue[r])
  BY <1>1, <1>2
<1>4. Lengths' = [r \in 0 .. (IndexSize - 1) |-> IF r = q THEN Lengths[r] - 1 ELSE Lengths[r]]
  BY <1>3 DEF Lengths
<1>5. Lengths' = [Lengths EXCEPT ![q] = Lengths[q] - 1] /\ Lengths[q] > 0
  BY <1>2, <1>4, LengthsType DEF Lengths
<1>6. QED
  BY <1>5, LengthsType, TotalLess

LEMMA TokensNext ==
  ASSUME Inv, WorkerTokens, [Next]_vars
  PROVE  WorkerTokens'
<1>0. TypeOK /\ worker_queue_semaphore \in Nat /\ worker_queue_semaphore = Total(Lengths)
  BY DEF Inv, TypeOK, WorkerTokens, Lengths
<1>1. SUFFICES worker_queue_semaphore' = Total(Lengths')
  BY DEF WorkerTokens, Lengths
<1>2. ASSUME UNCHANGED <<work_queue, worker_queue_semaphore>>
      PROVE  worker_queue_semaphore' = Total(Lengths')
  <2>1. Lengths' = Lengths
    BY <1>2 DEF Lengths
  <2>2. QED
    BY <1>0, <1>2, <2>1
<1>3. ASSUME NEW m \in Msg, NEW t, push(t, m) PROVE worker_queue_semaphore' = Total(Lengths')
  <2>1. m \in Nat
    BY MsgType
  <2>2. Total(Lengths') = Total(Lengths) + 1
    BY <1>0, <1>3, <2>1, OneMore
  <2>3. QED
    BY <1>0, <1>3, <2>2 DEF push
<1>4. ASSUME NEW p \in Producer, send_execute_msg_hotstuff(p)
      PROVE  worker_queue_semaphore' = Total(Lengths')
  BY <1>3, <1>4 DEF send_execute_msg_hotstuff
<1>5. ASSUME NEW t \in Thread, execute_msg_heap_push(t) \/ enqueue_check(t)
      PROVE  worker_queue_semaphore' = Total(Lengths')
  BY <1>2, <1>5 DEF execute_msg_heap_push, enqueue_check
<1>6. ASSUME dequeue PROVE worker_queue_semaphore' = Total(Lengths')
  <2>1. PICK q \in 0 .. (IndexSize - 1) : q = qid(expectedExecuteCount)
    BY <1>0, ExpectedType, MsgType
  <2>2. CASE UNCHANGED <<work_queue, worker_queue_semaphore>>
    BY <1>2, <2>2
  <2>3. CASE /\ work_queue[q] # <<>> /\ work_queue' = [work_queue EXCEPT ![q] = Tail(work_queue[q])]
             /\ worker_queue_semaphore' = worker_queue_semaphore - 1
    BY <1>0, <2>3, OneLess
  <2>4. QED
    BY <1>6, <2>1, <2>2, <2>3 DEF dequeue
<1>7. ASSUME requeue PROVE worker_queue_semaphore' = Total(Lengths')
  <2>1. enqueuing[Executor] \in Msg /\ push(Executor, enqueuing[Executor])
    BY <1>0, <1>7, ThreadType DEF requeue, Inv, Steps, TypeOK
  <2>2. QED
    BY <1>3, <2>1
<1>8. ASSUME process_hotstuff_execute \/ execute_msg_heap_pop \/ execute_msg_heap_top \/ UNCHANGED vars
      PROVE  worker_queue_semaphore' = Total(Lengths')
  BY <1>2, <1>8 DEF process_hotstuff_execute, execute_msg_heap_pop, execute_msg_heap_top, vars
<1>9. QED
  BY <1>4, <1>5, <1>6, <1>7, <1>8, Actions

(* worker_queue_semaphore counts the messages in the queues, for any       *)
(* number of instances and queues: neither a wake-up that finds its queue  *)
(* empty nor a message that is put back costs or makes a token.            *)
THEOREM TokensExact == Spec => []WorkerTokens
<1>1. Init => WorkerTokens
  <2> SUFFICES ASSUME Init PROVE WorkerTokens
    OBVIOUS
  <2>1. TypeOK /\ worker_queue_semaphore = 0
    BY InitInv DEF Init, Inv
  <2>2. \A q \in 0 .. (IndexSize - 1) : Lengths[q] = 0
    BY DEF Init, Lengths
  <2>3. Total(Lengths) = 0
    BY <2>1, <2>2, LengthsType, TotalZero
  <2>4. QED
    BY <2>1, <2>3 DEF WorkerTokens, Lengths
<1>2. Inv /\ WorkerTokens /\ [Next]_vars => WorkerTokens'
  BY TokensNext
<1>3. QED
  BY <1>1, <1>2, InvHolds, PTL DEF Spec
=============================================================================

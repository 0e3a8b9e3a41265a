---------------------------- MODULE ExecuteQueue ----------------------------
(***************************************************************************)
(* The way of an EXECUTE message from the instance threads of a replica to *)
(* its execution thread, built with SEMA_TEST.                             *)
(*                                                                         *)
(* A batch k is known by the transaction id (k + 1) * batch_size - 2 of    *)
(* its EXECUTE.  The work queue has indexSize queues for these messages,   *)
(* chosen by the id; the execution thread sleeps on execute_semaphore,     *)
(* which is posted by whoever finds the next message in execute_msg_heap:  *)
(* the thread that enqueues it or the execution thread itself.  Each       *)
(* access under its own lock is a step of its own; a sem_post is joined to *)
(* the step before it, and the waits of the execution thread to its next   *)
(* step, as only that thread takes from the two semaphores.                *)
(***************************************************************************)
EXTENDS Integers, Sequences, FiniteSetsExt, Tally

CONSTANTS
  Instances,    \* number of consensus instances, each with its own thread
  BatchSize,    \* get_batch_size()
  IndexSize,    \* indexSize, the number of queues for EXECUTE messages
  WORD,         \* 2^64: the range of uint64_t
  MaxBatch      \* bound: the last batch committed

ASSUME ConstantsAssumption ==
  /\ Instances \in Nat \ {0} /\ IndexSize \in Nat \ {0} /\ MaxBatch \in Nat
  /\ BatchSize \in Nat /\ BatchSize >= 2
  /\ WORD \in Nat /\ WORD > (MaxBatch + 2) * BatchSize

Batch    == 0 .. MaxBatch
TxnId(k) == (k + 1) * BatchSize - 2

(* When the first block of an instance is executed, the walk of            *)
(* send_execute_msg_hotstuff also finds the genesis certificate, whose     *)
(* hash is no key of hash_to_txnid: transaction 0 is used, and its EXECUTE *)
(* gets the id 0 - 1.                                                      *)
GenesisId == (0 - 1) % WORD
Msg       == {TxnId(k) : k \in Batch} \cup {GenesisId}

(* The queue of a message, in unsigned arithmetic. *)
qid(txn_id) == ((((txn_id + 2) - BatchSize) % WORD) \div BatchSize) % IndexSize

Producer == 0 .. (Instances - 1)
Executor == Instances
Thread   == Producer \cup {Executor}
None     == -1

VARIABLES
  sent,           \* per instance: how many EXECUTE messages it has begun to enqueue
  enqueuing,      \* per thread: the message it is enqueuing, or None
  heaped,         \* per thread: that message is in the heap already
  work_queue,     \* the queues
  worker_queue_semaphore, execute_semaphore,
  execute_msg_heap,       \* how often each id is in the heap
  expectedExecuteCount,
  running         \* what the execution thread does: waiting, or in one of these steps

vars == <<sent, enqueuing, heaped, work_queue, worker_queue_semaphore, execute_semaphore,
          execute_msg_heap, expectedExecuteCount, running>>

TypeOK ==
  /\ sent \in [Producer -> Nat]
  /\ enqueuing \in [Thread -> Msg \cup {None}]
  /\ heaped \in [Thread -> BOOLEAN]
  /\ work_queue \in [0 .. (IndexSize - 1) -> Seq(Msg)]
  /\ worker_queue_semaphore \in Nat /\ execute_semaphore \in Nat
  /\ execute_msg_heap \in [Msg -> Nat]
  /\ expectedExecuteCount \in {TxnId(k) : k \in 0 .. MaxBatch + 1}
  /\ running \in {"wait", "requeue", "execute", "pop", "top"}

Init ==
  /\ sent = [p \in Producer |-> 0]
  /\ enqueuing = [t \in Thread |-> None]
  /\ heaped = [t \in Thread |-> FALSE]
  /\ work_queue = [q \in 0 .. (IndexSize - 1) |-> <<>>]
  /\ worker_queue_semaphore = 0 /\ execute_semaphore = 0
  /\ execute_msg_heap = [i \in Msg |-> 0]
  /\ expectedExecuteCount = TxnId(0)
  /\ running = "wait"
-----------------------------------------------------------------------------
(* Mutant: the walk of send_execute_msg_hotstuff stops before the genesis. *)
NthMsg_NoGenesis(p, i) == TxnId(p + i * Instances)

(* The i-th EXECUTE of instance p: first the one of the genesis block,     *)
(* then its batches p, p + Instances, ...                                  *)
NthMsg(p, i) == IF i = 0 THEN GenesisId ELSE TxnId(p + (i - 1) * Instances)

(* QWorkQueue::enqueue, first part: the message is in its queue.           *)
push(t, m) ==
  /\ enqueuing' = [enqueuing EXCEPT ![t] = m]
  /\ work_queue' = [work_queue EXCEPT ![qid(m)] = Append(@, m)]
  /\ worker_queue_semaphore' = worker_queue_semaphore + 1

send_execute_msg_hotstuff(p) ==
  LET m == NthMsg(p, sent[p]) IN
  /\ enqueuing[p] = None
  /\ m \in Msg
  /\ sent' = [sent EXCEPT ![p] = @ + 1]
  /\ push(p, m)
  /\ UNCHANGED <<heaped, execute_semaphore, execute_msg_heap, expectedExecuteCount, running>>

execute_msg_heap_push(t) ==
  /\ enqueuing[t] # None /\ ~heaped[t] /\ (t = Executor => running = "wait")
  /\ heaped' = [heaped EXCEPT ![t] = TRUE]
  /\ execute_msg_heap' = [execute_msg_heap EXCEPT ![enqueuing[t]] = @ + 1]
  /\ UNCHANGED <<sent, enqueuing, work_queue, worker_queue_semaphore, execute_semaphore,
                 expectedExecuteCount, running>>

(* The end of enqueue: is it the next message to execute?                  *)
enqueue_check(t) ==
  /\ heaped[t]
  /\ execute_semaphore' = execute_semaphore
                            + (IF enqueuing[t] = expectedExecuteCount THEN 1 ELSE 0)
  /\ enqueuing' = [enqueuing EXCEPT ![t] = None]
  /\ heaped' = [heaped EXCEPT ![t] = FALSE]
  /\ UNCHANGED <<sent, work_queue, worker_queue_semaphore, execute_msg_heap,
                 expectedExecuteCount, running>>
-----------------------------------------------------------------------------
(* The waits of the execution thread at the top of its loop. *)
Awake ==
  /\ running = "wait" /\ enqueuing[Executor] = None
  /\ worker_queue_semaphore > 0 /\ execute_semaphore > 0

(* Mutant: an empty queue costs a worker token.                            *)
dequeue_NoRepost ==
  LET q == qid(expectedExecuteCount) IN
  /\ Awake
  /\ execute_semaphore' = execute_semaphore - 1
  /\ worker_queue_semaphore' = worker_queue_semaphore - 1
  /\ running' = IF work_queue[q] = <<>> THEN "wait" ELSE "execute"
  /\ work_queue' = IF work_queue[q] = <<>> THEN work_queue ELSE [work_queue EXCEPT ![q] = Tail(@)]
  /\ UNCHANGED <<sent, enqueuing, heaped, execute_msg_heap, expectedExecuteCount>>

(* The execution thread wakes up and takes the head of the queue of the    *)
(* message it expects.  Finding nothing it gives the worker token back;    *)
(* another message than the expected one is enqueued again.                *)
dequeue ==
  LET q == qid(expectedExecuteCount) IN
  /\ Awake
  /\ execute_semaphore' = execute_semaphore - 1
  /\ \/ /\ work_queue[q] = <<>>
        /\ UNCHANGED <<enqueuing, work_queue, worker_queue_semaphore, running>>
     \/ /\ work_queue[q] # <<>> /\ Head(work_queue[q]) = expectedExecuteCount
        /\ running' = "execute"
        /\ work_queue' = [work_queue EXCEPT ![q] = Tail(@)]
        /\ worker_queue_semaphore' = worker_queue_semaphore - 1
        /\ UNCHANGED enqueuing
     \/ /\ work_queue[q] # <<>> /\ Head(work_queue[q]) # expectedExecuteCount
        /\ running' = "requeue"
        /\ enqueuing' = [enqueuing EXCEPT ![Executor] = Head(work_queue[q])]
        /\ work_queue' = [work_queue EXCEPT ![q] = Tail(@)]
        /\ worker_queue_semaphore' = worker_queue_semaphore - 1
  /\ UNCHANGED <<sent, heaped, execute_msg_heap, expectedExecuteCount>>

requeue ==
  /\ running = "requeue"
  /\ running' = "wait"
  /\ push(Executor, enqueuing[Executor])
  /\ UNCHANGED <<sent, heaped, execute_semaphore, execute_msg_heap, expectedExecuteCount>>

(* Mutant: the next id is counted from that of the transaction, txn_id + 1, *)
(* which the handler uses for the batch.                                   *)
process_hotstuff_execute_Txn ==
  /\ running = "execute"
  /\ running' = "pop"
  /\ expectedExecuteCount' = (expectedExecuteCount + 1) + BatchSize
  /\ UNCHANGED <<sent, enqueuing, heaped, work_queue, worker_queue_semaphore, execute_semaphore,
                 execute_msg_heap>>

(* The batch is executed and set_expectedExecuteCount begins.              *)
process_hotstuff_execute ==
  /\ running = "execute"
  /\ running' = "pop"
  /\ expectedExecuteCount' = expectedExecuteCount + BatchSize
  /\ UNCHANGED <<sent, enqueuing, heaped, work_queue, worker_queue_semaphore, execute_semaphore,
                 execute_msg_heap>>

InHeap == {i \in Msg : execute_msg_heap[i] > 0}

execute_msg_heap_pop ==
  /\ running = "pop"
  /\ running' = "top"
  /\ execute_msg_heap' = [execute_msg_heap EXCEPT ![Min(InHeap)] = @ - 1]
  /\ UNCHANGED <<sent, enqueuing, heaped, work_queue, worker_queue_semaphore, execute_semaphore,
                 expectedExecuteCount>>

(* Mutant: set_expectedExecuteCount does not look for the next message.    *)
execute_msg_heap_top_NoPost ==
  /\ running = "top"
  /\ running' = "wait"
  /\ UNCHANGED <<sent, enqueuing, heaped, work_queue, worker_queue_semaphore, execute_semaphore,
                 execute_msg_heap, expectedExecuteCount>>

(* The top of an empty heap is undefined. *)
execute_msg_heap_top ==
  /\ running = "top"
  /\ running' = "wait"
  /\ \E top \in IF InHeap = {} THEN Msg ELSE {Min(InHeap)} :
       execute_semaphore' = execute_semaphore + (IF top = expectedExecuteCount THEN 1 ELSE 0)
  /\ UNCHANGED <<sent, enqueuing, heaped, work_queue, worker_queue_semaphore, execute_msg_heap,
                 expectedExecuteCount>>
-----------------------------------------------------------------------------
ThreadNext(t) ==
  \/ execute_msg_heap_push(t)
  \/ enqueue_check(t)
  \/ t \in Producer /\ send_execute_msg_hotstuff(t)
  \/ /\ t = Executor
     /\ \/ dequeue
        \/ requeue
        \/ process_hotstuff_execute
        \/ execute_msg_heap_pop
        \/ execute_msg_heap_top

Next == \E t \in Thread : ThreadNext(t)

Spec == Init /\ [][Next]_vars

(* The operating system runs every thread that is not blocked, and the     *)
(* consensus of every instance commits its batches.                        *)
FairSpec == Spec /\ \A t \in Thread : WF_vars(ThreadNext(t))
-----------------------------------------------------------------------------
Enqueued(m) == \E i \in 1 .. Len(work_queue[qid(m)]) : work_queue[qid(m)][i] = m

(* worker_queue_semaphore counts the EXECUTE messages in the queues, also  *)
(* when the execution thread wakes for nothing or puts a message back: a   *)
(* token too few would let a message lie, one too many keep it spinning.   *)
WorkerTokens ==
  worker_queue_semaphore = Total([q \in 0 .. (IndexSize - 1) |-> Len(work_queue[q])])

(* std::priority_queue::pop is never called on an empty heap, although a   *)
(* batch can be executed before its id is pushed: the ids left behind by   *)
(* the genesis blocks make up for it.                                      *)
HeapNonEmpty == running = "pop" => InHeap # {}

(* More tokens than the next message accounts for: that message was found  *)
(* both by the thread that enqueued it and by set_expectedExecuteCount.    *)
Stray == execute_semaphore > (IF Enqueued(expectedExecuteCount) THEN 1 ELSE 0)

(* The batches up to the first one whose queue holds the genesis' EXECUTE. *)
BeforeGenesis == {k \in Batch : \A j \in 0 .. k : qid(TxnId(j)) # qid(GenesisId)}

(* Unless a token is posted twice, every batch is executed, up to the one  *)
(* that shares its queue with the EXECUTE of the genesis block.            *)
ExecutedUnlessStray ==
  []~Stray => <>(\A k \in BeforeGenesis : expectedExecuteCount > TxnId(k))

(* "execute_semaphore is whether the next msg to execute has been in the   *)
(* queue": with no thread in the middle of an enqueue and the execution    *)
(* thread asleep, a next message in the queue has its token.  Without it   *)
(* nothing wakes the execution thread again.                               *)
NextSignalled ==
  /\ \A t \in Thread : enqueuing[t] = None
  /\ running = "wait" /\ Enqueued(expectedExecuteCount)
  => execute_semaphore > 0
=============================================================================

# Verification of SpotLess

SpotLess is a replicated transaction-processing system. `NODE_CNT` replicas run
`MULTI_INSTANCES` concurrent instances of a chained, rotating-leader consensus
protocol; each instance decides every `MULTI_INSTANCES`-th batch of client
transactions, and one execution thread per replica executes the batches of all
instances in one order. This directory holds TLA+ models of it, the TLC
configurations that check them, and proofs checked by TLAPS. Paths below are
relative to the repository; modules and configurations are in this directory.

The build modelled is the one `config.h` ships (`CONSENSUS HOTSTUFF`,
`SEPARATE`, `PROPOSAL_THREAD`, `EXCLUSIVE_BATCH`, `TEMP_QUEUE`, `SEMA_TEST`,
`ROUNDS_IN_ADVANCE 0`), and, where a constant `Faulty` is not empty, the build
with `SpotLess_FAIL` (and so `TIMER_MANAGER`, `AUTO_POST`).

## 1. Inventory

| Component | State | Operations | Correct when |
|---|---|---|---|
| Consensus instance (`worker_thread_hotstuff.cpp`, `worker_thread.cpp`, `txn.cpp`, `global.cpp`) | view, `hash_to_QC`, `g_preparedQC`, `g_lockedQC`, per slot the transaction manager's flags and voters | handlers of PROPOSAL, GENERIC, SYNC, GENERIC_MSG_P; `advance_view`, `update_lockQC` | replicas commit the same blocks, each once, behind quorums; no certified block is orphaned; every replica goes on |
| Failure detection (`fault_manager.cpp`, `timer_manager.cpp`) | timers, votes against a view | `send_failed_new_view`, `process_failed_new_view`, `advance_failed_view` | a view is given up by nf replicas or by none, and never both given up and committed |
| Work queue (`work_queue_pvp.cpp`) | one queue per instance thread, priority and parked queues, client batch queues, queues of EXECUTE messages, checkpoint queue | `enqueue`, `dequeue`, `check_view`, `reenqueue` | no message is lost or announced to nobody |
| Execution (`worker_thread_hotstuff.cpp`, `global.cpp`) | `expectedExecuteCount`, `execute_msg_heap`, `execute_semaphore` | `process_hotstuff_execute`, `set_expectedExecuteCount` | batches are executed in order and the thread is woken for each |
| Proposal and batch threads | `next_send_view`, `last_sent_view`, `incomplete_proposal_cnt`, `proposal_semaphore`, `new_txn_semaphore`, `clb_cnt` | the two branches of `dequeue`, `create_and_send_hotstuff_prepare` | one PROPOSAL and one GENERIC per led view, for the same slot |
| Transaction managers (`txn_table.cpp`, `txn.cpp`, `pool.cpp`) | table by transaction id, `txn_ready` | get, release, `unset_ready`, `set_ready` | one thread at a time; none is used after its release |
| Checkpoints (`worker_thread.cpp`, `global.cpp`) | `txn_chkpt_holding`, `is_chkpt_holding`, `is_chkpt_stalled`, `last_deleted_txn_man` | `send_checkpoints`, `process_pbft_chkpt_msg` | only unused managers are released, and all of them |
| Input and output threads (`io_thread.cpp`, `msg_queue.cpp`, `msg_thread.cpp`, `transport.cpp`) | queues, one buffer per destination | enqueue, copy, send, receive | every message is delivered in the end, no buffer overflows, no socket is forgotten |
| Client (`client_thread.cpp`, `client/`) | batches in flight per server, responses per batch | send a batch, process a response | the limit holds, and each batch completes once |
| Start-up (`main.cpp`, `worker_thread.cpp`, `sim_manager.cpp`) | keys received, READY messages, barriers | `process_key_exchange`, `send_init_done` ... | every node starts after all keys are exchanged |
| Chain and database (`blockchain/`, `db/`, `smart_contracts/`, `benchmarks/`) | ledger, key-value store | `add_block`, Get, Put, contracts | applied in the order of execution |
| Messages (`message.cpp`, `message.h`, `crypto.h`) | the fields of each class, signature and key | `get_size`, `copy_to_buf`, `copy_from_buf`, `copy_from_txn`, `sign`, `validate` | what is read back is what was sent, and validates, at every destination |
| Statistics, scripts, dashboard | - | - | not part of the protocol's state |

How they interact. The input threads put messages into the work queue; the
threads of a replica are the instance threads `0 .. m-1` (one per instance in
the shipped configuration), the proposal thread `m`, the batch thread `m+1`,
the execution thread `m+2` and two checkpoint threads. An instance thread runs
the consensus handlers of its instance; a commit enqueues an EXECUTE for the
execution thread, which answers the client and, every `TXN_PER_CHKPT`
transactions, enqueues a checkpoint message. The proposal thread turns a client
batch into the PROPOSAL of the next view this replica leads; the batch thread
sends the GENERIC of that view once the replica reaches it. Threads sleep on
semaphores posted by other threads. A handler owns the transaction manager of
its slot through a compare-and-swap on `txn_ready`, and the message of a thread
that loses goes back to the queue: this is what makes a handler atomic with
respect to the others of the same slot.

What is hard here: messages of one slot and of different views arriving in any
order at three threads; certificates erased from `hash_to_QC` and read again;
giving up a view while its last messages are under way; semaphores whose value
is decided by two threads looking at two variables under two locks; unsigned
ids that wrap; memory released by one thread while another uses it. The list
with source lines is `hazards` in `PROJECT.json`.

## 2. Modules

| Module | Models |
|---|---|
| `SpotLess` | one consensus instance run by `NODE_CNT` replicas, the default build (`Faulty = {}`) and the failing one |
| `ReplicatedLog` | what an instance promises: ledgers that grow and agree |
| `SpotLessInv` | the inductive invariant `LinearChain`, with and without silent replicas, and the assumption `Tolerated` on them |
| `ExecuteQueue` | EXECUTE messages from the instance threads to the execution thread |
| `Checkpoint` | the two checkpoint threads and what they release |
| `Client` | the client thread and the threads that count responses |
| `OutputBuffer` | a message from the thread that sends it to the wire |
| `Setup` | start-up: INIT_DONE, the exchange of keys, the output threads' counts and barriers, READY, the start of the client |
| `WorkerThreads` | the threads of one replica that share slots: instance, proposal, batch and input threads, their semaphores, queues and `txn_ready` |
| `Wire` | the byte layout: buffers, cells, strings, the common header, queries, certificates |
| `Messages` | the classes of messages: size, layout, construction, signature and validation of each |
| `Tally` | the sum of a function with finite support, and a set of numbers in ascending order, by cardinalities |
| `SpotLessProofs`, `ExecuteQueueProofs`, `CheckpointProofs`, `ClientProofs`, `WorkerThreadsProofs`, `OutputBufferProofs`, `SetupProofs`, `TallyProofs` | theorems and proofs (section 5) |
| `Transport` | messages signed, copied, written to a buffer, sent, polled for and read back; extends `Messages`, which extends `Wire` |
| `MCSpotLess`, `MCExecuteQueue`, `MCCheckpoint`, `MCClient`, `MCOutputBuffer`, `MCSetup`, `MCWorkerThreads`, `MCTransport` | what TLC runs |

### SpotLess

The network variables (`proposals`, `generics`, `syncs`, `non_votes`) hold
everything sent; a message can be received at any later time and any number of
times, so loss is not modelled and delay and reordering are. Every other
variable is a function of the replica and carries the name of the field or
global it stands for: `chain[r]` collects `hash_to_QC` (with the set of its
keys, because `operator[]` inserts), the two certificates of the instance and
a count of the EXECUTE messages enqueued for each block.

A batch is identified with its slot, the view it is proposed in, and with its
hash; `Genesis` is the empty hash. The transaction id of the code is
`(MULTI_INSTANCES * slot + instance + 1) * batch_size - 1`, so "the slot before"
is the code's `txnid - totInstances * batch_size`.

| Action | Code |
|---|---|
| `Propose` | proposal branch of `QWorkQueue::dequeue`, `create_and_send_hotstuff_prepare`, and the increment of `incomplete_proposal_cnt` at the end of `WorkerThread::run` |
| `process_hotstuff_generic_p` | batch branch of `dequeue`, the handler, `send_hotstuff_generic` |
| `process_hotstuff_proposal`, `process_hotstuff_generic`, `process_hotstuff_new_view` | the handlers of the same names, with the filter of `exception_msg_handling` as guards |
| `check_view` | parking a GENERIC; `set_view` brings it back |
| `send_failed_new_view`, `process_failed_new_view` | the timer and the votes against a view |

A handler that returns without an effect is not a step. The walk of
`send_execute_msg_hotstuff` through the certificates is the set `Ancestors`,
defined as a least fixed point so that the module has no recursion.

The proposal thread may be late by any amount, since `Propose` is a step that
need not happen until fairness asks for it; that client batches are always at
hand is an assumption (with no client there is nothing to decide).

### ExecuteQueue

Each access that has its own lock (push to the queue, push to the heap, read of
`expectedExecuteCount`, pop, top) is a step. The execution thread's steps are
tagged by `running`. A message is its transaction id; `NthMsg` gives the ids an
instance enqueues, the first one being the EXECUTE of the genesis block, whose
id wraps to `WORD - 1` (`WORD` stands for 2^64, scaled down).

### Checkpoint

`pc` says where a thread is between two accesses to shared state; `txn_man` is
"released" once the other thread has given the manager a thread works with back
to the pool. Transactions come `Interval` at a time from `send_checkpoints`; a
checkpoint is known by the transaction `Back` before its last one
(`CheckpointMessage::copy_from_txn` subtracts 5), so that its manager is one no
consensus message uses. Every transaction has a manager in the model, while in the
code only those at the end of a batch do; releasing one that does not exist is
no operation.

### Client

The client thread and one input thread per replica; each lock held
(`inc_inflight`, `dec_inflight`, the lock of the responses, that of `in_round`)
is a step. The replicas are `executed`, the one order in which they execute and
answer, and `Answered`, the number of responses that have left a replica's
buffer. A replica in `Silent` neither proposes its batches nor answers. As in
`global.cpp`, f is rounded up, so `fp1` is 2 with three and with four replicas.

### OutputBuffer

`enqueue` decides which queues a message goes to, `push` puts it into the next of
them, `dequeue` is an output thread taking a message, and `copy_to_buf` copies it
to the buffer of one destination and sends all of the thread's buffers that are
`ready`. A message has only the fields that decide this: type, `force`,
destinations. The queues are unbounded in the model; a producer that finds a full
queue spins in the code. Room for the bytes of a message is the subject of
`Transport`.

### Setup

Every node starts with the messages of its first round in hand (`FirstRound`):
INIT_DONE and its keys for every other node. Input threads `deliver`; the instance
threads of a replica `store_key`, `count_key` and `send_ready`; an output thread of a
replica (`OutputThread_setup`) takes messages while its `init_msg_sent` is not 0, then
waits at `setup_done_barrier`, which `process_setup_msg` posts after the last INIT_DONE, then
at the barrier of `tsetup`, and only then goes on sending (`run`).

The unlocked `receivedKeys[i]--` and `totKey++` are a read and a write each. A
KEYEX can be taken by any instance thread, because `instance_id` is not set by
the constructor of `KeyExchange` nor by its sender. `thread` says which input
thread of the client a replica's messages come in at.

Before the end of the warm-up every buffer is sent at once, after it only a full one. `warmup` of
`SimManager` can be set during the set-up, because the statistics counters call
`is_warmup_done`, and `set_starttime`, which starts the clock again, does not reset it.
`Early` is the set of replicas that were started long enough before the last node for
this to happen.

### WorkerThreads

One replica, `g_node_id`; the others are `Sendable`, the messages correct
replicas may have sent. Each access to shared state is a step: a place in
a queue, `prior_cnt`, the token of a message, the compare-and-swap of `txn_ready`. Three kinds of step join
a write and the `sem_post` that announces it: `enqueue_batch`, the return of a message whose manager is taken
(`put_back`), and `advance_view`, where the view is set at `worker_thread_hotstuff.cpp:601` and the posts
follow at 608 and 618. In the code the token comes a moment later, and the thread it is for sleeps until
then; the equalities of `SendingTokens` hold between the steps of the model, not between those lines. The
batch thread reads the count and the view in one step, which is exact since it alone lowers the count, and
`last_sent_view` in a later one. A slot is an instance and a
view and has one transaction manager (`voters`, `generic_received`, `new_viewed`).

| Actions | Code |
|---|---|
| `enqueue_batch` | CL_BATCH in `QWorkQueue::enqueue` |
| `receive`, `enqueue_push`, `enqueue_count`, `enqueue_post` | `server_recv_loop` and `enqueue` of votes and GENERICs |
| `proposer_wait` ... `inc_incomplete_proposal_cnt` | the proposal thread in `WorkerThread::run`, `dequeue`, `create_and_send_hotstuff_prepare` |
| `batcher_wait` ... `process_hotstuff_generic_p` | the batch thread; the GENERIC leaves before the own vote is counted |
| `worker_wait`, `dequeue`, `worker_take`, `process` | an instance thread, from its semaphore to `set_ready` |

`process` has the votes and `advance_view`, with the parked GENERICs that
`set_view` returns and the tokens for the sending threads; what certificates say
is left to `SpotLess`, which takes these handlers as atomic.

### Wire, Messages, Transport

A buffer is a function from offsets to cells, a cell a value and its width.
Reading at an offset where no cell of that width begins gives `Garbage`, so a layout
and a size that disagree by a single field are visible. A string has a text, which is
symbolic, and a length. A signature is the key and the text that were signed.
`mq_time` and the latencies are one cell. Each of `get_size`, `copy_to_buf`, `copy_from_buf` of a class is a definition of
its own with the code's order of fields, since their agreement is what is checked.

`put` is an output thread with one message for the receiver: it has been signed
and copied by `enqueue` (`allsign` for the classes that are signed for each
destination, `deep_copy_msg` for all output threads but the last) and gets the signature
and key of the destination (`Addressed`). `send_batch` is a buffer going to the socket of its
port; `recv_msg_server` and `recv_msg_client` are one call of `recv_msg`. Input threads of a
replica are numbered among themselves (`FIX_INPUT_THREAD_BUG`). The layouts of ASK and
of a checkpoint message are checked although the shipped build does not send them.

## 3. Runs

| Run | Instance | Checks |
|---|---|---|
| `spotless_early` | 3 replicas, no failure, views 0..4, messages up to 5 views ahead | types, `LinearChain` (from which `CommitLocked`, `SlotOfView`, `NoOrphan`, `GenericAccepted`, `BatchKnown` are proved, section 5), and `AllExecuted` under fairness |
| `spotless_crash` | 4 replicas, replica 3 silent from view 1, which it leads; views 0..8 | `CommitLocked`, `Agreement`, `NoOrphan`, `AllExecuted` |
| `spotless_giveup` | the same, silent from view 0, messages one view ahead | `ViewQuorum`, `GenericAccepted`, `AllExecuted`, and that the instance implements `ReplicatedLog` |
| `execute_shared` | 3 instances, 7 batches, 7 queues, the last one shared with the genesis' EXECUTE | types, `WorkerTokens`, `HeapNonEmpty`, and `ExecutedUnlessStray` under fairness |
| `execute_race` | 2 instances | `NextSignalled`, violated |
| `checkpoint_collect` | 4 checkpoints, 16 transactions | types, `Collected`, `StillOwned`, and `AllCollected` under fairness |
| `client` | 4 replicas, one silent, batches of 2, 7 transactions in flight, responses in pairs, 6 batches | types, `InRound`, `InFlight`, and `AllSent` under fairness |
| `output` | 2 producers, 2 output threads, buffers of 2, 3 messages | `InOrder`, `OnlyUnforcedWait` (types are proved, section 5) |
| `setup_single` | 2 replicas and a client, one instance thread, 2 output threads, replica 0 early | types, `KeysBeforeStart`, and `Starts` under fairness |
| `setup_ready` | the same with 2 instance threads, one input thread per replica at the client | `KeysBeforeStart`, violated |
| `threads` | one of 3 replicas, 2 instances with a thread each, an input thread, views 0..2, 2 client batches | types, `SendingTokens`, `TokenFindsMessage`, `GenericStays`, `GenericOfView`, `OwnVoteFirst`, and `Advances` under fairness |
| `transport` | 4 replicas and a client; one replica sends every class, another and the client keep the sockets beside it busy; the receiver is a replica with one or two sockets per thread, or the client | types, `RoundTrip`, `Validates`, `InBounds`, and `Polled` under fairness |

Bounds. `MaxView` is the last view in which anything is proposed. Five views are
the first number with two commits on every replica, one of them with its
parent already erased; nine views with four replicas let the silent replica lead
two views, with a commit between and after them (three consecutive views with
other leaders exist for every position). `Ahead` is how far beyond its own view a replica
takes messages: with 0 only the messages of the current view (and the replica
may still be at any distance behind the others), with 5 there is no restriction.
In `ExecuteQueue`, `MaxBatch` is two rounds of the instances and one more batch;
no bound on the interleaving. In `Checkpoint`, four checkpoints
let each thread be overtaken by the other and take another message;
`Interval` is more than `Keep + Back`, as shipped, because otherwise `del_range` wraps.
In `Client`, `MaxBatch` lets every place be taken, given back and taken again. In
`OutputBuffer` three messages (`MaxMsg`) fill a buffer of two and leave one over, with the
warm-up ending at any point between them. In
`Setup` a node in `AtOnce` puts its whole first round on the wire in one step, so that only the
output threads of the early replica are followed message by message. In
`WorkerThreads`, `MaxView` and the choice of `g_node_id` give the replica a view to
follow and a view to lead in each instance, one of them at the start and one after an
advance; `Voter` lets a quorum arrive in every view and a vote more in one of them;
`MaxBatches` is the number of led views. In `Transport` two messages in flight
(`MaxInFlight`) share a buffer or a socket in every combination of classes, and
`MSG_SIZE_MAX` is scaled down so that one large message fits a buffer and a second one
does not; `BATCH_SIZE` 2 has a loop go round more than once; `Kinds` are the classes a node
sends.

Fairness. `FairSpec` of `SpotLess` is weak fairness of the whole next-state
relation: the system does not stop while some thread can do something. No
fairness between replicas, threads or messages is needed because views are
bounded and every step uses something up (a message is received once, a view is
left once). The code justifies it: threads block only on semaphores posted with
the message or the view they wait for, and messages are sent over reliable
connections. `FairSpec` of `ExecuteQueue` and of
`Checkpoint` is weak fairness of each thread: the operating system schedules them.
So it is in `Client`, where it also covers the replicas: a batch sent to a live
replica is executed in the end (`AllExecuted` of `SpotLess`). In `Setup` every step
uses something up, and weak fairness of the whole relation is enough. In `WorkerThreads`
every thread is weakly fair, clients send and messages of the other replicas arrive. In `Transport`
only the input threads are fair: nodes may send or not.

Deadlock is not checked: the models end when their bound is reached.

## 4. What the runs show

All properties of the passing runs hold. Two runs show the code contradict its comments.

* `execute_race`. `enqueue` pushes an id to the heap, then compares it with
  `expectedExecuteCount`; `set_expectedExecuteCount` stores the new value, then
  looks at the heap. If both do their first half before either does its second,
  both post `execute_semaphore`. The extra token is harmless until the execution
  thread uses it for a batch that is in its queue but not yet in the heap: the
  pop after that batch removes another id, the batch of that id is found by
  nobody, and the execution thread sleeps for ever. The comment in
  `system/global.cpp:329` says that the semaphore tells whether the next message
  is in the queue. `ExecutedUnlessStray` is the positive half: without a double
  post every batch is executed, up to the first one that shares its queue with a
  genesis message (the next point).
  `execute_shared` stops short of that batch for the following reason. The first commit of an instance also enqueues an EXECUTE for
  the genesis block, with an id of 0 - 1. It lies in the queue of an ordinary
  batch (number 55515 with the shipped constants) and is taken first when that
  batch is next, together with the only token.
* `setup_ready`. Two instance threads of a replica take the last two KEYEX
  messages; both find all keys counted, and the replica sends READY twice. The
  client counts messages, so it can start while another replica lacks keys.

`setup_single` is the positive half of `setup_ready`: with one instance and one input thread the
client starts, and not too early, and the number each output thread expects in its
first round is the number it gets. The one exception is `Held`: a replica whose
warm-up (10 s) ended before its READY left keeps it in a buffer that waits for two more
messages, and the client never starts. With several input threads
at the client `Starts` fails too, because an increment of the unlocked `totKey` can be lost; `setup_single`
has one and does not meet this case. `KeysBeforeStart` is stated with several (`KeysInvariant`): a lost increment only makes the client wait.

`threads`: tokens and work match one to one, so neither sending thread
sleeps with work at hand or spins without. The batch thread never loses the
compare-and-swap: the proposal thread has given the manager back before it counts the
proposal, and no vote for the slot arrives before its GENERIC has left. For the same
reason the primary's own vote is first, which `process_hotstuff_generic_p` needs, since
it does not advance the view. A GENERIC is built for the right slot (`GenericOfView`) although the count, the
view and `last_sent_view` are read one after the other: once a proposal is counted, neither of the
last two changes before its GENERIC has left.

`transport`: size, writer and reader of every class agree, also for certificates without grandparent
or with the genesis flag, whose votes are left out; a message signed for several
destinations validates at each; with the shipped numbers of threads every socket is polled.

`send_key` (`system/worker_thread.cpp:91`) enqueues the CMAC key with a vector it has just cleared, and
`MessageQueue::enqueue` reads `dest[0]`. That is undefined; the element is still in
memory, and the models take it.

`checkpoint_collect`: a thread announces the manager it holds only after its
message has left the queue, so the other thread can miss the announcement and
release that manager. `StillOwned` holds all the same because the other thread has
stored the newer checkpoint before it looked, and the message is then dropped by
`exception_msg_handling`. That filter reads `g_last_stable_chkpt`, which `set_curr_chkpt` compares
and stores without a lock, so that the older of two checkpoints may end up in it; `StillOwned`
covers this interleaving. The wait in `process_pbft_chkpt_msg` compares what the other
thread holds with `start` where it skipped `holding2`; no reachable state satisfies the
condition, and no thread ever waits. What is skipped is not released later
either: `Collected` leaves out the managers of the checkpoints themselves, which stay in
the table.

`client`: however responses interleave with the client thread, a place is given
back once, because the count is compared with `==` and goes on after the batch is
completed. A silent replica keeps its own share of the places and
no more. The places that remain must be enough to fill a buffer of responses
(`MESSAGE_PER_BUFFER`), because responses do not force a buffer: with fewer, client
and replicas wait for each other.

`output`: the order of one sender is kept, and no GENERIC waits in a buffer, so it takes
everything sent before it along. `send_hotstuff_newview` sets `force` on the SYNC of instance 0,
but `deep_copy_msg` does not carry it, so only destinations of the last output
thread (`dest % SEND_THREAD_CNT`) get that vote at once. `OnlyUnforcedWait` looks at the copies, after
the flag is lost: it says what may wait, not that a SYNC that was sent with `force` never does.

`HeapNonEmpty` holds because of those same genesis messages: without them
`std::priority_queue::pop` would be called on an empty heap.

## 5. Proofs

Every theorem holds for every value of the constants that satisfies the module's
assumption; the bounds (`MaxView`, `MaxBatch`, `MaxChkpt` ...) are constants too, so a
theorem covers runs of any length. `PROJECT.json` lists the theorems.

| Module | Theorems (`Spec => []...`) | Inductive invariant |
|---|---|---|
| `SpotLessProofs` | `TypeCorrect`, for any silent replicas | `TypeOK` |
| `SpotLessProofs`, `ASSUME Tolerated` | `LinearChainInvariant`, `ViewQuorumInvariant`, `CommitSafety` (`CommitLocked`), `AgreementInvariant` (`Agreement`, `BatchKnown`), `GenericSafety` (`SlotOfView`, `NoOrphan`), `GenericAcceptedInvariant`, and `Refinement`: `Spec` implements `ReplicatedLog` | `LinearChain` |
| `ExecuteQueueProofs` | `TypeCorrect`, `PopNeverEmpty` (`HeapNonEmpty`), `TokensExact` (`WorkerTokens`) | `TypeOK`, `UnderWay`, `Steps`, `Executions` |
| `WorkerThreadsProofs` | `TypeCorrect`, `GenericNeverQueued` (`GenericStays`), `GenericForItsView` (`GenericOfView`), `OwnVoteIsFirst` (`OwnVoteFirst`), `AwakeFindsMessage` (`TokenFindsMessage`), `SendingTokensExact` (`SendingTokens`) | `Inv`, `TokenInv` |
| `CheckpointProofs` | `TypeCorrect`, `ManagerStaysOwned` (`StillOwned`), `CollectionComplete` (`Collected`), `NeverStalls` | `Inv` |
| `ClientProofs` | `TypeCorrect`, `RoundExact` (`InRound`), `InFlightExact` (`InFlight`) | `Inv`, `Places` |
| `OutputBufferProofs` | `TypeCorrect`, `ForcedNeverWait` (`OnlyUnforcedWait`), `SentInOrder` (`InOrder`) | `Inv` |
| `SetupProofs` | `TypeCorrect` | `Inv` |
| `SetupProofs`, `ASSUME OneWorker` | `KeysInvariant` (`KeysBeforeStart`) | `OneInv` |
| `TallyProofs` | lemmas only | |

`SpotLess`. None of the safety properties is inductive: an arbitrary `hash_to_QC`
makes the next commit execute anything. But which views are certified is fixed by the
constants: view v is `Dead`, given up by all, if v > `CRASH_VIEW` and its primary is silent,
and every other view is certified before anyone leaves it. So the whole
record `chain[r]` is determined by the view (`ChainAt`): the certificate of the last live view
(`Prev`) is prepared; the last live view with a live one behind it is locked
(`LockAt`); a block is executed, once, and erased from the map when three live views in a row,
not before it, have been passed (`Committed`), and all other certificates of live views are in the
map. `ChainInv` says so. The heart is a lemma on storing the certificate of v and running `update_lockQC`: with its walk
and its erasures this takes the chain of view v to that of view v + 1. The walk is a
least fixed point; that it visits exactly the blocks not yet executed is shown by looking at the greatest one it would
miss. A given-up view leaves the chain alone, and `Prev` steps over it.

The other parts of `LinearChain` are what is needed to know that `advance_view` is only ever
reached with that certificate, and `process_failed_new_view` only for a dead view: each GENERIC is for
its view and on top of `Prev` (`GenericInv`, which needs `SendInv` about
the counters of the sending threads and arithmetic on the rotation of primaries), a replica has
seen the GENERIC of the slots it votes and advances for
(`PassedInv`, `ReceivedInv`), counted votes were cast (`VoteInv`), and only dead views are
voted against, by correct replicas that have reached them (`FailInv`). One case is surprising: a silent
replica still takes messages while its own view is before `CRASH_VIEW`, and can be lifted by votes against a
later view over views it has not seen. Its chain stays where it was (`Lost`, `At`); it
takes nothing any more, so nobody depends on it. TLC checks `LinearChain` in
`spotless_early`. The refinement follows from it too: the ledger of a replica is
determined by `At`, a handler moves at most one replica, and by one certified view, and so extends one
ledger by what the ledgers ahead of it have in that place.

`Tolerated` has two parts. No two neighbours in the rotation are silent: the code
makes replica i silent when i % `DIV1` >= `LIMIT1` and i % `DIV2` # `LIMIT2` (`config.h:239`,
`worker_thread.cpp:413`), that is when i % 6 is 3 or 5, and 0 is never silent. And if there are silent replicas, the
correct ones are no more than nf, so a view is only given up when all correct replicas voted against
it: with this pattern so it is for 4, 6, 7, 10, 12, 13 ... replicas. With 5, 8 or 9 there is one silent
replica less than f; then nf votes against a view do not say that a slow correct
replica has got there, `process_failed_new_view` can take it over a certified view, and the
theorems do not apply. Both parts hold in all runs of `SpotLess`, and with `Faulty = {}`
(the default build) for any number of replicas.

Sums. `Tally` writes the sum of a function as the number of pairs below its graph,
because a recursive sum could not be reasoned about here; `TallyProofs` has what a
sum does when one value grows or shrinks, that `Ascending` lists every member of a finite set
once, and the facts about remainders the other proofs need.

`ExecuteQueue`. `HeapNonEmpty` relates no two variables directly: instance threads push ids,
the execution thread pops one for each batch, perhaps before the id of that batch is
pushed. `Executions(e)` counts: after e batches the heap has lost at most e ids (one less while
a pop is due), and every batch executed was begun by its thread (`UnderWay`). So an empty heap before
the pop would mean that all ids pushed so far are fewer than the batches begun,
while each instance has pushed, before any other id, that of its genesis block. The assumption
`WORD > (MaxBatch + 2) * BatchSize` says that ordinary ids do not reach the wrapped genesis id
2^64 - 1.

`WorkerThreads`. `Inv` ties the variables one thread reads to what the others are in the
middle of: which thread owns the manager of a slot, that a message of a slot exists only after
its GENERIC has left, how far each sending thread is ahead of the views, and that what the batch thread
has read still holds when it acts on it (`FoundInv`). `TokenInv` and
`SendingTokens` are counting arguments: tokens, plus the threads that have taken a
token and not its work, minus those that have added work and not the token, is the work there is. The
assumption that `Input` is finite makes the count of threads a number.

`Checkpoint`. `Inv` says what a thread knows at each `pc` about the checkpoint stored, the
range it will release and what the other thread can hold. `StillOwned` needs that the manager of a
checkpoint lies strictly between the ranges released for the checkpoints before and after it,
hence the assumption that `Keep` is positive (it is 16 batches per replica in the code). `NeverStalls` proves that the wait in `process_pbft_chkpt_msg` is dead code.

`Client`. `InRound` and `InFlight` speak of the responses that arrived, the threads of two maps
that are not updated together. `Counting` says what the maps know: while a
response is kept the count is exact; when none is kept, it is zero and there was no response, or it
stopped at f + 1 or above. So it reaches f + 1 once, for one thread (`Completing`), and a place is
given back once. The assumption `NODE_CNT >= 2` is needed: with one replica f + 1 is 1,
the first response only opens the entry, and no batch is ever completed.

`OutputBuffer`. The messages of thread p for node d pass four places: what p has still to push, the
queue of the output thread of d, what that thread has still to copy, and the buffer and wire of
d. `Way(p, d)` says that these places together hold what p sent to d, that the ids in each are smaller than those in
the places behind it, and that the queue and the wire are in order; a step moves one message from a
place to the next. `InOrder` is what this says of the wire. `Placed` says that
a list of pushes or copies has each queue or node once, which needs that
`Ascending` lists every member of a set once (a bijection from ranks, by the cardinality of a finite
set: hence the assumption that `Replica` is finite). `Calm` adds to
`OnlyUnforcedWait` that in the warm-up no buffer holds anything.

`Setup`. The counters are compared with 0, and a message counted twice, or one that is never counted, would
be fatal. `Inv` says that no message of the first round exists before its sender
started (`QueueInv`), and that each is then in one place only: in the queue of an output thread, in the
buffer of its destination, in the queue of the instance threads there, or stored (`WayInv`, `KeyInv`). So `rsp_cnt` is
the number of nodes whose INIT_DONE is still to come (`Silent`, `BarrierInv`), an output
thread decides to send only while `init_msg_sent` is not 0 (`SendInv`), and `receivedKeys` is never lower than the number of keys missing
(`CountInv`): the unlocked decrement of several instance threads can lose an update, which leaves the counter too
high, never below zero. What `deliver` hands over is a filtered sequence, which
is written with `Ascending` instead of a recursion, so that the proof can say which keys it has.

With one instance thread (`OneWorker`), `OneInv` adds `Stage`: READY is sent only once no key is missing, no other
look at the counters follows, and READY is the last message of its replica to the client in each place
it passes. So `Heard`, the replicas that have nothing more to say to the client, grows when the
client takes a READY and at no other step, and bounds `totKey`, even if increments of several input
threads get lost. When `totKey` is the number of replicas, all are heard: they have their keys
(`Done`), and their keys for the client arrived before READY (`ClientInv`). With two instance threads the statement is
false (`setup_ready`).

Only model-checked, and why:

* liveness (`AllExecuted`, `ExecutedUnlessStray`, `AllCollected`, `AllSent`, `Advances`, `Starts`,
  `Polled`): fairness is out of TLAPS's reach;
* `SpotLess` with silent replicas that `Tolerated` excludes, except for its types;
* `Transport`: what is written to a buffer and read back is given by folds over the
  fields of a message, whose properties need induction over data.

## 6. Not modelled

Lost and forged messages (the transport is TCP, and no build modelled equivocates);
the ASK, dark, ignore and equivocation experiments, which `config.h` compiles
out (except for the layout of ASK messages); the length of timers and the warm-up phase in
`setTimer`; the hash buckets of `txn_table` and the pools; execution of a
transaction, the ledger and the database, which one thread applies in the order
`ExecuteQueue` and `SpotLess` decide; the cryptographic algorithms; statistics and
scripts. `skip_view` is never reached from `process_hotstuff_generic` because `check_view`
parks such a message first. At the end of a run `server_recv_loop` posts all semaphores;
termination is left out.

`SpotLess` takes a handler, and the batch thread's reads, GENERIC and vote, as atomic.
In the code they are so through the compare-and-swap on `txn_ready` alone, which
`WorkerThreads` models step by step; that the one implements the other is not checked.

## 7. Plan

1. Votes of all instances in one buffer: can a vote that forces nothing wait for
   a message that waits for the vote (`SpotLess` with `OutputBuffer`).
2. `Timers`: lengths, `min_exp_time`, warm-up.
3. `WorkerThreads` as a refinement of the handlers of `SpotLess`, which the latter takes as atomic.

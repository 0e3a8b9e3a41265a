------------------------------- MODULE Setup --------------------------------
(***************************************************************************)
(* Start-up.  Every node sends INIT_DONE and its keys to all others.  The  *)
(* output threads of a replica count the messages of this first round, to  *)
(* know when to stop waiting for more, and then wait at a barrier for the  *)
(* INIT_DONE of all nodes.  A replica that has the keys of all nodes tells *)
(* the client READY; the client starts once it has counted one READY per   *)
(* replica.                                                                *)
(*                                                                         *)
(* The counters of keys are changed without a lock, so a decrement or an   *)
(* increment is two steps.  A KEYEX has no instance_id, and its queue is   *)
(* therefore that of any instance thread.  The warm-up is measured from    *)
(* the start of the process and may be over at any time; buffers then wait *)
(* to be full.                                                             *)
(***************************************************************************)
EXTENDS Integers, SequencesExt, FiniteSetsExt, Tally

CONSTANTS
  Replica,
  Client,
  SEND_THREAD_CNT,
  MESSAGE_PER_BUFFER,
  Early,            \* the replicas started so early that their warm-up may end in setup
  AtOnce,           \* bound: the nodes whose first round leaves in one step
  Worker,           \* the instance threads of a replica
  Input,            \* the input threads of the client
  thread            \* the client's input thread a replica's messages come in at

Node == Replica \cup {Client}

ASSUME ConstantsAssumption ==
  /\ IsFiniteSet(Replica) /\ Client \notin Replica /\ Node \subseteq Nat
  /\ SEND_THREAD_CNT \in Nat \ {0} /\ MESSAGE_PER_BUFFER \in Nat \ {0}
  /\ Early \subseteq Replica /\ Client \in AtOnce /\ AtOnce \subseteq Node
  /\ thread \in [Replica -> Input]

Output == 0 .. (SEND_THREAD_CNT - 1)

(* Mutant: the share of the threshold signature is counted too. *)
Counted_All == {"ED2", "CMA", "SECP"}

(* The keys a node sends to another; the share of the threshold signature  *)
(* goes from replica to replica and is not counted in receivedKeys.        *)
Counted     == {"ED2", "CMA"}
Kinds(n, d) == IF Client \in {n, d} THEN <<"ED2", "CMA">> ELSE <<"ED2", "CMA", "SECP">>
Keys(n, d)  == [i \in DOMAIN Kinds(n, d) |-> <<n, Kinds(n, d)[i]>>]
AllKeys(d)  == UNION {Range(Keys(n, d)) : n \in Node \ {d}}

(* The first round of a replica, in the order of thread 0, as far as it is *)
(* in the queue of an output thread.                                       *)
To(kind, d) == [kind |-> kind, dest |-> d]
Served(n, S, o) == {d \in S \ {n} : d % SEND_THREAD_CNT = o}
send_init_done_to_all_nodes(n, o) ==
  LET D == Ascending(Served(n, Node, o)) IN [i \in 1 .. Len(D) |-> To("INIT_DONE", D[i])]
send_key(n, o) ==
  LET D == Ascending(Served(n, Node, o))
  IN  [i \in 1 .. 2 * Len(D) |-> To(IF i % 2 = 1 THEN "ED2" ELSE "CMA", D[(i + 1) \div 2])]
send_public_key(n, o) ==
  LET D == Ascending(Served(n, Replica, o)) IN [i \in 1 .. Len(D) |-> To("SECP", D[i])]
FirstRound ==
  [n \in Replica |-> [o \in Output |->
    send_init_done_to_all_nodes(n, o) \o send_key(n, o) \o send_public_key(n, o)]]

(* Mutant: a share is counted for every node. *)
init_init_msg_sent_All(n, o) == 4 * Cardinality(Served(n, Node, o))

init_init_msg_sent(n, o) == 3 * Cardinality(Served(n, Node, o)) + Cardinality(Served(n, Replica, o))

Key  == {"ED2", "CMA", "SECP"}
Kind == Key \cup {"INIT_DONE", "READY"}

VARIABLES
  up,               \* nodes whose thread 0 has sent the first round
  m_queue,          \* the queue of an output thread of a replica
  init_msg_sent,
  output,           \* where the output thread is
  mbuf,             \* the buffer of a replica for a node
  warmup,
  rsp_cnt,
  setup_done_barrier,
  keyex,            \* KEYEX messages in the queues of the instance threads
  keys,             \* the keys a node has stored
  receivedKeys,     \* the number of keys a replica waits for, by node
  worker,           \* an instance thread: what it does, for which node, the value it read
  ready,            \* READY messages on their way, by replica
  totKey, keyAvail,
  input             \* an input thread of the client: what it does, the value it read

sending == <<m_queue, init_msg_sent, output, mbuf, warmup>>
start   == <<up, rsp_cnt, setup_done_barrier>>
taking  == <<receivedKeys, worker>>
client  == <<totKey, keyAvail, input>>
vars == <<sending, start, taking, client, keyex, keys, ready>>

TypeOK ==
  /\ up \subseteq Node
  /\ m_queue \in [Replica -> [Output -> Seq([kind : Kind, dest : Node])]]
  /\ init_msg_sent \in [Replica -> [Output -> 0 .. 4 * Cardinality(Node)]]
  /\ output \in [Replica -> [Output -> {"test", "send", "wait", "run"}]]
  /\ mbuf \in [Replica -> [Node -> Seq(Kind)]]
  /\ \A n \in Replica, d \in Node : Len(mbuf[n][d]) < MESSAGE_PER_BUFFER
  /\ warmup \in [Replica -> BOOLEAN]
  /\ rsp_cnt \in [Node -> 0 .. (Cardinality(Node) - 1)]
  /\ setup_done_barrier \in [Replica -> 0 .. SEND_THREAD_CNT]
  /\ keyex \in [Replica -> Seq(Node \X Key)] /\ \A s \in Replica : Range(keyex[s]) \subseteq AllKeys(s)
  /\ keys \in [Node -> SUBSET (Node \X Key)] /\ \A n \in Node : keys[n] \subseteq AllKeys(n)
  /\ receivedKeys \in [Replica -> [Node -> 0 .. 2]]
  /\ worker \in [Replica -> [Worker -> [pc : {"idle", "store", "scan"}, from : Node, read : 0 .. 2]]]
  /\ ready \in [Replica -> Nat]
  /\ totKey \in Nat /\ keyAvail \in BOOLEAN
  /\ input \in [Input -> [pc : {"idle", "store", "test"}, read : Nat]]

Init ==
  /\ up = {}
  /\ m_queue = [n \in Replica |-> [o \in Output |-> <<>>]]
  /\ init_msg_sent = [n \in Replica |-> [o \in Output |-> init_init_msg_sent(n, o)]]
  /\ output = [n \in Replica |-> [o \in Output |-> IF n \in AtOnce THEN "run" ELSE "test"]]
  /\ mbuf = [n \in Replica |-> [d \in Node |-> <<>>]]
  /\ warmup = [n \in Replica |-> FALSE]
  /\ rsp_cnt = [n \in Node |-> Cardinality(Node) - 1]
  /\ setup_done_barrier = [n \in Replica |-> 0]
  /\ keyex = [s \in Replica |-> <<>>] /\ keys = [n \in Node |-> {}]
  /\ receivedKeys = [s \in Replica |-> [n \in Node |-> IF n = s THEN 0 ELSE 2]]
  /\ worker = [s \in Replica |-> [w \in Worker |-> [pc |-> "idle", from |-> s, read |-> 0]]]
  /\ ready = [s \in Replica |-> 0]
  /\ totKey = 0 /\ keyAvail = FALSE
  /\ input = [i \in Input |-> [pc |-> "idle", read |-> 0]]
-----------------------------------------------------------------------------
is_setup_done(n) == rsp_cnt[n] = 0

(* The input threads of the nodes in S count an INIT_DONE; the last one    *)
(* opens the barrier.                                                      *)
process_setup_msg(S) ==
  /\ rsp_cnt' = [n \in Node |-> IF n \in S THEN rsp_cnt[n] - 1 ELSE rsp_cnt[n]]
  /\ setup_done_barrier' = [n \in Replica |-> IF n \in S /\ rsp_cnt[n] = 1
                                              THEN setup_done_barrier[n] + SEND_THREAD_CNT
                                              ELSE setup_done_barrier[n]]

(* All threads meet behind setup. *)
tsetup(n) == n \in up /\ is_setup_done(n) /\ (n = Client \/ \A o \in Output : output[n][o] = "run")

(* setup of thread 0, when all threads of the node have started.  The      *)
(* client's output threads neither count nor wait.                         *)
setup(n) ==
  /\ n \notin up
  /\ up' = up \cup {n}
  /\ IF n \in AtOnce
     THEN /\ process_setup_msg(Node \ {n})
          /\ keyex' = [s \in Replica |-> IF s = n THEN keyex[s] ELSE keyex[s] \o Keys(n, s)]
          /\ keys' = [keys EXCEPT ![Client] = IF n = Client THEN @ ELSE @ \cup Range(Keys(n, Client))]
          /\ UNCHANGED m_queue
     ELSE /\ m_queue' = [m_queue EXCEPT ![n] = FirstRound[n]]
          /\ UNCHANGED <<rsp_cnt, setup_done_barrier, keyex, keys>>
  /\ UNCHANGED <<init_msg_sent, output, mbuf, warmup, taking, client, ready>>
-----------------------------------------------------------------------------
(* OutputThread::setup: send one message after another until the first     *)
(* round is through or the node has heard of all others.  A thread that    *)
(* has decided to send waits for a message.                                *)
OutputThread_setup(n, o) ==
  /\ output[n][o] = "test"
  /\ output' = [output EXCEPT ![n][o] = CASE is_setup_done(n) -> "run"
                                          [] init_msg_sent[n][o] = 0 -> "wait"
                                          [] OTHER -> "send"]
  /\ UNCHANGED <<m_queue, init_msg_sent, mbuf, warmup, start, taking, client, keyex, keys, ready>>

OutputThread_wait(n, o) ==
  /\ output[n][o] = "wait" /\ setup_done_barrier[n] > 0
  /\ setup_done_barrier' = [setup_done_barrier EXCEPT ![n] = @ - 1]
  /\ output' = [output EXCEPT ![n][o] = "run"]
  /\ UNCHANGED <<m_queue, init_msg_sent, mbuf, warmup, up, rsp_cnt, taking, client, keyex, keys, ready>>

(* What comes in at node d: input threads count INIT_DONE and READY, hand  *)
(* keys to the workers of a replica, and store those of the client.        *)
deliver(n, d, msgs) ==
  LET at(K) == {i \in 1 .. Len(msgs) : msgs[i] \in K}
      key   == [j \in 1 .. Cardinality(at(Key)) |-> <<n, msgs[Ascending(at(Key))[j]]>>]
  IN
  /\ process_setup_msg(IF at({"INIT_DONE"}) # {} THEN {d} ELSE {})
  /\ ready' = [ready EXCEPT ![n] = @ + Cardinality(at({"READY"}))]
  /\ IF d = Client THEN keys' = [keys EXCEPT ![d] = @ \cup Range(key)] /\ UNCHANGED keyex
     ELSE keyex' = [keyex EXCEPT ![d] = @ \o key] /\ UNCHANGED keys

(* MessageThread::run and mbuf::ready: before the end of the warm-up every *)
(* message leaves at once.                                                 *)
run(n, o) ==
  LET m   == Head(m_queue[n][o])
      buf == Append(mbuf[n][m.dest], m.kind)
      go  == ~warmup[n] \/ Len(buf) = MESSAGE_PER_BUFFER
  IN
  /\ output[n][o] = "send" \/ (output[n][o] = "run" /\ tsetup(n))
  /\ m_queue[n][o] # <<>>
  /\ m_queue' = [m_queue EXCEPT ![n][o] = Tail(@)]
  /\ IF go THEN deliver(n, m.dest, buf) ELSE UNCHANGED <<rsp_cnt, setup_done_barrier, ready, keyex, keys>>
  /\ mbuf' = [mbuf EXCEPT ![n][m.dest] = IF go THEN <<>> ELSE buf]
  /\ IF output[n][o] = "send"
     THEN /\ init_msg_sent' = [init_msg_sent EXCEPT ![n][o] = @ - 1]
          /\ output' = [output EXCEPT ![n][o] = "test"]
     ELSE UNCHANGED <<init_msg_sent, output>>
  /\ UNCHANGED <<warmup, up, taking, client>>

(* Statistics ask for the end of the warm-up all the time, in setup too,   *)
(* and what is found once stays.                                           *)
is_warmup_done(n) ==
  /\ n \in Early /\ ~warmup[n]
  /\ warmup' = [warmup EXCEPT ![n] = TRUE]
  /\ UNCHANGED <<m_queue, init_msg_sent, output, mbuf, start, taking, client, keyex, keys, ready>>
-----------------------------------------------------------------------------
(* process_key_exchange: store the key, count it, look for missing ones.   *)
(* One instance thread takes keys in order, several in any order.          *)
Takable(s) == {i \in 1 .. Len(keyex[s]) : Cardinality(Worker) = 1 => i = 1}

store_key(s, w, i) ==
  LET k == keyex[s][i] IN
  /\ tsetup(s) /\ worker[s][w].pc = "idle" /\ i \in Takable(s)
  /\ keyex' = [keyex EXCEPT ![s] = RemoveAt(@, i)]
  /\ keys' = [keys EXCEPT ![s] = @ \cup {k}]
  /\ worker' = [worker EXCEPT ![s][w] =
                  [pc   |-> IF k[2] \in Counted THEN "store" ELSE "scan",
                   from |-> k[1],
                   read |-> receivedKeys[s][k[1]]]]
  /\ UNCHANGED <<sending, start, receivedKeys, client, ready>>

count_key(s, w) ==
  /\ worker[s][w].pc = "store"
  /\ receivedKeys' = [receivedKeys EXCEPT ![s][worker[s][w].from] = worker[s][w].read - 1]
  /\ worker' = [worker EXCEPT ![s][w].pc = "scan"]
  /\ UNCHANGED <<sending, start, client, keyex, keys, ready>>

(* Mutant: the shares of the threshold signature are not waited for. *)
sendReady_NoShares(s) == \A n \in Node : receivedKeys[s][n] = 0

(* The replica's own share is in public_keys from the start. *)
sendReady(s) ==
  /\ \A n \in Node : receivedKeys[s][n] = 0
  /\ \A n \in Replica \ {s} : <<n, "SECP">> \in keys[s]

send_ready(s, w) ==
  LET o == Client % SEND_THREAD_CNT IN
  /\ worker[s][w].pc = "scan"
  /\ m_queue' = IF sendReady(s) THEN [m_queue EXCEPT ![s][o] = Append(@, To("READY", Client))] ELSE m_queue
  /\ worker' = [worker EXCEPT ![s][w] = [pc |-> "idle", from |-> s, read |-> 0]]
  /\ UNCHANGED <<init_msg_sent, output, mbuf, warmup, start, receivedKeys, client, keyex, keys, ready>>
-----------------------------------------------------------------------------
(* client_recv_loop: totKey++, and the comparison with g_node_cnt. *)
receive_ready(s) ==
  /\ ready[s] > 0 /\ input[thread[s]].pc = "idle"
  /\ ready' = [ready EXCEPT ![s] = @ - 1]
  /\ input' = [input EXCEPT ![thread[s]] = [pc |-> "store", read |-> totKey]]
  /\ UNCHANGED <<sending, start, taking, totKey, keyAvail, keyex, keys>>

count_ready(i) ==
  /\ input[i].pc = "store"
  /\ totKey' = input[i].read + 1
  /\ input' = [input EXCEPT ![i] = [pc |-> "test", read |-> 0]]
  /\ UNCHANGED <<sending, start, taking, keyAvail, keyex, keys, ready>>

test_ready(i) ==
  /\ input[i].pc = "test"
  /\ keyAvail' = (keyAvail \/ totKey = Cardinality(Replica))
  /\ input' = [input EXCEPT ![i].pc = "idle"]
  /\ UNCHANGED <<sending, start, taking, totKey, keyex, keys, ready>>
-----------------------------------------------------------------------------
Next ==
  \/ \E n \in Node : setup(n)
  \/ \E n \in Replica : is_warmup_done(n)
  \/ \E n \in Replica, o \in Output : OutputThread_setup(n, o) \/ OutputThread_wait(n, o) \/ run(n, o)
  \/ \E s \in Replica, w \in Worker :
       (\E i \in Takable(s) : store_key(s, w, i)) \/ count_key(s, w) \/ send_ready(s, w)
  \/ \E s \in Replica : receive_ready(s)
  \/ \E i \in Input : count_ready(i) \/ test_ready(i)

Spec == Init /\ [][Next]_vars

(* Nodes start, and no thread stops: every step uses something up.         *)
FairSpec == Spec /\ WF_vars(Next)
-----------------------------------------------------------------------------
(* "Entities for ensuring successful key exchange": when keyAvail lets the *)
(* client send its first batch, every node has the keys of every other.    *)
KeysBeforeStart == keyAvail => \A n \in Node : keys[n] = AllKeys(n)

(* No output thread waits for a message of the first round that was never  *)
(* sent, none is left behind by one that stopped early, and the client     *)
(* starts: unless the warm-up of a replica was over before its first       *)
(* messages or its READY left, when they wait in a buffer to be joined by  *)
(* others.                                                                 *)
Held == \E n \in Replica, d \in Node : mbuf[n][d] # <<>>
Starts == <>[]((keyAvail /\ tsetup(Client)) \/ Held)
=============================================================================

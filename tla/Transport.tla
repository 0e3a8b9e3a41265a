----------------------------- MODULE Transport ------------------------------
(***************************************************************************)
(* From an output thread's hands to the input threads of another node:     *)
(* messages are signed and copied when they are enqueued, given the        *)
(* signature for their destination, written into a buffer behind each      *)
(* other, sent over the socket for a pair of nodes, found by an input      *)
(* thread that goes round the sockets it looks after, and read back.       *)
(*                                                                         *)
(* One node, g_node_id, receives; the others send to it.  When a buffer is *)
(* sent is the subject of OutputBuffer and any time here.                  *)
(***************************************************************************)
EXTENDS Messages

CONSTANTS
  NODE_CNT, CLIENT_NODE_CNT,
  REM_THREAD_CNT, SEND_THREAD_CNT,
  CLIENT_THREAD_CNT, CLIENT_REM_THREAD_CNT, CLIENT_SEND_THREAD_CNT,
  TPORT_WINDOW,
  MSG_SIZE_MAX,
  Receiver,             \* the nodes of which one is the receiver
  Kinds,                \* the classes a node sends
  MaxInFlight           \* bound: messages in buffers and on sockets

ASSUME TransportAssumption ==
  /\ NODE_CNT \in Nat \ {0} /\ CLIENT_NODE_CNT \in Nat \ {0}
  /\ REM_THREAD_CNT \in Nat \ {0, 1} /\ SEND_THREAD_CNT \in Nat \ {0}
  /\ CLIENT_THREAD_CNT \in Nat /\ CLIENT_REM_THREAD_CNT \in Nat \ {0}
  /\ CLIENT_SEND_THREAD_CNT \in Nat \ {0}
  /\ TPORT_WINDOW \in Nat \ {0} /\ MSG_SIZE_MAX \in Nat /\ MaxInFlight \in Nat
  /\ Receiver \subseteq 0 .. (NODE_CNT + CLIENT_NODE_CNT - 1)

g_total_node_cnt == NODE_CNT + CLIENT_NODE_CNT
Node        == 0 .. (g_total_node_cnt - 1)
ISSERVERN(n) == n < NODE_CNT
Ascending(S) == SetToSortSeq(S, <)
-----------------------------------------------------------------------------
(* A thread of node src sends to dest; the same thread number is used at   *)
(* both ends.                                                              *)
get_port_id(src, dest, thd) ==
  (g_total_node_cnt * dest + src + thd * g_total_node_cnt * g_total_node_cnt) % TPORT_WINDOW

SendThreads(src) == IF ISSERVERN(src) THEN SEND_THREAD_CNT ELSE CLIENT_SEND_THREAD_CNT

BoundPort(src, dest) == get_port_id(src, dest, dest % SendThreads(src))
SendPort(src, dest)  == get_port_id(src, dest, dest % SendThreads(src))

VARIABLES
  g_node_id,            \* the receiver
  mbuf,                 \* a sender's buffer for the receiver
  net,                  \* what is on the socket of a port
  sock_ctr

vars == <<g_node_id, mbuf, net, sock_ctr>>

Sender == Node \ {g_node_id}

(* sent is what the sender put in, for the properties. *)
reset(src, dest) ==
  [sent |-> <<>>, p |-> 3 * U32, buf |-> (0 :> Cell(U32, dest)) @@ (U32 :> Cell(U32, src))]

Init ==
  /\ g_node_id \in Receiver
  /\ mbuf = [n \in Node |-> reset(n, g_node_id)]
  /\ net = [p \in {SendPort(n, g_node_id) : n \in Sender} \cup {BoundPort(n, g_node_id) : n \in Sender} |-> <<>>]
  /\ sock_ctr = [t \in 0 .. (REM_THREAD_CNT - 1) |-> 0]
-----------------------------------------------------------------------------
(* What is sent: a manager whose certificate is the genesis', or that of   *)
(* an ordinary block with the votes of two replicas.                       *)
Query(i) == [rtype |-> "CL_QRY", client_startts |-> 100 + i, requests |-> <<<<i, i>>>>,
             return_node |-> NODE_CNT]
Batch(k) == [i \in 1 .. BATCH_SIZE |-> Query(k * BATCH_SIZE + i)]
Hash(k)  == calculateHash(batchStr(Batch(k)))
Genesis  == [EmptyQC EXCEPT !.genesis = TRUE]
Ordinary == [EmptyQC EXCEPT !.viewNumber = 3, !.batch_hash = Hash(3), !.parent_view = 2,
               !.parent_hash = Hash(2), !.grand_view = 1, !.grand_hash = Hash(1),
               !.signature_share_map = [i \in 1 .. 2 |-> <<i, secp256k1_ecdsa_sign(i, <<>>)>>]]
Txn(src, qc) ==
  [txn_id |-> 10 * BATCH_SIZE - 1, instance_id |-> src, view |-> 4, batch |-> Batch(4),
   hash |-> Hash(4), highQC |-> qc, psig_share |-> Garbage]

Others(src) == Ascending({n \in Node : ISSERVERN(n) /\ n # src})

(* A message and its destinations.  A vote goes to the next primary with a *)
(* share and to the other replicas without.                                *)
Between(src, me) ==
  LET To(m, dest) == [m |-> m, dest |-> dest] IN
  UNION {LET txn == Txn(src, qc) IN
    {To(Common("INIT_DONE", src), <<me>>), To(send_key(src, SECP), <<me>>),
     To(Sync_digital_sign(Sync_copy_from_txn(src, txn), src), <<me>>),
     To([Sync_copy_from_txn(src, txn) EXCEPT !.non_vote = qc.genesis], Others(src)),
     To(Generic_digital_sign([Generic_copy_from_txn(src, txn) EXCEPT !.highQC = qc], src), Others(src)),
     To(Proposal_copy_from_txn("SpotLess_PROPOSAL_MSG", src, txn), Others(src)),
     To(Proposal_copy_from_txn("SpotLess_ASK_RESPONSE_MSG", src, txn), <<me>>),
     To(send_spotless_ask(src, txn), Others(src)),
     To(Checkpoint_copy_from_txn(src, txn), Others(src))} : qc \in {Genesis, Ordinary}}

Addressable(src, me) ==
  LET To(m) == [m |-> m, dest |-> <<me>>]
      keys  == {To(send_key(src, Cat(Str(<<"CMA-">>, 4), cmacPrivateKey(src, me)))),
                To(send_key(src, Cat(Str(<<"ED2-">>, 4), g_pub_key(src))))}
      rest  == CASE ISSERVERN(src) /\ ISSERVERN(me) -> Between(src, me)
                 [] ISSERVERN(src) -> {To(Common("READY", src)),
                                       To(ClientResponse_copy_from_txn(src, Txn(src, Ordinary)))}
                 [] OTHER -> {To([NewClientQueryBatch(src) EXCEPT !.cqrySet = Batch(4)])}
  IN  {x \in keys \cup rest : x.m.rtype \in Kinds[src]}
-----------------------------------------------------------------------------
(* MessageQueue::enqueue: a signature for the first destination, or one    *)
(* for each.                                                               *)
sign(m, src, dest) ==
  CASE m.rtype = "CL_RSP"               -> ClientResponse_sign(m, src, dest)
    [] m.rtype = "CL_BATCH"             -> ClientQueryBatch_sign(m, src)
    [] m.rtype = "PBFT_CHKPT_MSG"       -> Checkpoint_sign(m, src, dest)
    [] m.rtype = "SpotLess_SYNC_MSG"    -> Sync_sign(m, src, dest)
    [] m.rtype = "SpotLess_GENERIC_MSG" -> Generic_sign(m, src, dest)
    [] m.rtype = "SpotLess_ASK_MSG"     -> Ask_sign(m, src, dest)
    [] m.rtype = "SpotLess_PROPOSAL_MSG" \/ m.rtype = "SpotLess_ASK_RESPONSE_MSG" -> Proposal_sign(m, src, dest)
    [] OTHER -> m

SignedForEach == {"PBFT_CHKPT_MSG", "SpotLess_SYNC_MSG", "SpotLess_ASK_MSG", "CL_RSP", "CL_BATCH"}
ToAllThreads  == {"PBFT_CHKPT_MSG", "SpotLess_SYNC_MSG", "SpotLess_GENERIC_MSG", "SpotLess_PROPOSAL_MSG",
                  "SpotLess_ASK_MSG", "SpotLess_ASK_RESPONSE_MSG"}

parse(buf, p, node) ==
  LET rtype == Peek([buf |-> buf, p |-> p], U32)
  IN  copy_from_buf([buf |-> buf, p |-> p, n |-> 0, m |-> create_message(rtype, node)]).m

deep_copy_msg(m, node) == parse(copy_to_buf([p |-> 0, buf |-> <<>>], m).buf, 0, node)

(* The message as the output thread for dest[i] has it.  When each         *)
(* destination has its own signature the message is left with that of the  *)
(* last one; all threads but the last have a copy.                         *)
enqueue(m, src, dest, i) ==
  LET signed == sign(m, src, IF m.rtype \in SignedForEach THEN Last(dest) ELSE dest[1])
      last   == SendThreads(src) - 1
  IN  [allsign |-> IF m.rtype \in SignedForEach THEN [k \in DOMAIN dest |-> sign(m, src, dest[k]).signature]
                   ELSE <<>>,
       m |-> IF m.rtype \in ToAllThreads /\ dest[i] % SendThreads(src) # last
             THEN deep_copy_msg(signed, src) ELSE signed]

(* MessageThread::run: the signature and the key of the destination.       *)
(* Mutant: the key is left as it is. *)
Addressed_OldKey(m, allsign, src, dest, i) ==
  IF allsign = <<>> THEN m ELSE Signed(m, allsign[i], m.pubKey)

Addressed(m, allsign, src, dest, i) ==
  IF allsign = <<>> THEN m
  ELSE Signed(m, allsign[i], IF m.rtype = "CL_BATCH" THEN g_pub_key(src) ELSE cmacPrivateKey(src, dest[i]))
-----------------------------------------------------------------------------
(* Mutant: the header of the buffer is not counted. *)
fits_NoHeader(b, size) == b.p - 3 * U32 + size <= MSG_SIZE_MAX

(* Mutant: the message counts twice. *)
fits_Twice(b, size) == b.p + 2 * size <= MSG_SIZE_MAX

fits(b, size) == b.p + size <= MSG_SIZE_MAX

OnWire(b) == [sent |-> b.sent, buf |-> (2 * U32 :> Cell(U32, Len(b.sent))) @@ b.buf]
Cnt(batches) == FoldLeft(LAMBDA n, b : n + Len(b.sent), 0, batches)
InFlight ==
  FoldFunction(LAMBDA b, n : n + Len(b.sent), 0, mbuf) + FoldFunction(LAMBDA q, n : n + Cnt(q), 0, net)

(* The message itself and what the output thread for me writes. *)
Outgoing ==
  [src \in Node |-> [me \in Receiver \ {src} |->
    {LET i == CHOOSE k \in DOMAIN x.dest : x.dest[k] = me
         e == enqueue(x.m, src, x.dest, i)
     IN  [m |-> x.m, out |-> Addressed(e.m, e.allsign, src, x.dest, i)] : x \in Addressable(src, me)}]]

(* One message to the receiver; the buffer is sent first if it has no room. *)
put(src, x) ==
  /\ InFlight < MaxInFlight
  /\ LET me  == g_node_id
         go  == ~fits(mbuf[src], get_size(x.out))
         b   == IF go THEN reset(src, me) ELSE mbuf[src]
     IN  /\ mbuf' = [mbuf EXCEPT ![src] =
              [sent |-> Append(b.sent, x.m), p |-> b.p + get_size(x.out),
               buf  |-> copy_to_buf([p |-> b.p, buf |-> b.buf], x.out).buf]]
         /\ net' = IF go THEN [net EXCEPT ![SendPort(src, me)] = Append(@, OnWire(mbuf[src]))] ELSE net
  /\ UNCHANGED <<g_node_id, sock_ctr>>

send_batch(src) ==
  /\ mbuf[src].sent # <<>>
  /\ net' = [net EXCEPT ![SendPort(src, g_node_id)] = Append(@, OnWire(mbuf[src]))]
  /\ mbuf' = [mbuf EXCEPT ![src] = reset(src, g_node_id)]
  /\ UNCHANGED <<g_node_id, sock_ctr>>
-----------------------------------------------------------------------------
(* Transport::init: one input thread of a replica looks after the clients, *)
(* the replicas are shared out to the others by their number.  The         *)
(* replica's threads ask for their number among the input threads, those   *)
(* of a client for their number among all threads.                         *)
InputThread == IF ISSERVERN(g_node_id)
               THEN 0 .. (REM_THREAD_CNT - 1)
               ELSE CLIENT_THREAD_CNT .. (CLIENT_THREAD_CNT + CLIENT_REM_THREAD_CNT - 1)

recv_sockets_clients    == Ascending({n \in Sender : ~ISSERVERN(n)})
recv_sockets_servers(k) == Ascending({n \in Sender : ISSERVERN(n) /\ n % (REM_THREAD_CNT - 1) = k})

Sockets(t) ==
  IF t % REM_THREAD_CNT = 0 THEN recv_sockets_clients ELSE recv_sockets_servers(t % (REM_THREAD_CNT - 1))

AddMessage(a, m) == [p |-> a.p + get_size(m), msgs |-> Append(a.msgs, m)]

create_messages(buf) ==
  LET at(p, w) == Peek([buf |-> buf, p |-> p], w)
      next(a, i) == AddMessage(a, [parse(buf, a.p, g_node_id) EXCEPT !.return_node_id = at(U32, U32)])
  IN  FoldLeft(next, [p |-> 3 * U32, msgs |-> <<>>], [i \in 1 .. at(2 * U32, U32) |-> i]).msgs

Waiting(n) == net[BoundPort(n, g_node_id)] # <<>>
Take(n) == net' = [net EXCEPT ![BoundPort(n, g_node_id)] = Tail(@)]

(* Mutant: the thread stays with the socket it has. *)
get_next_socket_Stay(ctr, size) == ctr

get_next_socket(ctr, size) == (ctr + 1) % size

(* The sockets from the next one on, once round; the first that has a      *)
(* buffer is read.                                                         *)
recv_msg_server(t) ==
  LET socks == Sockets(t)
      size  == Len(socks)
      me    == t % REM_THREAD_CNT
      turn[k \in 1 .. size] == IF k = 1 THEN get_next_socket(sock_ctr[me], size)
                               ELSE get_next_socket(turn[k - 1], size)
      full  == {k \in 1 .. size : Waiting(socks[turn[k] + 1])}
  IN  /\ ISSERVERN(g_node_id) /\ t \in InputThread /\ size > 0
      /\ IF full = {}
         THEN /\ sock_ctr' = [sock_ctr EXCEPT ![me] = turn[1]]
              /\ UNCHANGED net
         ELSE LET k == CHOOSE k \in full : \A j \in full : k <= j
              IN  /\ sock_ctr' = [sock_ctr EXCEPT ![me] = turn[k]]
                  /\ Take(socks[turn[k] + 1])
      /\ UNCHANGED <<g_node_id, mbuf>>

(* A client's thread reads every CLIENT_REM_THREAD_CNT-th socket, from any *)
(* of them on.                                                             *)
recv_msg_client(t) ==
  /\ ~ISSERVERN(g_node_id) /\ t \in InputThread
  /\ LET socks == Ascending(Sender) IN
     \E i \in DOMAIN socks :
       /\ (i - 1) % CLIENT_REM_THREAD_CNT = t % CLIENT_REM_THREAD_CNT
       /\ Waiting(socks[i]) /\ Take(socks[i])
  /\ UNCHANGED <<g_node_id, mbuf, sock_ctr>>
-----------------------------------------------------------------------------
Thread == 0 .. (REM_THREAD_CNT + CLIENT_THREAD_CNT + CLIENT_REM_THREAD_CNT)

Next ==
  \/ \E src \in Sender : \E x \in Outgoing[src][g_node_id] : put(src, x)
  \/ \E src \in Sender : send_batch(src)
  \/ \E t \in Thread : recv_msg_server(t) \/ recv_msg_client(t)

(* Input threads run for ever. *)
Spec ==
  /\ Init /\ [][Next]_vars
  /\ \A t \in Thread : WF_vars(recv_msg_server(t)) /\ WF_vars(recv_msg_client(t))
-----------------------------------------------------------------------------
Batches == UNION {Range(net[p]) : p \in DOMAIN net}

(* Types; a buffer on a socket holds at least one message (the assertion   *)
(* in send_batch), and a thread's place is one of its sockets.             *)
TypeOK ==
  /\ g_node_id \in Receiver
  /\ \A n \in Node : mbuf[n].p \in Nat /\ Len(mbuf[n].sent) <= MaxInFlight
  /\ \A b \in Batches : Len(b.sent) \in 1 .. MaxInFlight
  /\ sock_ctr \in [0 .. (REM_THREAD_CNT - 1) -> Nat]
  /\ ISSERVERN(g_node_id) => \A t \in InputThread :
       sock_ctr[t % REM_THREAD_CNT] \in 0 .. Len(Sockets(t))

(* What a message says, without its signature and without what the layout *)
(* leaves out on purpose.                                                  *)
Content(m) ==
  LET bare == Signed(m, Zero, Zero)
      qc   == m.highQC
      past == IF qc.grand_empty = TRUE THEN [qc EXCEPT !.grand_view = 0, !.grand_hash = NoStr] ELSE qc
  IN  IF "highQC" \in DOMAIN m
      THEN [bare EXCEPT !.highQC = IF qc.genesis = TRUE THEN [past EXCEPT !.signature_share_map = <<>>] ELSE past]
      ELSE bare

Contents(msgs) == [i \in DOMAIN msgs |-> Content(msgs[i])]

(* The receiver reads out of a buffer exactly the messages that were put   *)
(* into it, however many copies each went through and whatever classes     *)
(* share the buffer: get_size, copy_to_buf and copy_from_buf of every      *)
(* class agree, with optional fields there or not.                         *)
RoundTrip == \A b \in Batches : Contents(create_messages(b.buf)) = Contents(b.sent)

validate(m) ==
  CASE m.rtype = "CL_RSP"               -> ClientResponse_validate(m)
    [] m.rtype = "CL_BATCH"             -> ClientQueryBatch_validate(m)
    [] m.rtype = "PBFT_CHKPT_MSG"       -> Checkpoint_validate(m)
    [] m.rtype = "SpotLess_SYNC_MSG"    -> Sync_validate(m)
    [] m.rtype = "SpotLess_GENERIC_MSG" -> Generic_validate(m)
    [] m.rtype = "SpotLess_ASK_MSG"     -> Ask_validate(m)
    [] m.rtype = "SpotLess_PROPOSAL_MSG" \/ m.rtype = "SpotLess_ASK_RESPONSE_MSG" -> Proposal_validate(m)
    [] OTHER -> TRUE

(* No receiver stops at the assert(0) behind validate: every message of a  *)
(* correct node carries a signature that fits its contents and its key,    *)
(* whichever of its destinations it is read at.                            *)
Validates == \A b \in Batches : \A m \in Range(create_messages(b.buf)) : validate(m)

(* No message is written over the end of a buffer. *)
InBounds ==
  \A n \in Node : \A o \in DOMAIN mbuf[n].buf : o + mbuf[n].buf[o].w <= MSG_SIZE_MAX

(* What arrives from any node is read, even if another node sends without  *)
(* end: every socket has an input thread that comes round to it.           *)
Arrived(n) == n # g_node_id /\ net[SendPort(n, g_node_id)] # <<>>
ReadOff(n) == n # g_node_id /\ Len(net'[SendPort(n, g_node_id)]) < Len(net[SendPort(n, g_node_id)])
Polled == \A n \in Node : []<>(~Arrived(n)) \/ []<><<ReadOff(n)>>_vars
=============================================================================

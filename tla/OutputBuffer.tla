---------------------------- MODULE OutputBuffer ----------------------------
(***************************************************************************)
(* From the threads of a replica to the wire: a message is pushed to the   *)
(* queues of the output threads one after the other; an output thread      *)
(* copies it to the buffer of each of its destinations, and sends a buffer *)
(* when it is full or a message forces it.  Each push to a queue and each  *)
(* copy to a buffer is a step.                                             *)
(***************************************************************************)
EXTENDS Integers, Sequences, FiniteSets, Tally

CONSTANTS
  Producer,             \* threads that send
  Replica,              \* the other replicas
  Client,
  SEND_THREAD_CNT,
  MESSAGE_PER_BUFFER,
  MaxMsg                \* bound: the number of messages

ASSUME ConstantsAssumption ==
  /\ Replica \subseteq Nat /\ IsFiniteSet(Replica) /\ Client \in Nat \ Replica
  /\ SEND_THREAD_CNT \in Nat \ {0} /\ MESSAGE_PER_BUFFER \in Nat \ {0} /\ MaxMsg \in Nat

Node     == Replica \cup {Client}
Output   == 0 .. (SEND_THREAD_CNT - 1)
Serves(t) == {d \in Node : d % SEND_THREAD_CNT = t}

(* A GENERIC forces its buffer, and so does a message with force set,      *)
(* which is a SYNC of instance 0; a PROPOSAL or another SYNC does not, and *)
(* neither does a response to the client.                                  *)
Type    == {"GENERIC", "SYNC", "CL_RSP"}
Message == [id : 1 .. MaxMsg, from : Producer, type : Type, force : BOOLEAN, dest : SUBSET Node]

VARIABLES
  sent,                 \* all messages, in the order their senders began to enqueue them
  pushing,              \* what a producer has to push still, and to which queues
  m_queue,
  copying,              \* what an output thread has to copy still, and to which buffers
  buffer, force,
  warmup_done,
  wire                  \* what was sent to a node

vars == <<sent, pushing, m_queue, copying, buffer, force, warmup_done, wire>>

TypeOK ==
  /\ sent \in Seq(Message)
  /\ pushing \in [Producer -> Seq(Output \X Message)]
  /\ m_queue \in [Output -> Seq(Message)]
  /\ copying \in [Output -> Seq(Node \X Message)]
  /\ buffer \in [Node -> Seq(Message)] /\ \A d \in Node : Len(buffer[d]) <= MESSAGE_PER_BUFFER
  /\ force \in [Node -> BOOLEAN]
  /\ warmup_done \in BOOLEAN
  /\ wire \in [Node -> Seq(Message)]

Init ==
  /\ sent = <<>> /\ pushing = [p \in Producer |-> <<>>]
  /\ m_queue = [t \in Output |-> <<>>]
  /\ copying = [t \in Output |-> <<>>]
  /\ buffer = [d \in Node |-> <<>>] /\ force = [d \in Node |-> FALSE]
  /\ warmup_done = FALSE
  /\ wire = [d \in Node |-> <<>>]
-----------------------------------------------------------------------------
(* MessageQueue::enqueue: the queues of all output threads, or of one when *)
(* there is one destination.  All queues but the last get a copy made      *)
(* through a byte buffer, in which force is not a field.                   *)
deep_copy_msg(m) == [m EXCEPT !.force = FALSE]

(* Mutant: a message for one node goes to the queue of the first thread.   *)
Queues_First(m) == IF Cardinality(m.dest) = 1 THEN {0} ELSE Output

Queues(m) == {t \in Output : Cardinality(m.dest) = 1 => \E d \in m.dest : d \in Serves(t)}

enqueue(p, type, forced, dest) ==
  /\ Len(sent) < MaxMsg /\ pushing[p] = <<>>
  /\ forced => type = "SYNC"
  /\ dest # {} /\ dest \subseteq (IF type = "CL_RSP" THEN {Client} ELSE Replica)
  /\ LET m == [id |-> Len(sent) + 1, from |-> p, type |-> type, force |-> forced, dest |-> dest]
         last == SEND_THREAD_CNT - 1
     IN  /\ sent' = Append(sent, m)
         /\ pushing' = [pushing EXCEPT ![p] = [i \in 1 .. Cardinality(Queues(m)) |->
                          LET t == Ascending(Queues(m))[i]
                          IN  <<t, IF t = last THEN m ELSE deep_copy_msg(m)>>]]
  /\ UNCHANGED <<m_queue, copying, buffer, force, warmup_done, wire>>

push(p) ==
  /\ pushing[p] # <<>>
  /\ LET t == Head(pushing[p])[1] IN
     m_queue' = [m_queue EXCEPT ![t] = Append(@, Head(pushing[p])[2])]
  /\ pushing' = [pushing EXCEPT ![p] = Tail(@)]
  /\ UNCHANGED <<sent, copying, buffer, force, warmup_done, wire>>
-----------------------------------------------------------------------------
(* The output thread takes a message for the nodes it serves. *)
dequeue(t) ==
  /\ copying[t] = <<>> /\ m_queue[t] # <<>>
  /\ LET m == Head(m_queue[t])
         nodes == Ascending(m.dest \cap Serves(t))
     IN  copying' = [copying EXCEPT ![t] = [i \in DOMAIN nodes |-> <<nodes[i], m>>]]
  /\ m_queue' = [m_queue EXCEPT ![t] = Tail(@)]
  /\ UNCHANGED <<sent, pushing, buffer, force, warmup_done, wire>>

(* Mutant: only a full buffer is sent. *)
ready_Full(cnt, forced) == cnt = MESSAGE_PER_BUFFER

ready(cnt, forced) ==
  \/ warmup_done /\ (cnt = MESSAGE_PER_BUFFER \/ (forced /\ cnt > 0))
  \/ ~warmup_done /\ cnt > 0

(* The copy of a message to a buffer, and check_and_send_batches.  force   *)
(* stays set when the buffer is sent during the warm-up.                   *)
copy_to_buf(t) ==
  /\ copying[t] # <<>>
  /\ LET d == Head(copying[t])[1]
         m == Head(copying[t])[2]
         forced == force[d] \/ m.type = "GENERIC" \/ m.force
         filled == [buffer EXCEPT ![d] = Append(@, m)]
         flags  == [force EXCEPT ![d] = forced]
         Go == {e \in Serves(t) : ready(Len(filled[e]), flags[e])}
     IN  /\ buffer' = [e \in Node |-> IF e \in Go THEN <<>> ELSE filled[e]]
         /\ wire' = [e \in Node |-> IF e \in Go THEN wire[e] \o filled[e] ELSE wire[e]]
         /\ force' = [e \in Node |-> flags[e] /\ ~(warmup_done /\ e \in Go)]
  /\ copying' = [copying EXCEPT ![t] = Tail(@)]
  /\ UNCHANGED <<sent, pushing, m_queue, warmup_done>>

is_warmup_done ==
  /\ ~warmup_done /\ warmup_done' = TRUE
  /\ UNCHANGED <<sent, pushing, m_queue, copying, buffer, force, wire>>
-----------------------------------------------------------------------------
OutputThread(t) == dequeue(t) \/ copy_to_buf(t)

Next ==
  \/ \E p \in Producer, type \in Type, forced \in BOOLEAN, dest \in SUBSET Node :
       enqueue(p, type, forced, dest)
  \/ \E p \in Producer : push(p)
  \/ \E t \in Output : OutputThread(t)
  \/ is_warmup_done

Spec == Init /\ [][Next]_vars
-----------------------------------------------------------------------------
Out(d) == wire[d] \o buffer[d]

(* A node gets the messages of a thread in the order the thread sent them, *)
(* none twice and none left out, although several threads fill several     *)
(* queues at the same time: in front of a message, on the wire and in the  *)
(* buffer, there are exactly the messages its thread sent to the node      *)
(* before it.                                                              *)
InOrder ==
  \A d \in Node : \A i \in DOMAIN Out(d) :
    LET m == Out(d)[i] IN
    /\ m.id \in DOMAIN sent /\ sent[m.id].from = m.from /\ d \in sent[m.id].dest
    /\ {Out(d)[j].id : j \in {j \in 1 .. (i - 1) : Out(d)[j].from = m.from}}
         = {k \in 1 .. (m.id - 1) : sent[k].from = m.from /\ d \in sent[k].dest}

(* No buffer waits that is full or holds a GENERIC, so only votes,         *)
(* proposals and responses wait, and fewer than MESSAGE_PER_BUFFER of      *)
(* them.  A vote with force set does not wait either if its node is served *)
(* by the last thread; the other threads' copies have lost the flag.       *)
OnlyUnforcedWait ==
  \A d \in Node :
    /\ Len(buffer[d]) < MESSAGE_PER_BUFFER
    /\ \A i \in DOMAIN buffer[d] : buffer[d][i].type # "GENERIC" /\ ~buffer[d][i].force
=============================================================================

------------------------------- MODULE Client -------------------------------
(***************************************************************************)
(* A client: one thread fills batches and sends them to the replicas in    *)
(* turn, and one input thread per replica counts the responses.  A place   *)
(* in flight is taken for every transaction, and one per replica for every *)
(* batch; f + 1 responses give them back.  Every lock held is a step.      *)
(***************************************************************************)
EXTENDS Integers, Sequences, FiniteSetsExt, Functions

CONSTANTS
  NODE_CNT,
  BATCH_SIZE,
  MAX_TXN_IN_FLIGHT,
  MESSAGE_PER_BUFFER,
  Silent,           \* replicas that neither propose nor answer
  MaxBatch          \* bound: the number of batches sent

Node  == 0 .. (NODE_CNT - 1)
Batch == 1 .. MaxBatch

(* With a single replica f + 1 is one, and the first response completes no *)
(* batch.                                                                  *)
ASSUME ConstantsAssumption ==
  /\ NODE_CNT \in Nat /\ NODE_CNT >= 2 /\ BATCH_SIZE \in Nat \ {0} /\ MaxBatch \in Nat
  /\ MAX_TXN_IN_FLIGHT \in Nat /\ MAX_TXN_IN_FLIGHT >= BATCH_SIZE
  /\ MESSAGE_PER_BUFFER \in Nat \ {0}
  /\ Silent \subseteq Node

(* f is rounded up, g_min_invalid_nodes. *)
fp1 == (NODE_CNT + 1) \div 3 + 1

VARIABLES
  (* the client thread *)
  pc, next_to_send, addMore,
  dest,                     \* the replica each batch sent went to
  (* shared, each with a lock of its own *)
  in_round,                 \* batches in flight to a replica
  num_inflight_txns,        \* transactions in flight
  client_responses_count, client_responses_directory,
  executed,                 \* the batches in the order the replicas execute them
  (* the input thread of a replica *)
  received,                 \* the number of responses it has taken
  completing,               \* the batch it completes, 0 if none
  todo                      \* steps left to complete it: dec_inflight, remove, dec_in_round

client    == <<pc, next_to_send, addMore, dest>>
responses == <<client_responses_count, client_responses_directory>>
input     == <<received, completing, todo>>
vars      == <<client, in_round, num_inflight_txns, responses, executed, input>>

sent == Cardinality(DOMAIN dest)

limit(n) ==
  LET batches == MAX_TXN_IN_FLIGHT \div BATCH_SIZE
      share   == batches \div NODE_CNT + (IF batches % NODE_CNT > n THEN 1 ELSE 0)
  IN  Max({1, share})

TypeOK ==
  /\ pc \in {"choose", "add", "send"}
  /\ next_to_send \in Node
  /\ addMore \in 0 .. BATCH_SIZE
  /\ sent \in 0 .. MaxBatch /\ dest \in [1 .. sent -> Node]
  /\ in_round \in [Node -> 0 .. MaxBatch]
  /\ num_inflight_txns \in 0 .. MAX_TXN_IN_FLIGHT
  /\ client_responses_count \in [Batch -> 0 .. NODE_CNT]
  /\ client_responses_directory \subseteq Batch
  /\ executed \in Seq(Batch)
  /\ received \in [Node -> 0 .. MaxBatch]
  /\ completing \in [Node -> 0 .. MaxBatch]
  /\ todo \in [Node -> 0 .. (BATCH_SIZE + 2)]

Init ==
  /\ pc = "choose" /\ next_to_send = 0 /\ addMore = 0 /\ dest = <<>>
  /\ in_round = [n \in Node |-> 0] /\ num_inflight_txns = 0
  /\ client_responses_count = [b \in Batch |-> 0]
  /\ client_responses_directory = {}
  /\ executed = <<>> /\ received = [n \in Node |-> 0]
  /\ completing = [n \in Node |-> 0] /\ todo = [n \in Node |-> 0]
-----------------------------------------------------------------------------
(* Mutant: the client waits for the replica whose turn it is. *)
choose_NoSkip ==
  /\ pc = "choose" /\ sent < MaxBatch
  /\ in_round[next_to_send] # limit(next_to_send)
  /\ pc' = "add"
  /\ UNCHANGED <<next_to_send, addMore, dest, in_round, num_inflight_txns, responses, executed, input>>

(* The loop of ClientThread::run.  A replica with a full share is skipped. *)
choose ==
  /\ pc = "choose" /\ sent < MaxBatch
  /\ \/ /\ in_round[next_to_send] = limit(next_to_send)
        /\ next_to_send' = (next_to_send + 1) % NODE_CNT
        /\ UNCHANGED pc
     \/ /\ in_round[next_to_send] # limit(next_to_send)
        /\ pc' = "add"
        /\ UNCHANGED next_to_send
  /\ UNCHANGED <<addMore, dest, in_round, num_inflight_txns, responses, executed, input>>

(* Mutant: the transactions in flight are not bounded. *)
inc_inflight_NoLimit ==
  /\ pc = "add"
  /\ num_inflight_txns' = num_inflight_txns + 1
  /\ addMore' = addMore + 1
  /\ pc' = IF addMore' = BATCH_SIZE THEN "send" ELSE "choose"
  /\ UNCHANGED <<next_to_send, dest, in_round, responses, executed, input>>

(* A query is added to the batch, unless too many are in flight. *)
inc_inflight ==
  /\ pc = "add"
  /\ \/ /\ num_inflight_txns < MAX_TXN_IN_FLIGHT
        /\ num_inflight_txns' = num_inflight_txns + 1
        /\ addMore' = addMore + 1
        /\ pc' = IF addMore' = BATCH_SIZE THEN "send" ELSE "choose"
     \/ /\ num_inflight_txns >= MAX_TXN_IN_FLIGHT
        /\ pc' = "choose"
        /\ UNCHANGED <<num_inflight_txns, addMore>>
  /\ UNCHANGED <<next_to_send, dest, in_round, responses, executed, input>>

(* The batch is full. *)
send_batch ==
  /\ pc = "send" /\ pc' = "choose"
  /\ in_round' = [in_round EXCEPT ![next_to_send] = @ + 1]
  /\ dest' = [b \in 1 .. (sent + 1) |-> IF b > sent THEN next_to_send ELSE dest[b]]
  /\ next_to_send' = (next_to_send + 1) % NODE_CNT
  /\ addMore' = 0
  /\ UNCHANGED <<num_inflight_txns, responses, executed, input>>
-----------------------------------------------------------------------------
(* The replicas: they execute the batches of live replicas in one order,   *)
(* and each answers in that order.                                         *)
Execute(b) ==
  /\ b \in DOMAIN dest \ Range(executed) /\ dest[b] \notin Silent
  /\ executed' = Append(executed, b)
  /\ UNCHANGED <<client, in_round, num_inflight_txns, responses, input>>

(* Responses force no buffer: a replica sends them when enough are there.  *)
(* During the warm-up every response is sent alone, MESSAGE_PER_BUFFER = 1. *)
Answered == (Len(executed) \div MESSAGE_PER_BUFFER) * MESSAGE_PER_BUFFER

(* Mutant: at least fp1 responses. *)
enough_AtLeast(response_count) == response_count >= fp1

enough(response_count) == response_count = fp1

(* The next response of replica n is counted; the fp1-th for a batch lets  *)
(* this thread complete the batch.  The first one is kept, and responses   *)
(* are ignored once it is gone.                                            *)
count_response(n) ==
  LET b == executed[received[n] + 1]
      response_count == client_responses_count[b] + 1
      Count == client_responses_count' = [client_responses_count EXCEPT ![b] = response_count]
  IN  /\ todo[n] = 0
      /\ n \notin Silent /\ received[n] < Answered
      /\ received' = [received EXCEPT ![n] = @ + 1]
      /\ \/ /\ b \in client_responses_directory
            /\ Count
            /\ \/ /\ enough(response_count)
                  /\ completing' = [completing EXCEPT ![n] = b]
                  /\ todo' = [todo EXCEPT ![n] = BATCH_SIZE + 2]
               \/ ~enough(response_count) /\ UNCHANGED <<completing, todo>>
            /\ UNCHANGED client_responses_directory
         \/ /\ b \notin client_responses_directory /\ client_responses_count[b] = 0
            /\ Count
            /\ client_responses_directory' = client_responses_directory \cup {b}
            /\ UNCHANGED <<completing, todo>>
         \/ /\ b \notin client_responses_directory /\ client_responses_count[b] > 0
            /\ UNCHANGED <<responses, completing, todo>>
      /\ UNCHANGED <<client, in_round, num_inflight_txns, executed>>

(* The rest of client_recv_loop for a batch with enough responses: give    *)
(* back the places of its transactions, drop the response kept, give back  *)
(* the place of the batch.                                                 *)
Done(n) == todo' = [todo EXCEPT ![n] = @ - 1]

(* Mutant: the place of the last transaction is not given back. *)
dec_inflight_Leak(n) ==
  /\ todo[n] > 2 /\ Done(n)
  /\ num_inflight_txns' = IF todo[n] > 3 THEN num_inflight_txns - 1 ELSE num_inflight_txns
  /\ UNCHANGED <<client, in_round, responses, executed, received, completing>>

dec_inflight(n) ==
  /\ todo[n] > 2 /\ Done(n)
  /\ num_inflight_txns' = IF num_inflight_txns > 0 THEN num_inflight_txns - 1 ELSE 0
  /\ UNCHANGED <<client, in_round, responses, executed, received, completing>>

remove_response(n) ==
  /\ todo[n] = 2 /\ Done(n)
  /\ client_responses_directory' = client_responses_directory \ {completing[n]}
  /\ UNCHANGED <<client, in_round, num_inflight_txns, client_responses_count, executed,
                 received, completing>>

(* The replica is the primary of the view in the response, which is the    *)
(* one that proposed the batch.                                            *)
dec_in_round(n) ==
  /\ todo[n] = 1 /\ Done(n)
  /\ in_round' = [in_round EXCEPT ![dest[completing[n]]] = @ - 1]
  /\ completing' = [completing EXCEPT ![n] = 0]
  /\ UNCHANGED <<client, num_inflight_txns, responses, executed, received>>
-----------------------------------------------------------------------------
ClientThread   == choose \/ inc_inflight \/ send_batch
InputThread(n) == count_response(n) \/ dec_inflight(n) \/ remove_response(n) \/ dec_in_round(n)

Replicas       == \E b \in Batch : Execute(b)

Next == ClientThread \/ Replicas \/ \E n \in Node : InputThread(n)

Spec == Init /\ [][Next]_vars

(* The threads run for ever, and the replicas answer what live replicas    *)
(* propose.                                                                *)
FairSpec == Spec /\ WF_vars(ClientThread) /\ WF_vars(Replicas)
            /\ \A n \in Node : WF_vars(InputThread(n))
-----------------------------------------------------------------------------
Responders(b)  == {n \in Node : \E i \in 1 .. received[n] : executed[i] = b}
Completer(b)   == {n \in Node : completing[n] = b}
Enough         == {b \in DOMAIN dest : Cardinality(Responders(b)) >= fp1}

(* "in_round is the value of batches that are sent but have not received   *)
(* enough responses": a batch gives its place back once, after f + 1       *)
(* responses, whichever thread counted the last of them and however many   *)
(* more arrive while the batch is being completed or after that.           *)
InRound ==
  \A n \in Node :
    in_round[n] = Cardinality({b \in DOMAIN dest :
                                 dest[b] = n /\ (b \notin Enough \/ Completer(b) # {})})

(* The places of transactions and of batches agree: what is in flight is   *)
(* the batch being filled and the transactions of the batches sent, less   *)
(* those the completing threads have given back already.  So dec_inflight, *)
(* whose result is not initialised when nothing is in flight, is never     *)
(* called in that case.                                                    *)
InFlight ==
  num_inflight_txns = addMore +
    Cardinality({x \in (1 .. sent) \X (1 .. BATCH_SIZE) :
                   x[1] \notin Enough \/ \E n \in Completer(x[1]) : x[2] <= todo[n] - 2})

(* The client is never stuck: a silent replica keeps its share of the      *)
(* places and no more, so the client goes on with the others, and as long  *)
(* as the other places can fill a buffer of responses every batch is sent  *)
(* and every batch answered is completed.                                  *)
AllSent ==
  <>(/\ sent = MaxBatch
     /\ \A n \in Node : in_round[n] =
          Cardinality({b \in DOMAIN dest : dest[b] = n /\ \A i \in 1 .. Answered : executed[i] # b}))
=============================================================================

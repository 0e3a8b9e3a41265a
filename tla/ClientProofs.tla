---------------------------- MODULE ClientProofs ----------------------------
(***************************************************************************)
(* Proofs about Client, for any number of replicas, batches and            *)
(* transactions: the types, the places of batches and the places of        *)
(* transactions.                                                           *)
(*                                                                         *)
(* The properties speak of the responses that arrived, the threads of two  *)
(* maps, which are not read and written together.  The invariant says what *)
(* the maps know: the count of a batch whose response is kept is exact;    *)
(* when none is kept it is zero and there was no response, or it stopped   *)
(* at f + 1 or above.  So the count reaches f + 1 once, for one thread.    *)
(***************************************************************************)
EXTENDS Client, TallyProofs

(* How far the client thread is with a batch. *)
Filling ==
  /\ pc # "choose" => sent < MaxBatch
  /\ pc = "send" <=> addMore = BATCH_SIZE

(* The replicas execute what was sent, once, and answer what they execute. *)
Answers ==
  /\ \A i \in 1 .. Len(executed) : executed[i] \in DOMAIN dest
  /\ \A i, j \in 1 .. Len(executed) : executed[i] = executed[j] => i = j
  /\ \A n \in Node : received[n] <= Len(executed)

Responses(b) == Cardinality(Responders(b))

(* What the maps know about the responses to a batch. *)
Kept(b) == client_responses_count[b] > 0 /\ client_responses_count[b] = Responses(b)
None(b) == client_responses_count[b] = 0 /\ Responses(b) = 0
Gone(b) == client_responses_count[b] >= fp1 /\ client_responses_count[b] <= Responses(b)

Counting ==
  \A b \in Batch : IF b \in client_responses_directory THEN Kept(b) ELSE None(b) \/ Gone(b)

(* A batch is completed by one thread. *)
Completing ==
  \A n \in Node :
    /\ completing[n] # 0 <=> todo[n] > 0
    /\ completing[n] # 0 => /\ completing[n] \in DOMAIN dest
                            /\ client_responses_count[completing[n]] >= fp1
                            /\ \A m \in Node : completing[m] = completing[n] => m = n

Inv == TypeOK /\ Filling /\ Answers /\ Counting /\ Completing /\ InRound
-----------------------------------------------------------------------------
LEMMA Constants ==
  /\ NODE_CNT \in Nat /\ NODE_CNT >= 2 /\ BATCH_SIZE \in Nat /\ BATCH_SIZE > 0 /\ MaxBatch \in Nat
  /\ MAX_TXN_IN_FLIGHT \in Nat /\ MESSAGE_PER_BUFFER \in Nat /\ MESSAGE_PER_BUFFER > 0
  BY ConstantsAssumption

LEMMA Majority == fp1 \in Nat /\ fp1 >= 2
<1>1. NODE_CNT + 1 \in Nat /\ NODE_CNT + 1 >= 3
  BY Constants
<1>2. (NODE_CNT + 1) \div 3 >= 1 /\ (NODE_CNT + 1) \div 3 \in Int
  BY <1>1
<1>3. QED
  BY <1>2 DEF fp1

LEMMA NodeType == IsFiniteSet(Node) /\ Cardinality(Node) = NODE_CNT /\ Node \subseteq Nat /\ 0 \in Node
<1>1. IsFiniteSet(Node) /\ Cardinality(Node) = IF 0 > NODE_CNT - 1 THEN 0 ELSE (NODE_CNT - 1) - 0 + 1
  BY Constants, FS_Interval DEF Node
<1>2. QED
  BY <1>1, Constants DEF Node

LEMMA NextNode ==
  ASSUME NEW n \in Node
  PROVE  (n + 1) % NODE_CNT \in Node
<1>1. n + 1 \in Int
  BY NodeType
<1>2. QED
  BY <1>1, Constants, Remainder DEF Node

LEMMA Types ==
  ASSUME TypeOK
  PROVE  /\ pc \in {"choose", "add", "send"} /\ next_to_send \in Node /\ addMore \in 0 .. BATCH_SIZE
         /\ sent \in 0 .. MaxBatch /\ dest \in [1 .. sent -> Node]
         /\ in_round \in [Node -> 0 .. MaxBatch] /\ num_inflight_txns \in 0 .. MAX_TXN_IN_FLIGHT
         /\ client_responses_count \in [Batch -> 0 .. NODE_CNT]
         /\ client_responses_directory \subseteq Batch /\ executed \in Seq(Batch)
         /\ received \in [Node -> 0 .. MaxBatch] /\ completing \in [Node -> 0 .. MaxBatch]
         /\ todo \in [Node -> 0 .. (BATCH_SIZE + 2)]
  BY DEF TypeOK

(* What was sent. *)
LEMMA SentType ==
  ASSUME TypeOK
  PROVE  sent \in Nat /\ sent <= MaxBatch /\ DOMAIN dest = 1 .. sent /\ DOMAIN dest \subseteq Batch
<1>1. sent \in 0 .. MaxBatch /\ DOMAIN dest = 1 .. sent
  BY DEF TypeOK
<1> HIDE DEF sent
<1>2. QED
  BY <1>1, Constants DEF Batch

LEMMA RespondersType ==
  ASSUME NEW b
  PROVE  /\ IsFiniteSet(Responders(b)) /\ Responses(b) \in Nat /\ Responses(b) <= NODE_CNT
<1>1. Responders(b) \subseteq Node
  BY DEF Responders
<1>2. IsFiniteSet(Responders(b)) /\ Cardinality(Responders(b)) <= NODE_CNT
  BY <1>1, NodeType, FS_Subset
<1>3. QED
  BY <1>2, FS_CardinalityType DEF Responses

LEMMA CountType ==
  ASSUME TypeOK
  PROVE  \A b \in Batch : client_responses_count[b] \in Nat
  BY Constants DEF TypeOK

(* The batches with enough responses, by their count. *)
LEMMA EnoughCount ==
  ASSUME TypeOK, Counting, NEW b \in DOMAIN dest
  PROVE  b \in Enough <=> client_responses_count[b] >= fp1
<1>1. b \in Batch
  BY SentType
<1>2. client_responses_count[b] \in Nat
  BY <1>1, CountType
<1>3. Responses(b) \in Nat
  BY RespondersType
<1>4. Kept(b) \/ None(b) \/ Gone(b)
  BY <1>1 DEF Counting
<1>5. Responses(b) >= fp1 <=> client_responses_count[b] >= fp1
  BY <1>2, <1>3, <1>4, Majority DEF Kept, None, Gone
<1>6. QED
  BY <1>5 DEF Enough, Responses

(* The batches that hold a place of their replica. *)
Open(n) == {b \in DOMAIN dest : /\ dest[b] = n
                                /\ client_responses_count[b] < fp1 \/ \E m \in Node : completing[m] = b}

LEMMA OpenIs ==
  ASSUME TypeOK, Counting, NEW n \in Node
  PROVE  {b \in DOMAIN dest : dest[b] = n /\ (b \notin Enough \/ Completer(b) # {})} = Open(n)
<1>1. ASSUME NEW b \in DOMAIN dest
      PROVE  (b \notin Enough \/ Completer(b) # {})
               <=> (client_responses_count[b] < fp1 \/ \E m \in Node : completing[m] = b)
  <2>1. b \in Enough <=> client_responses_count[b] >= fp1
    BY EnoughCount
  <2>2. client_responses_count[b] \in Nat
    BY SentType, CountType
  <2>3. Completer(b) # {} <=> \E m \in Node : completing[m] = b
    BY DEF Completer
  <2>4. QED
    BY <2>1, <2>2, <2>3, Majority
<1>2. QED
  BY <1>1 DEF Open

LEMMA OpenType ==
  ASSUME TypeOK, NEW n \in Node
  PROVE  IsFiniteSet(Open(n)) /\ Cardinality(Open(n)) \in Nat
<1>1. Open(n) \subseteq Batch
  BY SentType DEF Open
<1>2. IsFiniteSet(Batch)
  BY Constants, FS_Interval DEF Batch
<1>3. QED
  BY <1>1, <1>2, FS_Subset, FS_CardinalityType

LEMMA InitInv == Init => Inv
<1> SUFFICES ASSUME Init PROVE Inv
  OBVIOUS
<1>1. sent = 0 /\ dest = <<>> /\ DOMAIN dest = {}
  BY FS_EmptySet DEF Init, sent
<1>2. TypeOK
  <2>1. dest \in [1 .. 0 -> Node]
    BY <1>1
  <2> HIDE DEF sent
  <2>2. QED
    BY <1>1, <2>1, Constants, NodeType DEF Init, TypeOK
<1>3. Filling
  BY Constants DEF Init, Filling
<1>4. Answers
  BY NodeType DEF Init, Answers
<1>5. Counting
  <2> SUFFICES ASSUME NEW b \in Batch PROVE b \notin client_responses_directory /\ None(b)
    BY DEF Counting
  <2>1. Responders(b) = {}
    BY DEF Init, Responders
  <2>2. QED
    BY <2>1, FS_EmptySet DEF Init, None, Responses
<1>6. Completing
  BY DEF Init, Completing
<1>7. InRound
  <2> SUFFICES ASSUME NEW n \in Node
               PROVE  in_round[n] = Cardinality({b \in DOMAIN dest : dest[b] = n /\ (b \notin Enough \/ Completer(b) # {})})
    BY DEF InRound
  <2>1. {b \in DOMAIN dest : dest[b] = n /\ (b \notin Enough \/ Completer(b) # {})} = {}
    BY <1>1
  <2>2. QED
    BY <2>1, FS_EmptySet DEF Init
<1>8. QED
  BY <1>2, <1>3, <1>4, <1>5, <1>6, <1>7 DEF Inv
-----------------------------------------------------------------------------
LEMMA Actions ==
  ASSUME [Next]_vars
  PROVE  \/ choose \/ inc_inflight \/ send_batch
         \/ \E b \in Batch : Execute(b)
         \/ \E n \in Node : \/ count_response(n) \/ dec_inflight(n)
                            \/ remove_response(n) \/ dec_in_round(n)
         \/ UNCHANGED vars
  BY DEF Next, ClientThread, Replicas, InputThread

(* A buffer holds answers to batches that were executed. *)
LEMMA AnsweredBound ==
  ASSUME TypeOK
  PROVE  Answered \in Int /\ Answered <= Len(executed)
<1>1. PICK l \in Nat : l = Len(executed)
  BY DEF TypeOK
<1>2. PICK d \in Int : d = l \div MESSAGE_PER_BUFFER
  BY Constants, Remainder
<1>3. PICK r \in 0 .. (MESSAGE_PER_BUFFER - 1) : r = l % MESSAGE_PER_BUFFER
  BY Constants, Remainder
<1>4. l = MESSAGE_PER_BUFFER * d + r
  BY <1>2, <1>3, Constants, Remainder
<1>5. MESSAGE_PER_BUFFER * d = d * MESSAGE_PER_BUFFER /\ d * MESSAGE_PER_BUFFER \in Int
  BY Constants
<1>6. Answered = d * MESSAGE_PER_BUFFER
  BY <1>1, <1>2 DEF Answered
<1>7. d * MESSAGE_PER_BUFFER <= l
  BY <1>3, <1>4, <1>5, Constants
<1>8. QED
  BY <1>1, <1>5, <1>6, <1>7

(* The three ways a response is counted. *)
Again(n, b) ==
  /\ b \in client_responses_directory /\ UNCHANGED client_responses_directory
  /\ client_responses_count' = [client_responses_count EXCEPT ![b] = client_responses_count[b] + 1]
  /\ \/ /\ client_responses_count[b] + 1 = fp1
        /\ completing' = [completing EXCEPT ![n] = b]
        /\ todo' = [todo EXCEPT ![n] = BATCH_SIZE + 2]
     \/ client_responses_count[b] + 1 # fp1 /\ UNCHANGED <<completing, todo>>
First(b) ==
  /\ b \notin client_responses_directory /\ client_responses_count[b] = 0
  /\ client_responses_count' = [client_responses_count EXCEPT ![b] = client_responses_count[b] + 1]
  /\ client_responses_directory' = client_responses_directory \cup {b}
  /\ UNCHANGED <<completing, todo>>
Late(b) ==
  /\ b \notin client_responses_directory /\ client_responses_count[b] > 0
  /\ UNCHANGED <<responses, completing, todo>>

LEMMA CountStep ==
  ASSUME TypeOK, Answers, NEW n \in Node, count_response(n)
  PROVE  \E b \in DOMAIN dest :
           /\ todo[n] = 0 /\ received[n] < Len(executed) /\ b = executed[received[n] + 1]
           /\ received' = [received EXCEPT ![n] = received[n] + 1]
           /\ UNCHANGED <<client, in_round, num_inflight_txns, executed>>
           /\ Again(n, b) \/ First(b) \/ Late(b)
<1>1. PICK r \in Nat : r = received[n]
  BY Constants DEF TypeOK
<1>2. PICK l \in Nat : l = Len(executed)
  BY DEF TypeOK
<1>3. r < l
  <2>1. r < Answered
    BY <1>1 DEF count_response
  <2>2. Answered \in Int /\ Answered <= l
    BY <1>2, AnsweredBound
  <2>3. QED
    BY <2>1, <2>2
<1>4. PICK b \in DOMAIN dest : b = executed[r + 1]
  <2>1. r + 1 \in 1 .. Len(executed)
    BY <1>2, <1>3
  <2>2. QED
    BY <2>1 DEF Answers
<1>5. /\ todo[n] = 0 /\ received' = [received EXCEPT ![n] = received[n] + 1]
      /\ UNCHANGED <<client, in_round, num_inflight_txns, executed>>
  BY DEF count_response
<1>6. Again(n, b) \/ First(b) \/ Late(b)
  BY <1>1, <1>4 DEF count_response, enough, Again, First, Late
<1>7. QED
  BY <1>1, <1>2, <1>3, <1>4, <1>5, <1>6

(* A response more for the batch it is about, none for the others. *)
LEMMA ResponsesMore ==
  ASSUME TypeOK, Answers, NEW n \in Node, NEW b, received[n] < Len(executed),
         b = executed[received[n] + 1], received' = [received EXCEPT ![n] = received[n] + 1],
         UNCHANGED executed
  PROVE  /\ Responses(b)' = Responses(b) + 1
         /\ \A c : c # b => Responses(c)' = Responses(c)
<1>1. PICK r \in Nat : r = received[n]
  BY Constants DEF TypeOK
<1>2. PICK l \in Nat : l = Len(executed)
  BY DEF TypeOK
<1>3. r < l /\ b = executed[r + 1]
  BY <1>1, <1>2
<1>4. \A m \in Node : received'[m] = IF m = n THEN r + 1 ELSE received[m]
  BY <1>1 DEF TypeOK
<1>5. ASSUME NEW c, c # b PROVE Responders(c)' = Responders(c)
  <2>1. ASSUME NEW m \in Node
        PROVE  (\E i \in 1 .. received'[m] : executed[i] = c) <=> (\E i \in 1 .. received[m] : executed[i] = c)
    <3>1. CASE m # n
      BY <1>4, <3>1
    <3>2. CASE m = n
      <4>1. ASSUME NEW i \in 1 .. (r + 1), executed[i] = c PROVE i \in 1 .. r
        BY <1>3, <1>5, <4>1
      <4>2. 1 .. r \subseteq 1 .. (r + 1)
        OBVIOUS
      <4>3. QED
        BY <1>1, <1>4, <3>2, <4>1, <4>2
    <3>3. QED
      BY <3>1, <3>2
  <2>2. QED
    BY <2>1 DEF Responders
<1>6. n \notin Responders(b)
  <2>1. SUFFICES ASSUME NEW i \in 1 .. r, executed[i] = b PROVE FALSE
    BY <1>1 DEF Responders
  <2>2. i \in 1 .. l /\ r + 1 \in 1 .. l /\ executed[i] = executed[r + 1]
    BY <1>3, <2>1
  <2>3. i = r + 1
    BY <1>2, <2>2 DEF Answers
  <2>4. QED
    BY <2>3
<1>7. Responders(b)' = Responders(b) \cup {n}
  <2>1. ASSUME NEW m \in Node
        PROVE  (\E i \in 1 .. received'[m] : executed[i] = b) <=> (m = n \/ \E i \in 1 .. received[m] : executed[i] = b)
    <3>1. CASE m # n
      BY <1>4, <3>1
    <3>2. CASE m = n
      <4>1. r + 1 \in 1 .. (r + 1)
        OBVIOUS
      <4>2. QED
        BY <1>3, <1>4, <3>2, <4>1
    <3>3. QED
      BY <3>1, <3>2
  <2>2. Responders(b)' = {m \in Node : \E i \in 1 .. received'[m] : executed[i] = b}
    BY DEF Responders
  <2>3. QED
    BY <2>1, <2>2 DEF Responders
<1>8. Responses(b)' = Responses(b) + 1
  BY <1>6, <1>7, RespondersType, FS_AddElement DEF Responses
<1>9. QED
  BY <1>5, <1>8 DEF Responses

LEMMA ResponsesSame ==
  ASSUME TypeOK, Answers, UNCHANGED received, UNCHANGED executed \/ \E b \in Batch : Execute(b)
  PROVE  \A c : Responses(c)' = Responses(c)
<1>1. PICK l \in Nat : l = Len(executed)
  BY DEF TypeOK
<1>2. \A i \in 1 .. l : executed'[i] = executed[i]
  <2>1. executed \in Seq(Batch)
    BY DEF TypeOK
  <2>2. executed' = executed \/ \E b \in Batch : executed' = Append(executed, b)
    BY DEF Execute
  <2>3. QED
    BY <1>1, <2>1, <2>2
<1>3. ASSUME NEW m \in Node, NEW i \in 1 .. received[m] PROVE executed'[i] = executed[i]
  <2>1. received[m] \in Nat /\ received[m] <= l
    BY <1>1, Constants DEF Answers, TypeOK
  <2>2. i \in 1 .. l
    BY <2>1
  <2>3. QED
    BY <1>2, <2>2
<1>4. ASSUME NEW c PROVE Responders(c)' = Responders(c)
  BY <1>3 DEF Responders
<1>5. QED
  BY <1>4 DEF Responses
-----------------------------------------------------------------------------
(* What the steps leave alone. *)
LEMMA SendStep ==
  ASSUME TypeOK, Filling, send_batch
  PROVE  /\ sent' = sent + 1 /\ sent + 1 \in Batch /\ DOMAIN dest' = 1 .. (sent + 1)
         /\ dest'[sent + 1] = next_to_send /\ \A b \in 1 .. sent : dest'[b] = dest[b]
         /\ dest' \in [1 .. (sent + 1) -> Node]
<1>1. PICK s \in Nat : s = sent
  BY SentType
<1>2. s < MaxBatch
  BY <1>1 DEF send_batch, Filling
<1>3. dest' = [b \in 1 .. (s + 1) |-> IF b > s THEN next_to_send ELSE dest[b]]
  BY <1>1 DEF send_batch
<1>4. Cardinality(1 .. (s + 1)) = s + 1
  <2>1. Cardinality(1 .. (s + 1)) = IF 1 > s + 1 THEN 0 ELSE (s + 1) - 1 + 1
    BY FS_Interval
  <2>2. QED
    BY <2>1
<1>5. DOMAIN dest' = 1 .. (s + 1)
  BY <1>3
<1>6. sent' = s + 1
  BY <1>4, <1>5 DEF sent
<1>7. dest \in [1 .. s -> Node] /\ next_to_send \in Node
  BY <1>1 DEF TypeOK
<1>8. dest'[s + 1] = next_to_send /\ \A b \in 1 .. s : dest'[b] = dest[b]
  BY <1>3
<1>9. dest' \in [1 .. (s + 1) -> Node]
  BY <1>3, <1>7
<1>10. s + 1 \in Batch
  BY <1>2, Constants DEF Batch
<1>11. QED
  BY <1>1, <1>5, <1>6, <1>8, <1>9, <1>10

LEMMA DestKept ==
  ASSUME [Next]_vars, ~send_batch
  PROVE  UNCHANGED <<dest, sent>>
<1>1. UNCHANGED dest
  <2>1. CASE choose \/ inc_inflight \/ UNCHANGED vars
    BY <2>1 DEF choose, inc_inflight, vars, client
  <2>2. CASE \E b \in Batch : Execute(b)
    BY <2>2 DEF Execute, client
  <2>3. CASE \E n \in Node : count_response(n) \/ dec_inflight(n) \/ remove_response(n) \/ dec_in_round(n)
    BY <2>3 DEF count_response, dec_inflight, remove_response, dec_in_round, client
  <2>4. QED
    BY <2>1, <2>2, <2>3, Actions
<1>2. QED
  BY <1>1 DEF sent

LEMMA ClientKept ==
  ASSUME [Next]_vars, ~choose, ~inc_inflight, ~send_batch
  PROVE  UNCHANGED client
<1>1. CASE \E b \in Batch : Execute(b)
  BY <1>1 DEF Execute
<1>2. CASE \E n \in Node : count_response(n) \/ dec_inflight(n) \/ remove_response(n) \/ dec_in_round(n)
  BY <1>2 DEF count_response, dec_inflight, remove_response, dec_in_round
<1>3. CASE UNCHANGED vars
  BY <1>3 DEF vars
<1>4. QED
  BY <1>1, <1>2, <1>3, Actions

LEMMA FillingNext ==
  ASSUME Inv, [Next]_vars
  PROVE  Filling'
<1>0. /\ pc \in {"choose", "add", "send"} /\ addMore \in 0 .. BATCH_SIZE
      /\ pc # "choose" => sent < MaxBatch
      /\ pc = "send" <=> addMore = BATCH_SIZE
  BY DEF Inv, TypeOK, Filling
<1>1. CASE choose
  <2>1. UNCHANGED sent
    BY <1>1 DEF choose, sent
  <2>2. pc = "choose" /\ sent < MaxBatch /\ UNCHANGED addMore /\ pc' \in {"choose", "add"}
    BY <1>1 DEF choose
  <2> HIDE DEF sent
  <2>3. QED
    BY <1>0, <2>1, <2>2 DEF Filling
<1>2. CASE inc_inflight
  <2>1. UNCHANGED sent
    BY <1>2 DEF inc_inflight, sent
  <2>2. CASE addMore' = addMore + 1 /\ pc' = IF addMore' = BATCH_SIZE THEN "send" ELSE "choose"
    BY <1>0, <1>2, <2>1, <2>2 DEF inc_inflight, Filling
  <2>3. CASE UNCHANGED addMore /\ pc' = "choose"
    BY <1>0, <1>2, <2>1, <2>3 DEF inc_inflight, Filling
  <2>4. QED
    BY <1>2, <2>2, <2>3 DEF inc_inflight
<1>3. CASE send_batch
  BY <1>3, Constants DEF send_batch, Filling
<1>4. CASE ~choose /\ ~inc_inflight /\ ~send_batch
  <2>1. UNCHANGED <<pc, addMore>>
    BY <1>4, ClientKept DEF client
  <2>2. UNCHANGED sent
    BY <1>4, DestKept
  <2> HIDE DEF sent
  <2>3. QED
    BY <1>0, <2>1, <2>2 DEF Filling
<1>5. QED
  BY <1>1, <1>2, <1>3, <1>4

LEMMA AnswersNext ==
  ASSUME Inv, [Next]_vars
  PROVE  Answers'
<1>0. /\ TypeOK /\ Answers /\ Filling /\ executed \in Seq(Batch)
      /\ received \in [Node -> 0 .. MaxBatch]
  BY DEF Inv, TypeOK
<1>1. /\ \A i \in 1 .. Len(executed) : executed[i] \in DOMAIN dest
      /\ \A i, j \in 1 .. Len(executed) : executed[i] = executed[j] => i = j
      /\ \A n \in Node : received[n] <= Len(executed)
  BY <1>0 DEF Answers
<1>2. DOMAIN dest \subseteq DOMAIN dest'
  <2>1. CASE send_batch
    <3>1. DOMAIN dest = 1 .. sent /\ DOMAIN dest' = 1 .. (sent + 1) /\ sent \in Nat
      BY <1>0, <2>1, SendStep, SentType
    <3> HIDE DEF sent
    <3>2. QED
      BY <3>1
  <2>2. QED
    BY <2>1, DestKept
<1>3. ASSUME NEW b \in Batch, Execute(b) PROVE Answers'
  <2>1. PICK l \in Nat : l = Len(executed)
    BY <1>0
  <2>2. b \in DOMAIN dest /\ b \notin Range(executed) /\ executed' = Append(executed, b) /\ UNCHANGED <<dest, received>>
    BY <1>3 DEF Execute, client, input
  <2>3. \A i \in 1 .. l : executed[i] # b
    BY <1>0, <2>1, <2>2 DEF Range
  <2>4. Len(executed') = l + 1 /\ executed'[l + 1] = b /\ \A i \in 1 .. l : executed'[i] = executed[i]
    BY <1>0, <2>1, <2>2
  <2>5. \A i \in 1 .. (l + 1) : i \in 1 .. l \/ i = l + 1
    OBVIOUS
  <2>6. \A i \in 1 .. (l + 1) : executed'[i] \in DOMAIN dest'
    BY <1>1, <2>1, <2>2, <2>4, <2>5
  <2>7. \A i, j \in 1 .. (l + 1) : executed'[i] = executed'[j] => i = j
    BY <1>1, <2>1, <2>3, <2>4, <2>5
  <2>8. \A n \in Node : received'[n] <= l + 1
    <3>1. \A n \in Node : received[n] \in Nat /\ received[n] <= l
      BY <1>0, <1>1, <2>1, Constants
    <3>2. QED
      BY <2>2, <3>1
  <2>9. QED
    BY <2>4, <2>6, <2>7, <2>8 DEF Answers
<1>4. ASSUME NEW n \in Node, count_response(n) PROVE Answers'
  <2>1. /\ received[n] < Len(executed) /\ received' = [received EXCEPT ![n] = received[n] + 1]
        /\ UNCHANGED <<dest, executed>>
    BY <1>0, <1>4, CountStep DEF client
  <2>2. PICK l \in Nat : l = Len(executed)
    BY <1>0
  <2>3. \A m \in Node : received[m] \in Nat
    BY <1>0, Constants
  <2>4. \A m \in Node : received'[m] <= l
    BY <1>0, <1>1, <2>1, <2>2, <2>3
  <2>5. QED
    BY <1>1, <2>1, <2>2, <2>4 DEF Answers
<1>5. CASE UNCHANGED <<executed, received>>
  BY <1>1, <1>2, <1>5 DEF Answers
<1>6. CASE choose \/ inc_inflight \/ send_batch \/ UNCHANGED vars
  BY <1>5, <1>6 DEF choose, inc_inflight, send_batch, vars, input
<1>7. ASSUME NEW n \in Node, dec_inflight(n) \/ remove_response(n) \/ dec_in_round(n) PROVE Answers'
  BY <1>5, <1>7 DEF dec_inflight, remove_response, dec_in_round
<1>8. QED
  BY <1>3, <1>4, <1>6, <1>7, Actions
-----------------------------------------------------------------------------
(* The count of a batch sent that no replica has executed. *)
LEMMA NoResponse ==
  ASSUME TypeOK, Answers, Counting, NEW b \in Batch, b \notin DOMAIN dest
  PROVE  client_responses_count[b] = 0
<1>1. \A i \in 1 .. Len(executed) : executed[i] # b
  BY DEF Answers
<1>2. Responders(b) = {}
  <2>1. SUFFICES ASSUME NEW n \in Node, NEW i \in 1 .. received[n], executed[i] = b PROVE FALSE
    BY DEF Responders
  <2>2. received[n] \in Nat /\ received[n] <= Len(executed) /\ Len(executed) \in Nat
    BY Constants DEF Answers, TypeOK
  <2>3. i \in 1 .. Len(executed)
    BY <2>2
  <2>4. QED
    BY <1>1, <2>1, <2>3
<1>3. Responses(b) = 0
  BY <1>2, FS_EmptySet DEF Responses
<1>4. Kept(b) \/ None(b) \/ Gone(b)
  BY DEF Counting
<1>5. client_responses_count[b] \in Nat
  BY CountType
<1>6. QED
  BY <1>3, <1>4, <1>5, Majority DEF Kept, None, Gone

LEMMA CountingNext ==
  ASSUME Inv, [Next]_vars
  PROVE  Counting'
<1>0. TypeOK /\ Answers /\ Counting /\ Completing
  BY DEF Inv
<1>1. /\ client_responses_count \in [Batch -> 0 .. NODE_CNT]
      /\ \A b \in Batch : client_responses_count[b] \in Nat
  BY <1>0, CountType, Types
<1>2. ASSUME NEW n \in Node, count_response(n) PROVE Counting'
  <2>1. PICK b \in DOMAIN dest :
          /\ received[n] < Len(executed) /\ b = executed[received[n] + 1]
          /\ received' = [received EXCEPT ![n] = received[n] + 1]
          /\ UNCHANGED executed
          /\ Again(n, b) \/ First(b) \/ Late(b)
    BY <1>0, <1>2, CountStep
  <2>2. b \in Batch
    BY <1>0, SentType
  <2>3. Responses(b)' = Responses(b) + 1 /\ \A c : c # b => Responses(c)' = Responses(c)
    BY <1>0, <2>1, ResponsesMore
  <2>4. Responses(b) \in Nat
    BY RespondersType
  <2>5. PICK k \in Nat : k = client_responses_count[b]
    BY <1>1, <2>2
  <2>6. ASSUME NEW c \in Batch, c # b
        PROVE  /\ client_responses_count'[c] = client_responses_count[c]
               /\ c \in client_responses_directory' <=> c \in client_responses_directory
    BY <1>1, <2>1, <2>6 DEF Again, First, Late, responses
  <2>7. ASSUME NEW c \in Batch, c # b
        PROVE  IF c \in client_responses_directory' THEN Kept(c)' ELSE None(c)' \/ Gone(c)'
    BY <1>0, <2>3, <2>6, <2>7 DEF Counting, Kept, None, Gone
  <2>8. IF b \in client_responses_directory' THEN Kept(b)' ELSE None(b)' \/ Gone(b)'
    <3>1. CASE Again(n, b)
      <4>1. b \in client_responses_directory' /\ client_responses_count'[b] = k + 1
        BY <1>1, <2>2, <2>5, <3>1 DEF Again
      <4>2. k = Responses(b)
        BY <1>0, <2>2, <2>5, <3>1 DEF Again, Counting, Kept
      <4>3. QED
        BY <2>3, <2>4, <4>1, <4>2 DEF Kept
    <3>2. CASE First(b)
      <4>1. b \in client_responses_directory' /\ client_responses_count'[b] = 1 /\ k = 0
        BY <1>1, <2>2, <2>5, <3>2 DEF First
      <4>2. Responses(b) = 0
        BY <1>0, <2>2, <2>5, <3>2, <4>1, Majority DEF First, Counting, None, Gone
      <4>3. QED
        BY <2>3, <2>4, <4>1, <4>2 DEF Kept
    <3>3. CASE Late(b)
      <4>1. b \notin client_responses_directory' /\ client_responses_count'[b] = k /\ k > 0
        BY <2>5, <3>3 DEF Late, responses
      <4>2. k >= fp1 /\ k <= Responses(b)
        BY <1>0, <2>2, <2>5, <3>3, <4>1 DEF Late, Counting, None, Gone
      <4>3. QED
        BY <2>3, <2>4, <4>1, <4>2, Majority DEF Gone
    <3>4. QED
      BY <2>1, <3>1, <3>2, <3>3
  <2>9. QED
    BY <2>7, <2>8 DEF Counting
<1>3. ASSUME NEW n \in Node, remove_response(n) PROVE Counting'
  <2>1. /\ todo[n] > 0 /\ client_responses_directory' = client_responses_directory \ {completing[n]}
        /\ UNCHANGED <<client_responses_count, executed, received>>
    BY <1>3 DEF remove_response
  <2>2. completing[n] # 0 /\ client_responses_count[completing[n]] >= fp1
    BY <1>0, <2>1 DEF Completing
  <2>3. \A c : Responses(c)' = Responses(c)
    BY <1>0, <2>1, ResponsesSame
  <2>4. ASSUME NEW c \in Batch
        PROVE  IF c \in client_responses_directory' THEN Kept(c)' ELSE None(c)' \/ Gone(c)'
    <3>1. Responses(c) \in Nat /\ client_responses_count[c] \in Nat
      BY <1>1, RespondersType
    <3>2. IF c \in client_responses_directory THEN Kept(c) ELSE None(c) \/ Gone(c)
      BY <1>0 DEF Counting
    <3>3. CASE c = completing[n]
      <4>1. c \notin client_responses_directory' /\ client_responses_count[c] >= fp1
        BY <2>1, <2>2, <3>3
      <4>2. client_responses_count[c] <= Responses(c)
        BY <3>1, <3>2, <4>1, Majority DEF Kept, None, Gone
      <4>3. QED
        BY <2>1, <2>3, <4>1, <4>2 DEF Gone
    <3>4. CASE c # completing[n]
      <4>1. c \in client_responses_directory' <=> c \in client_responses_directory
        BY <2>1, <3>4
      <4>2. QED
        BY <2>1, <2>3, <3>2, <4>1 DEF Kept, None, Gone
    <3>5. QED
      BY <3>3, <3>4
  <2>5. QED
    BY <2>4 DEF Counting
<1>4. ASSUME UNCHANGED <<responses, received>>, UNCHANGED executed \/ \E b \in Batch : Execute(b)
      PROVE  Counting'
  <2>1. \A c : Responses(c)' = Responses(c)
    BY <1>0, <1>4, ResponsesSame
  <2>2. \A c \in Batch : Kept(c)' = Kept(c) /\ None(c)' = None(c) /\ Gone(c)' = Gone(c)
    BY <1>4, <2>1 DEF responses, Kept, None, Gone
  <2>3. UNCHANGED client_responses_directory
    BY <1>4 DEF responses
  <2>4. QED
    BY <1>0, <2>2, <2>3 DEF Counting
<1>5. CASE choose \/ inc_inflight \/ send_batch \/ UNCHANGED vars
  BY <1>4, <1>5 DEF choose, inc_inflight, send_batch, vars, input
<1>6. ASSUME NEW b \in Batch, Execute(b) PROVE Counting'
  BY <1>4, <1>6 DEF Execute, input
<1>7. ASSUME NEW n \in Node, dec_inflight(n) \/ dec_in_round(n) PROVE Counting'
  BY <1>4, <1>7 DEF dec_inflight, dec_in_round
<1>8. QED
  BY <1>2, <1>3, <1>5, <1>6, <1>7, Actions

LEMMA CompletingNext ==
  ASSUME Inv, [Next]_vars
  PROVE  Completing'
<1>0. TypeOK /\ Filling /\ Answers /\ Counting /\ Completing
  BY DEF Inv
<1>1. /\ client_responses_count \in [Batch -> 0 .. NODE_CNT]
      /\ \A b \in Batch : client_responses_count[b] \in Nat
      /\ completing \in [Node -> 0 .. MaxBatch] /\ todo \in [Node -> 0 .. (BATCH_SIZE + 2)]
      /\ \A n \in Node : todo[n] \in Nat
      /\ DOMAIN dest \subseteq Batch
  <2>1. \A n \in Node : todo[n] \in Nat
    BY <1>0, Constants DEF TypeOK
  <2>2. QED
    BY <1>0, <2>1, CountType, SentType, Types
<1>2. \A n \in Node :
        /\ completing[n] # 0 <=> todo[n] > 0
        /\ completing[n] # 0 => /\ completing[n] \in DOMAIN dest
                                /\ client_responses_count[completing[n]] >= fp1
                                /\ \A m \in Node : completing[m] = completing[n] => m = n
  BY <1>0 DEF Completing
<1>3. DOMAIN dest \subseteq DOMAIN dest'
  <2>1. CASE send_batch
    <3>1. DOMAIN dest = 1 .. sent /\ DOMAIN dest' = 1 .. (sent + 1) /\ sent \in Nat
      BY <1>0, <2>1, SendStep, SentType
    <3> HIDE DEF sent
    <3>2. QED
      BY <3>1
  <2>2. QED
    BY <2>1, DestKept
<1>4. ASSUME NEW n \in Node, count_response(n) PROVE Completing'
  <2>1. PICK b \in DOMAIN dest : todo[n] = 0 /\ (Again(n, b) \/ First(b) \/ Late(b))
    BY <1>0, <1>4, CountStep
  <2>2. b \in Batch /\ completing[n] = 0 /\ b # 0
    BY <1>1, <1>2, <2>1, Constants DEF Batch
  <2>3. \A c \in Batch : client_responses_count'[c] \in Nat /\ client_responses_count'[c] >= client_responses_count[c]
    BY <1>1, <2>1, <2>2 DEF Again, First, Late, responses
  <2>4. \A m \in Node : completing[m] # 0 => client_responses_count'[completing[m]] >= fp1
    BY <1>1, <1>2, <2>3, Majority
  <2>5. CASE UNCHANGED <<completing, todo>>
    BY <1>2, <1>3, <2>4, <2>5 DEF Completing
  <2>6. CASE /\ client_responses_count[b] + 1 = fp1
             /\ client_responses_count' = [client_responses_count EXCEPT ![b] = client_responses_count[b] + 1]
             /\ completing' = [completing EXCEPT ![n] = b]
             /\ todo' = [todo EXCEPT ![n] = BATCH_SIZE + 2]
    <3>1. /\ completing'[n] = b /\ todo'[n] = BATCH_SIZE + 2
          /\ \A m \in Node : m # n => completing'[m] = completing[m] /\ todo'[m] = todo[m]
      BY <1>1, <2>6
    <3>2. client_responses_count'[b] = fp1 /\ client_responses_count[b] < fp1
      BY <1>1, <2>2, <2>6, Majority
    <3>3. \A m \in Node : completing[m] # b
      BY <1>2, <2>2, <3>2, Majority, <1>1
    <3>4. BATCH_SIZE + 2 > 0
      BY Constants
    <3>5. ASSUME NEW m \in Node
          PROVE  /\ completing'[m] # 0 <=> todo'[m] > 0
                 /\ completing'[m] # 0 => /\ completing'[m] \in DOMAIN dest'
                                          /\ client_responses_count'[completing'[m]] >= fp1
                                          /\ \A j \in Node : completing'[j] = completing'[m] => j = m
      <4>1. CASE m = n
        BY <1>3, <2>1, <2>2, <3>1, <3>2, <3>3, <3>4, <4>1, Majority
      <4>2. CASE m # n
        BY <1>2, <1>3, <2>4, <3>1, <3>3, <4>2
      <4>3. QED
        BY <4>1, <4>2
    <3>6. QED
      BY <3>5 DEF Completing
  <2>7. QED
    BY <2>1, <2>5, <2>6 DEF Again, First, Late
<1>5. ASSUME NEW n \in Node, dec_inflight(n) \/ remove_response(n) PROVE Completing'
  <2>1. todo[n] >= 2 /\ todo' = [todo EXCEPT ![n] = todo[n] - 1] /\ UNCHANGED <<completing, client_responses_count>>
    BY <1>1, <1>5 DEF dec_inflight, remove_response, Done, responses
  <2>2. \A m \in Node : todo'[m] > 0 <=> todo[m] > 0
    BY <1>1, <2>1
  <2>3. QED
    BY <1>2, <1>3, <2>1, <2>2 DEF Completing
<1>6. ASSUME NEW n \in Node, dec_in_round(n) PROVE Completing'
  <2>1. /\ todo[n] = 1 /\ todo' = [todo EXCEPT ![n] = todo[n] - 1]
        /\ completing' = [completing EXCEPT ![n] = 0] /\ UNCHANGED client_responses_count
    BY <1>6 DEF dec_in_round, Done, responses
  <2>2. /\ todo'[n] = 0 /\ completing'[n] = 0
        /\ \A m \in Node : m # n => completing'[m] = completing[m] /\ todo'[m] = todo[m]
    BY <1>1, <2>1
  <2>3. QED
    BY <1>2, <1>3, <2>1, <2>2 DEF Completing
<1>7. CASE UNCHANGED <<completing, todo, client_responses_count>>
  BY <1>2, <1>3, <1>7 DEF Completing
<1>8. CASE choose \/ inc_inflight \/ send_batch \/ UNCHANGED vars
  BY <1>7, <1>8 DEF choose, inc_inflight, send_batch, vars, input, responses
<1>9. ASSUME NEW b \in Batch, Execute(b) PROVE Completing'
  BY <1>7, <1>9 DEF Execute, input, responses
<1>10. QED
  BY <1>4, <1>5, <1>6, <1>8, <1>9, Actions
-----------------------------------------------------------------------------
(* in_round by the count. *)
Rounds == \A n \in Node : in_round[n] = Cardinality(Open(n))

LEMMA RoundsIs == TypeOK /\ Counting => (InRound <=> Rounds)
<1>1. ASSUME TypeOK, Counting, NEW n \in Node
      PROVE  {b \in DOMAIN dest : dest[b] = n /\ (b \notin Enough \/ Completer(b) # {})} = Open(n)
  BY <1>1, OpenIs
<1>2. QED
  BY <1>1 DEF InRound, Rounds

LEMMA RoundsIsNext == TypeOK' /\ Counting' => (InRound' <=> Rounds')
  BY RoundsIs, PTL

LEMMA RoundsNext ==
  ASSUME Inv, [Next]_vars
  PROVE  Rounds' /\ in_round' \in [Node -> Int]
<1>0. TypeOK /\ Filling /\ Answers /\ Counting /\ Completing /\ Rounds
  BY RoundsIs DEF Inv
<1>1. /\ client_responses_count \in [Batch -> 0 .. NODE_CNT]
      /\ \A b \in Batch : client_responses_count[b] \in Nat
      /\ completing \in [Node -> 0 .. MaxBatch]
      /\ DOMAIN dest \subseteq Batch /\ in_round \in [Node -> Int]
  <2>1. in_round \in [Node -> Int]
    BY <1>0, Constants DEF TypeOK
  <2>2. QED
    BY <1>0, <2>1, CountType, SentType, Types
<1>2. \A n \in Node : in_round[n] = Cardinality(Open(n))
  BY <1>0 DEF Rounds
<1>3. ASSUME UNCHANGED in_round, \A n \in Node : Open(n)' = Open(n)
      PROVE  Rounds' /\ in_round' \in [Node -> Int]
  <2>1. Rounds'
    BY <1>2, <1>3 DEF Rounds
  <2>2. QED
    BY <1>1, <1>3, <2>1
<1>4. ASSUME UNCHANGED <<in_round, dest, client_responses_count, completing>>
      PROVE  Rounds' /\ in_round' \in [Node -> Int]
  <2>1. \A n \in Node : Open(n)' = Open(n)
    BY <1>4 DEF Open
  <2>2. QED
    BY <1>3, <1>4, <2>1
<1>5. ASSUME choose \/ inc_inflight \/ UNCHANGED vars PROVE Rounds' /\ in_round' \in [Node -> Int]
  BY <1>4, <1>5 DEF choose, inc_inflight, vars, input, responses, client
<1>6. ASSUME NEW b \in Batch, Execute(b) PROVE Rounds' /\ in_round' \in [Node -> Int]
  BY <1>4, <1>6 DEF Execute, input, responses, client
<1>7. ASSUME NEW n \in Node, dec_inflight(n) \/ remove_response(n) PROVE Rounds' /\ in_round' \in [Node -> Int]
  BY <1>4, <1>7 DEF dec_inflight, remove_response, responses, client
<1>8. ASSUME NEW n \in Node, count_response(n) PROVE Rounds' /\ in_round' \in [Node -> Int]
  <2>1. PICK b \in DOMAIN dest : /\ todo[n] = 0 /\ UNCHANGED <<in_round, dest>>
                                 /\ Again(n, b) \/ First(b) \/ Late(b)
    BY <1>0, <1>8, CountStep DEF client
  <2>2. PICK k \in Nat : k = client_responses_count[b]
    BY <1>1
  <2>3. b \in Batch /\ completing[n] = 0 /\ b # 0
    <3>1. b \in Batch
      BY <1>1
    <3>2. completing[n] = 0
      BY <1>0, <2>1, Constants DEF Completing, TypeOK
    <3>3. QED
      BY <3>1, <3>2, Constants DEF Batch
  <2>4. ASSUME NEW c \in DOMAIN dest
        PROVE  (client_responses_count'[c] < fp1 \/ \E m \in Node : completing'[m] = c)
                 <=> (client_responses_count[c] < fp1 \/ \E m \in Node : completing[m] = c)
    <3>1. CASE Late(b)
      BY <3>1 DEF Late, responses
    <3>2. CASE First(b) \/ (Again(n, b) /\ k + 1 # fp1)
      <4>1. UNCHANGED completing /\ client_responses_count' = [client_responses_count EXCEPT ![b] = k + 1] /\ k + 1 # fp1
        <5>1. First(b) => k = 0
          BY <2>2 DEF First
        <5>2. QED
          BY <2>2, <3>2, <5>1, Majority DEF First, Again
      <4>2. client_responses_count'[c] = IF c = b THEN k + 1 ELSE client_responses_count[c]
        BY <1>1, <4>1
      <4>3. client_responses_count'[c] < fp1 <=> client_responses_count[c] < fp1
        BY <2>2, <4>1, <4>2, Majority
      <4>4. QED
        BY <4>1, <4>3
    <3>3. CASE Again(n, b) /\ k + 1 = fp1
      <4>1. /\ completing' = [completing EXCEPT ![n] = b]
            /\ client_responses_count' = [client_responses_count EXCEPT ![b] = k + 1]
        BY <2>2, <3>3 DEF Again
      <4>2. k < fp1
        BY <3>3, Majority
      <4>3. CASE c = b
        <5>1. completing'[n] = b
          BY <1>1, <4>1
        <5>2. QED
          BY <2>2, <4>2, <4>3, <5>1
      <4>4. CASE c # b
        <5>1. client_responses_count'[c] = client_responses_count[c]
          BY <1>1, <4>1, <4>4
        <5>2. c # 0
          BY <1>1, Constants DEF Batch
        <5>3. \A m \in Node : completing'[m] = c <=> completing[m] = c
          BY <1>1, <2>3, <4>1, <4>4, <5>2
        <5>4. QED
          BY <5>1, <5>3
      <4>5. QED
        BY <4>3, <4>4
    <3>4. QED
      BY <2>1, <3>1, <3>2, <3>3
  <2>5. \A m \in Node : Open(m)' = Open(m)
    BY <2>1, <2>4 DEF Open
  <2>6. QED
    BY <1>3, <2>1, <2>5
<1>9. ASSUME NEW n \in Node, dec_in_round(n) PROVE Rounds' /\ in_round' \in [Node -> Int]
  <2>1. /\ todo[n] = 1 /\ in_round' = [in_round EXCEPT ![dest[completing[n]]] = in_round[dest[completing[n]]] - 1]
        /\ completing' = [completing EXCEPT ![n] = 0] /\ UNCHANGED <<dest, client_responses_count>>
    BY <1>9 DEF dec_in_round, responses, client
  <2>2. PICK b \in DOMAIN dest : b = completing[n] /\ b # 0
    BY <1>0, <2>1 DEF Completing
  <2>3. client_responses_count[b] >= fp1 /\ \A m \in Node : completing[m] = b => m = n
    BY <1>0, <2>2 DEF Completing
  <2>4. PICK d \in Node : d = dest[b]
    <3>1. dest \in [DOMAIN dest -> Node]
      BY <1>0, SentType, Types
    <3>2. QED
      BY <3>1
  <2>5. \A m \in Node : completing'[m] = IF m = n THEN 0 ELSE completing[m]
    BY <1>1, <2>1
  <2>6. ~(client_responses_count'[b] < fp1) /\ ~\E m \in Node : completing'[m] = b
    BY <1>1, <2>1, <2>2, <2>3, <2>5, Majority
  <2>7. ASSUME NEW c \in DOMAIN dest, c # b
        PROVE  (\E m \in Node : completing'[m] = c) <=> (\E m \in Node : completing[m] = c)
    <3>1. c # 0
      BY <1>1, Constants DEF Batch
    <3>2. QED
      BY <2>2, <2>5, <2>7, <3>1
  <2>8. \A m \in Node : m # d => Open(m)' = Open(m)
    BY <2>1, <2>4, <2>7 DEF Open
  <2>9. Open(d)' = Open(d) \ {b}
    BY <2>1, <2>6, <2>7 DEF Open
  <2>10. b \in Open(d)
    BY <2>2, <2>4 DEF Open
  <2>11. IsFiniteSet(Open(d)) /\ Cardinality(Open(d)) \in Nat
    BY <1>0, OpenType
  <2>12. Cardinality(Open(d)') = Cardinality(Open(d)) - 1
    BY <2>9, <2>10, <2>11, FS_RemoveElement
  <2>13. in_round' = [in_round EXCEPT ![d] = in_round[d] - 1]
    BY <2>1, <2>2, <2>4
  <2>14. in_round' \in [Node -> Int] /\ \A m \in Node : in_round'[m] = IF m = d THEN in_round[d] - 1 ELSE in_round[m]
    BY <1>1, <2>13
  <2>15. Rounds'
    BY <1>2, <2>8, <2>12, <2>14 DEF Rounds
  <2>16. QED
    BY <2>14, <2>15
<1>10. ASSUME send_batch PROVE Rounds' /\ in_round' \in [Node -> Int]
  <2>1. PICK s \in Nat : s = sent
    BY <1>0, SentType
  <2>2. PICK d \in Node : d = next_to_send
    BY <1>0, Types
  <2>3. /\ s + 1 \in Batch /\ DOMAIN dest' = 1 .. (s + 1) /\ DOMAIN dest = 1 .. s
        /\ dest'[s + 1] = d /\ \A b \in 1 .. s : dest'[b] = dest[b]
    BY <1>0, <1>10, <2>1, <2>2, SendStep, SentType
  <2>4. in_round' = [in_round EXCEPT ![d] = in_round[d] + 1] /\ UNCHANGED <<client_responses_count, completing>>
    BY <1>10, <2>2 DEF send_batch, responses, input
  <2>5. client_responses_count[s + 1] = 0
    <3>1. s + 1 \notin 1 .. s
      OBVIOUS
    <3>2. QED
      BY <1>0, <2>3, <3>1, NoResponse
  <2>6. \A b : b \in 1 .. (s + 1) <=> b \in 1 .. s \/ b = s + 1
    OBVIOUS
  <2>7. \A m \in Node : m # d => Open(m)' = Open(m)
    BY <2>3, <2>4, <2>6 DEF Open
  <2>8. Open(d)' = Open(d) \cup {s + 1}
    <3>1. client_responses_count[s + 1] < fp1
      BY <2>5, Majority
    <3>2. QED
      BY <2>3, <2>4, <2>6, <3>1 DEF Open
  <2>9. s + 1 \notin Open(d)
    <3>1. s + 1 \notin 1 .. s
      OBVIOUS
    <3>2. QED
      BY <2>3, <3>1 DEF Open
  <2>10. IsFiniteSet(Open(d)) /\ Cardinality(Open(d)) \in Nat
    BY <1>0, OpenType
  <2>11. Cardinality(Open(d)') = Cardinality(Open(d)) + 1
    BY <2>8, <2>9, <2>10, FS_AddElement
  <2>12. in_round' \in [Node -> Int] /\ \A m \in Node : in_round'[m] = IF m = d THEN in_round[d] + 1 ELSE in_round[m]
    BY <1>1, <2>4
  <2>13. Rounds'
    BY <1>2, <2>7, <2>11, <2>12 DEF Rounds
  <2>14. QED
    BY <2>12, <2>13
<1>11. QED
  BY <1>5, <1>6, <1>7, <1>8, <1>9, <1>10, Actions
-----------------------------------------------------------------------------
(* No batch is executed twice, so no more are executed than there are. *)
LEMMA ExecutedBound ==
  ASSUME NEW s \in Seq(Batch), \A i, j \in 1 .. Len(s) : s[i] = s[j] => i = j
  PROVE  Len(s) <= MaxBatch
<1>1. PICK l \in Nat : l = Len(s)
  OBVIOUS
<1>2. s \in [1 .. l -> Batch] /\ \A i, j \in 1 .. l : s[i] = s[j] => i = j
  BY <1>1
<1>3. s \in Injection(1 .. l, Batch)
  BY <1>2, Fun_IsInj
<1>4. IsFiniteSet(Batch) /\ Cardinality(Batch) = IF 1 > MaxBatch THEN 0 ELSE MaxBatch - 1 + 1
  BY Constants, FS_Interval DEF Batch
<1>5. Cardinality(1 .. l) = IF 1 > l THEN 0 ELSE l - 1 + 1
  BY FS_Interval
<1>6. Cardinality(1 .. l) <= Cardinality(Batch)
  BY <1>3, <1>4, FS_Injection
<1>7. QED
  BY <1>1, <1>4, <1>5, <1>6, Constants

LEMMA TypeNext ==
  ASSUME Inv, [Next]_vars
  PROVE  TypeOK'
<1>0. TypeOK /\ Filling /\ Answers /\ Counting /\ Completing
  BY DEF Inv
<1>1. sent' \in 0 .. MaxBatch /\ dest' \in [1 .. sent' -> Node] /\ DOMAIN dest' \subseteq Batch
  <2>1. CASE send_batch
    <3>1. PICK s \in Nat : s = sent
      BY <1>0, SentType
    <3>2. sent' = s + 1 /\ s + 1 \in Batch /\ dest' \in [1 .. (s + 1) -> Node]
      BY <1>0, <2>1, <3>1, SendStep
    <3>3. DOMAIN dest' = 1 .. (s + 1)
      BY <3>2
    <3> HIDE DEF sent
    <3>4. QED
      BY <3>2, <3>3, Constants DEF Batch
  <2>2. CASE ~send_batch
    <3>1. UNCHANGED <<dest, sent>>
      BY <2>2, DestKept
    <3>2. sent \in 0 .. MaxBatch /\ dest \in [1 .. sent -> Node] /\ DOMAIN dest \subseteq Batch
      BY <1>0, SentType, Types
    <3> HIDE DEF sent
    <3>3. QED
      BY <3>1, <3>2
  <2>3. QED
    BY <2>1, <2>2
<1>2. in_round' \in [Node -> 0 .. MaxBatch]
  <2>1. in_round' \in [Node -> Int] /\ \A n \in Node : in_round'[n] = Cardinality(Open(n)')
    BY RoundsNext DEF Rounds
  <2>2. IsFiniteSet(Batch) /\ Cardinality(Batch) = MaxBatch
    <3>1. IsFiniteSet(Batch) /\ Cardinality(Batch) = IF 1 > MaxBatch THEN 0 ELSE MaxBatch - 1 + 1
      BY Constants, FS_Interval DEF Batch
    <3>2. QED
      BY <3>1, Constants
  <2>3. ASSUME NEW n \in Node PROVE in_round'[n] \in 0 .. MaxBatch
    <3>1. Open(n)' \subseteq Batch
      BY <1>1 DEF Open
    <3>2. IsFiniteSet(Open(n)') /\ Cardinality(Open(n)') <= MaxBatch
      BY <2>2, <3>1, FS_Subset
    <3>3. Cardinality(Open(n)') \in Nat
      BY <3>2, FS_CardinalityType
    <3>4. QED
      BY <2>1, <3>2, <3>3, Constants
  <2>4. QED
    BY <2>1, <2>3
<1>3. /\ client_responses_count \in [Batch -> 0 .. NODE_CNT] /\ client_responses_directory \subseteq Batch
      /\ completing \in [Node -> 0 .. MaxBatch] /\ todo \in [Node -> 0 .. (BATCH_SIZE + 2)]
      /\ received \in [Node -> 0 .. MaxBatch] /\ executed \in Seq(Batch)
      /\ num_inflight_txns \in 0 .. MAX_TXN_IN_FLIGHT /\ addMore \in 0 .. BATCH_SIZE
      /\ pc \in {"choose", "add", "send"} /\ next_to_send \in Node /\ DOMAIN dest \subseteq Batch
  BY <1>0, SentType, Types
<1>4. executed' \in Seq(Batch)
  <2>1. executed' = executed \/ \E b \in Batch : executed' = Append(executed, b)
    <3>1. CASE choose \/ inc_inflight \/ send_batch \/ UNCHANGED vars
      BY <3>1 DEF choose, inc_inflight, send_batch, vars
    <3>2. CASE \E b \in Batch : Execute(b)
      BY <3>2 DEF Execute
    <3>3. CASE \E n \in Node : count_response(n) \/ dec_inflight(n) \/ remove_response(n) \/ dec_in_round(n)
      BY <3>3 DEF count_response, dec_inflight, remove_response, dec_in_round
    <3>4. QED
      BY <3>1, <3>2, <3>3, Actions
  <2>2. executed \in Seq(Batch)
    BY <1>3
  <2>3. ASSUME NEW b \in Batch PROVE Append(executed, b) \in Seq(Batch)
    BY <2>2
  <2>4. QED
    BY <2>1, <2>2, <2>3
<1>5. /\ pc' \in {"choose", "add", "send"} /\ next_to_send' \in Node /\ addMore' \in 0 .. BATCH_SIZE
  <2>1. (next_to_send + 1) % NODE_CNT \in Node
    BY <1>3, NextNode
  <2>2. CASE choose
    BY <1>3, <2>1, <2>2 DEF choose
  <2>3. CASE inc_inflight
    <3>1. addMore < BATCH_SIZE
      BY <1>0, <1>3, <2>3, Constants DEF inc_inflight, Filling
    <3>2. QED
      BY <1>3, <2>3, <3>1, Constants DEF inc_inflight
  <2>4. CASE send_batch
    BY <1>3, <2>1, <2>4, Constants DEF send_batch
  <2>5. CASE ~choose /\ ~inc_inflight /\ ~send_batch
    BY <1>3, <2>5, ClientKept DEF client
  <2>6. QED
    BY <2>2, <2>3, <2>4, <2>5
<1>6. num_inflight_txns' \in 0 .. MAX_TXN_IN_FLIGHT
  <2>1. CASE choose \/ send_batch \/ UNCHANGED vars
    BY <1>3, <2>1 DEF choose, send_batch, vars
  <2>2. CASE inc_inflight
    BY <1>3, <2>2, Constants DEF inc_inflight
  <2>3. CASE \E b \in Batch : Execute(b)
    BY <1>3, <2>3 DEF Execute
  <2>4. ASSUME NEW n \in Node, count_response(n) \/ dec_inflight(n) \/ remove_response(n) \/ dec_in_round(n)
        PROVE  num_inflight_txns' \in 0 .. MAX_TXN_IN_FLIGHT
    BY <1>3, <2>4, Constants DEF count_response, dec_inflight, remove_response, dec_in_round
  <2>5. QED
    BY <2>1, <2>2, <2>3, <2>4, Actions
<1>7. /\ client_responses_count' \in [Batch -> Nat] /\ client_responses_directory' \subseteq Batch
      /\ completing' \in [Node -> 0 .. MaxBatch] /\ todo' \in [Node -> 0 .. (BATCH_SIZE + 2)]
      /\ received' \in [Node -> Nat]
  <2>1. client_responses_count \in [Batch -> Nat] /\ received \in [Node -> Nat]
    BY <1>3, Constants
  <2>2. CASE UNCHANGED <<responses, input>>
    BY <1>3, <2>1, <2>2 DEF responses, input
  <2>3. CASE choose \/ inc_inflight \/ send_batch \/ UNCHANGED vars
    BY <2>2, <2>3 DEF choose, inc_inflight, send_batch, vars
  <2>4. CASE \E b \in Batch : Execute(b)
    BY <2>2, <2>4 DEF Execute
  <2>5. ASSUME NEW n \in Node, count_response(n)
        PROVE  /\ client_responses_count' \in [Batch -> Nat] /\ client_responses_directory' \subseteq Batch
               /\ completing' \in [Node -> 0 .. MaxBatch] /\ todo' \in [Node -> 0 .. (BATCH_SIZE + 2)]
               /\ received' \in [Node -> Nat]
    <3>1. PICK b \in DOMAIN dest : /\ received' = [received EXCEPT ![n] = received[n] + 1]
                                   /\ Again(n, b) \/ First(b) \/ Late(b)
      BY <1>0, <2>5, CountStep
    <3>2. b \in Batch /\ b \in 0 .. MaxBatch /\ BATCH_SIZE + 2 \in 0 .. (BATCH_SIZE + 2)
      BY <1>3, Constants DEF Batch
    <3>3. received' \in [Node -> Nat]
      BY <2>1, <3>1
    <3>4. client_responses_count' \in [Batch -> Nat]
      BY <2>1, <3>1, <3>2 DEF Again, First, Late, responses
    <3>5. client_responses_directory' \subseteq Batch
      BY <1>3, <3>1, <3>2 DEF Again, First, Late, responses
    <3>6. completing' \in [Node -> 0 .. MaxBatch] /\ todo' \in [Node -> 0 .. (BATCH_SIZE + 2)]
      BY <1>3, <3>1, <3>2 DEF Again, First, Late
    <3>7. QED
      BY <3>3, <3>4, <3>5, <3>6
  <2>6. ASSUME NEW n \in Node, dec_inflight(n) \/ remove_response(n) \/ dec_in_round(n)
        PROVE  /\ client_responses_count' \in [Batch -> Nat] /\ client_responses_directory' \subseteq Batch
               /\ completing' \in [Node -> 0 .. MaxBatch] /\ todo' \in [Node -> 0 .. (BATCH_SIZE + 2)]
               /\ received' \in [Node -> Nat]
    <3>1. PICK k \in 1 .. (BATCH_SIZE + 2) : k = todo[n] /\ todo' = [todo EXCEPT ![n] = k - 1]
      <4>1. todo[n] \in 0 .. (BATCH_SIZE + 2) /\ todo[n] > 0 /\ todo' = [todo EXCEPT ![n] = todo[n] - 1]
        BY <1>3, <2>6 DEF dec_inflight, remove_response, dec_in_round, Done
      <4>2. PICK k : k = todo[n]
        OBVIOUS
      <4>3. k \in 1 .. (BATCH_SIZE + 2)
        <5>1. k \in 0 .. (BATCH_SIZE + 2) /\ k > 0
          BY <4>1, <4>2
        <5>2. QED
          BY <5>1, Constants
      <4>4. QED
        BY <4>1, <4>2, <4>3
    <3>2. k - 1 \in 0 .. (BATCH_SIZE + 2)
      BY <3>1, Constants
    <3>3. todo' \in [Node -> 0 .. (BATCH_SIZE + 2)]
      BY <1>3, <3>1, <3>2
    <3>4. completing' = completing \/ completing' = [completing EXCEPT ![n] = 0]
      BY <2>6 DEF dec_inflight, remove_response, dec_in_round
    <3>5. completing' \in [Node -> 0 .. MaxBatch]
      <4>1. 0 \in 0 .. MaxBatch
        BY Constants
      <4>2. completing \in [Node -> 0 .. MaxBatch]
        BY <1>3
      <4>3. QED
        BY <3>4, <4>1, <4>2
    <3>6. UNCHANGED <<client_responses_count, received>> /\ client_responses_directory' \subseteq client_responses_directory
      BY <2>6 DEF dec_inflight, remove_response, dec_in_round, responses
    <3>7. QED
      BY <1>3, <2>1, <3>3, <3>5, <3>6
  <2>7. QED
    BY <2>3, <2>4, <2>5, <2>6, Actions
<1>8. client_responses_count' \in [Batch -> 0 .. NODE_CNT]
  <2>1. ASSUME NEW b \in Batch PROVE client_responses_count'[b] \in 0 .. NODE_CNT
    <3>1. Responders(b)' \subseteq Node
      BY DEF Responders
    <3>2. IsFiniteSet(Responders(b)') /\ Cardinality(Responders(b)') <= NODE_CNT
      BY <3>1, NodeType, FS_Subset
    <3>3. Responses(b)' \in Nat /\ Responses(b)' <= NODE_CNT
      BY <3>2, FS_CardinalityType DEF Responses
    <3>4. Kept(b)' \/ None(b)' \/ Gone(b)'
      BY CountingNext DEF Counting
    <3>5. client_responses_count'[b] \in Nat /\ client_responses_count'[b] <= Responses(b)'
      BY <1>7, <3>3, <3>4 DEF Kept, None, Gone
    <3>6. QED
      BY <3>3, <3>5, Constants
  <2>2. QED
    BY <1>7, <2>1
<1>9. received' \in [Node -> 0 .. MaxBatch]
  <2>1. PICK l \in Nat : l = Len(executed')
    BY <1>4
  <2>2. l <= MaxBatch
    BY <1>4, <2>1, AnswersNext, ExecutedBound DEF Answers
  <2>3. \A n \in Node : received'[n] <= l
    BY <2>1, AnswersNext DEF Answers
  <2>4. \A n \in Node : received'[n] \in 0 .. MaxBatch
    BY <1>7, <2>1, <2>2, <2>3, Constants
  <2>5. QED
    BY <1>7, <2>4
<1>10. QED
  <2> HIDE DEF sent
  <2>1. QED
    BY <1>1, <1>2, <1>4, <1>5, <1>6, <1>7, <1>8, <1>9 DEF TypeOK

LEMMA InvNext == Inv /\ [Next]_vars => Inv'
<1> SUFFICES ASSUME Inv, [Next]_vars PROVE Inv'
  OBVIOUS
<1>1. InRound'
  BY TypeNext, CountingNext, RoundsNext, RoundsIsNext
<1>2. QED
  BY <1>1, TypeNext, FillingNext, AnswersNext, CountingNext, CompletingNext DEF Inv

LEMMA InvHolds == Spec => []Inv
<1>1. QED
  BY InitInv, InvNext, PTL DEF Spec

(* The types, with the bounds the client relies on: never more than        *)
(* MAX_TXN_IN_FLIGHT transactions in flight, and never a count of          *)
(* responses above the number of replicas.                                 *)
THEOREM TypeCorrect == Spec => []TypeOK
<1>1. Inv => TypeOK
  BY DEF Inv
<1>2. QED
  BY <1>1, InvHolds, PTL

(* in_round counts the batches sent to a replica that are not completed:   *)
(* a batch gives its place back once, however the threads interleave, for  *)
(* any number of replicas and batches.                                     *)
THEOREM RoundExact == Spec => []InRound
<1>1. Inv => InRound
  BY DEF Inv
<1>2. QED
  BY <1>1, InvHolds, PTL
-----------------------------------------------------------------------------
(* The k-th transaction of batch b holds its place: the batch has not      *)
(* enough responses, or the thread completing it has still to give this    *)
(* place back.                                                             *)
Taken(b, k) ==
  client_responses_count[b] < fp1 \/ \E n \in Node : completing[n] = b /\ k <= todo[n] - 2

Held == {x \in (DOMAIN dest) \X (1 .. BATCH_SIZE) : Taken(x[1], x[2])}

(* num_inflight_txns by the count. *)
Places == num_inflight_txns = addMore + Cardinality(Held)

LEMMA PlacesIs == TypeOK /\ Counting => (InFlight <=> Places)
<1> SUFFICES ASSUME TypeOK, Counting PROVE InFlight <=> Places
  OBVIOUS
<1>1. DOMAIN dest = 1 .. sent
  BY SentType
<1>2. ASSUME NEW b \in DOMAIN dest, NEW k \in 1 .. BATCH_SIZE
      PROVE  (b \notin Enough \/ \E n \in Completer(b) : k <= todo[n] - 2) <=> Taken(b, k)
  <2>1. b \in Enough <=> client_responses_count[b] >= fp1
    BY EnoughCount
  <2>2. client_responses_count[b] \in Nat
    BY SentType, CountType
  <2>3. b \notin Enough <=> client_responses_count[b] < fp1
    BY <2>1, <2>2, Majority
  <2>4. QED
    BY <2>3 DEF Completer, Taken
<1> HIDE DEF sent
<1>3. {x \in (1 .. sent) \X (1 .. BATCH_SIZE) :
         x[1] \notin Enough \/ \E n \in Completer(x[1]) : x[2] <= todo[n] - 2} = Held
  BY <1>1, <1>2 DEF Held
<1>4. QED
  BY <1>3 DEF InFlight, Places

LEMMA HeldType ==
  ASSUME TypeOK
  PROVE  IsFiniteSet(Held) /\ Cardinality(Held) \in Nat
<1>1. IsFiniteSet(Batch) /\ IsFiniteSet(1 .. BATCH_SIZE)
  BY Constants, FS_Interval DEF Batch
<1>2. IsFiniteSet(Batch \X (1 .. BATCH_SIZE))
  BY <1>1, FS_Product
<1>3. Held \subseteq Batch \X (1 .. BATCH_SIZE)
  BY SentType DEF Held
<1>4. QED
  BY <1>2, <1>3, FS_Subset, FS_CardinalityType

LEMMA PlacesNext ==
  ASSUME Inv, Places, [Next]_vars
  PROVE  Places'
<1>0. TypeOK /\ Filling /\ Answers /\ Counting /\ Completing
  BY DEF Inv
<1>1. /\ client_responses_count \in [Batch -> 0 .. NODE_CNT]
      /\ \A b \in Batch : client_responses_count[b] \in Nat
      /\ completing \in [Node -> 0 .. MaxBatch] /\ todo \in [Node -> 0 .. (BATCH_SIZE + 2)]
      /\ DOMAIN dest \subseteq Batch /\ num_inflight_txns \in Nat /\ addMore \in Nat
  <2>1. num_inflight_txns \in Nat /\ addMore \in Nat
    BY <1>0, Constants DEF TypeOK
  <2>2. QED
    BY <1>0, <2>1, CountType, SentType, Types
<1>2. PICK h \in Nat : h = Cardinality(Held)
  BY <1>0, HeldType
<1>3. num_inflight_txns = addMore + h
  BY <1>2 DEF Places
<1>4. ASSUME UNCHANGED <<num_inflight_txns, addMore, dest>>,
             \A b \in DOMAIN dest, k \in 1 .. BATCH_SIZE : Taken(b, k)' <=> Taken(b, k)
      PROVE  Places'
  <2>1. Held' = Held
    BY <1>4 DEF Held
  <2>2. QED
    BY <1>4, <2>1 DEF Places
<1>5. ASSUME UNCHANGED <<dest, client_responses_count, completing, todo>>
      PROVE  Held' = Held
  BY <1>5 DEF Held, Taken
<1>6. ASSUME choose \/ (\E b \in Batch : Execute(b)) \/ UNCHANGED vars PROVE Places'
  <2>1. UNCHANGED <<dest, client_responses_count, completing, todo, num_inflight_txns, addMore>>
    BY <1>6 DEF choose, Execute, vars, input, responses, client
  <2>2. QED
    BY <1>5, <2>1 DEF Places
<1>7. ASSUME inc_inflight PROVE Places'
  <2>1. Held' = Held
    BY <1>5, <1>7 DEF inc_inflight, input, responses
  <2>2. \/ num_inflight_txns' = num_inflight_txns + 1 /\ addMore' = addMore + 1
        \/ UNCHANGED <<num_inflight_txns, addMore>>
    BY <1>7 DEF inc_inflight
  <2>3. num_inflight_txns' = addMore' + h
    BY <1>1, <1>3, <2>2
  <2>4. QED
    BY <1>2, <2>1, <2>3 DEF Places
<1>8. ASSUME NEW n \in Node, count_response(n) PROVE Places'
  <2>1. PICK b \in DOMAIN dest : /\ todo[n] = 0 /\ UNCHANGED <<num_inflight_txns, addMore, dest>>
                                 /\ Again(n, b) \/ First(b) \/ Late(b)
    BY <1>0, <1>8, CountStep DEF client
  <2>2. PICK c \in Nat : c = client_responses_count[b]
    BY <1>1
  <2>3. b \in Batch /\ completing[n] = 0 /\ b # 0
    <3>1. b \in Batch
      BY <1>1
    <3>2. completing[n] = 0
      BY <1>0, <2>1, Constants DEF Completing, TypeOK
    <3>3. QED
      BY <3>1, <3>2, Constants DEF Batch
  <2>4. ASSUME NEW a \in DOMAIN dest, NEW k \in 1 .. BATCH_SIZE
        PROVE  Taken(a, k)' <=> Taken(a, k)
    <3>1. CASE Late(b)
      BY <3>1 DEF Late, responses, Taken
    <3>2. CASE First(b) \/ (Again(n, b) /\ c + 1 # fp1)
      <4>1. /\ UNCHANGED <<completing, todo>>
            /\ client_responses_count' = [client_responses_count EXCEPT ![b] = c + 1] /\ c + 1 # fp1
        <5>1. First(b) => c = 0
          BY <2>2 DEF First
        <5>2. QED
          BY <2>2, <3>2, <5>1, Majority DEF First, Again
      <4>2. client_responses_count'[a] = IF a = b THEN c + 1 ELSE client_responses_count[a]
        BY <1>1, <4>1
      <4>3. client_responses_count'[a] < fp1 <=> client_responses_count[a] < fp1
        BY <2>2, <4>1, <4>2, Majority
      <4>4. QED
        BY <4>1, <4>3 DEF Taken
    <3>3. CASE Again(n, b) /\ c + 1 = fp1
      <4>1. /\ completing' = [completing EXCEPT ![n] = b] /\ todo' = [todo EXCEPT ![n] = BATCH_SIZE + 2]
            /\ client_responses_count' = [client_responses_count EXCEPT ![b] = c + 1]
        BY <2>2, <3>3 DEF Again
      <4>2. c < fp1
        BY <3>3, Majority
      <4>3. CASE a = b
        <5>1. completing'[n] = b /\ todo'[n] = BATCH_SIZE + 2
          BY <1>1, <4>1
        <5>2. k <= (BATCH_SIZE + 2) - 2
          BY Constants
        <5>3. Taken(a, k)'
          BY <4>3, <5>1, <5>2 DEF Taken
        <5>4. Taken(a, k)
          BY <2>2, <4>2, <4>3 DEF Taken
        <5>5. QED
          BY <5>3, <5>4
      <4>4. CASE a # b
        <5>1. client_responses_count'[a] = client_responses_count[a]
          BY <1>1, <4>1, <4>4
        <5>2. a # 0
          BY <1>1, Constants DEF Batch
        <5>3. \A m \in Node : m # n => completing'[m] = completing[m] /\ todo'[m] = todo[m]
          BY <1>1, <4>1
        <5>4. completing'[n] # a /\ completing[n] # a
          BY <1>1, <2>3, <4>1, <4>4, <5>2
        <5>5. QED
          BY <5>1, <5>3, <5>4 DEF Taken
      <4>5. QED
        BY <4>3, <4>4
    <3>4. QED
      BY <2>1, <3>1, <3>2, <3>3
  <2>5. QED
    BY <1>4, <2>1, <2>4
<1>9. ASSUME NEW n \in Node, remove_response(n) \/ dec_in_round(n) PROVE Places'
  <2>1. PICK t \in {1, 2} : t = todo[n] /\ todo' = [todo EXCEPT ![n] = t - 1]
    BY <1>9 DEF remove_response, dec_in_round, Done
  <2>2. /\ UNCHANGED <<num_inflight_txns, addMore, dest, client_responses_count>>
        /\ completing' = completing \/ completing' = [completing EXCEPT ![n] = 0]
    BY <1>9 DEF remove_response, dec_in_round, client, responses
  <2>3. \A m \in Node : m # n => completing'[m] = completing[m] /\ todo'[m] = todo[m]
    BY <1>1, <2>1, <2>2
  <2>4. todo'[n] = t - 1
    BY <1>1, <2>1
  <2>5. ASSUME NEW b \in DOMAIN dest, NEW k \in 1 .. BATCH_SIZE
        PROVE  Taken(b, k)' <=> Taken(b, k)
    <3>1. ~(k <= todo[n] - 2) /\ ~(k <= todo'[n] - 2)
      BY <2>1, <2>4, Constants
    <3>2. QED
      BY <2>2, <2>3, <3>1 DEF Taken
  <2>6. QED
    BY <1>4, <2>2, <2>5
<1>10. ASSUME NEW n \in Node, dec_inflight(n) PROVE Places'
  <2>1. PICK t : t = todo[n]
    OBVIOUS
  <2>2. t \in 0 .. (BATCH_SIZE + 2) /\ t > 2
    BY <1>1, <1>10, <2>1 DEF dec_inflight
  <2>3. /\ todo' = [todo EXCEPT ![n] = t - 1] /\ UNCHANGED <<addMore, dest, client_responses_count, completing>>
        /\ num_inflight_txns' = IF num_inflight_txns > 0 THEN num_inflight_txns - 1 ELSE 0
    BY <1>10, <2>1 DEF dec_inflight, Done, client, responses
  <2>4. t \in Nat /\ t - 2 \in 1 .. BATCH_SIZE /\ (t - 1) - 2 = (t - 2) - 1
    BY <2>2, Constants
  <2>5. PICK b \in DOMAIN dest : b = completing[n] /\ b # 0
    <3>1. completing[n] # 0
      BY <1>0, <2>1, <2>2, <2>4 DEF Completing
    <3>2. QED
      BY <1>0, <3>1 DEF Completing
  <2>6. client_responses_count[b] >= fp1 /\ \A m \in Node : completing[m] = b => m = n
    BY <1>0, <2>5 DEF Completing
  <2>7. todo'[n] = t - 1 /\ \A m \in Node : m # n => todo'[m] = todo[m]
    BY <1>1, <2>3
  <2>8. ~(client_responses_count[b] < fp1)
    BY <1>1, <2>6, Majority
  <2>9. ASSUME NEW k \in 1 .. BATCH_SIZE
        PROVE  Taken(b, k)' <=> Taken(b, k) /\ k # t - 2
    <3>1. Taken(b, k) <=> k <= t - 2
      BY <2>1, <2>5, <2>6, <2>8 DEF Taken
    <3>2. Taken(b, k)' <=> k <= (t - 1) - 2
      BY <2>3, <2>5, <2>6, <2>7, <2>8 DEF Taken
    <3>3. k <= (t - 1) - 2 <=> k <= t - 2 /\ k # t - 2
      BY <2>4
    <3>4. QED
      BY <3>1, <3>2, <3>3
  <2>10. ASSUME NEW a \in DOMAIN dest, a # b, NEW k \in 1 .. BATCH_SIZE
         PROVE  Taken(a, k)' <=> Taken(a, k)
    BY <2>3, <2>5, <2>7, <2>10 DEF Taken
  <2>11. Taken(b, t - 2)
    <3>1. t - 2 <= todo[n] - 2
      BY <2>1, <2>4
    <3>2. QED
      BY <2>5, <3>1 DEF Taken
  <2>12. PICK j \in 1 .. BATCH_SIZE : j = t - 2
    BY <2>4
  <2>13. <<b, j>> \in Held
    BY <2>11, <2>12 DEF Held
  <2>14. Held' = Held \ {<<b, j>>}
    <3>1. Held' = {x \in (DOMAIN dest) \X (1 .. BATCH_SIZE) : Taken(x[1], x[2])'}
      BY <2>3 DEF Held
    <3>2. ASSUME NEW a \in DOMAIN dest, NEW k \in 1 .. BATCH_SIZE
          PROVE  Taken(a, k)' <=> Taken(a, k) /\ <<a, k>> # <<b, j>>
      BY <2>9, <2>10, <2>12
    <3>3. QED
      BY <3>1, <3>2 DEF Held
  <2>15. IsFiniteSet(Held)
    BY <1>0, HeldType
  <2>16. Cardinality(Held') = h - 1
    BY <1>2, <2>13, <2>14, <2>15, FS_RemoveElement
  <2>17. h # 0
    BY <1>2, <2>13, <2>15, FS_EmptySet
  <2>18. num_inflight_txns' = addMore + (h - 1)
    BY <1>1, <1>3, <2>3, <2>17
  <2>19. QED
    BY <2>3, <2>16, <2>18 DEF Places
<1>11. ASSUME send_batch PROVE Places'
  <2>1. PICK s \in Nat : s = sent
    BY <1>0, SentType
  <2>2. s + 1 \in Batch /\ DOMAIN dest' = 1 .. (s + 1) /\ DOMAIN dest = 1 .. s
    BY <1>0, <1>11, <2>1, SendStep, SentType
  <2>3. UNCHANGED <<client_responses_count, completing, todo, num_inflight_txns>> /\ addMore' = 0
    BY <1>11 DEF send_batch, responses, input
  <2>4. addMore = BATCH_SIZE
    BY <1>0, <1>11 DEF send_batch, Filling
  <2>5. s + 1 \notin 1 .. s /\ \A b : b \in 1 .. (s + 1) <=> b \in 1 .. s \/ b = s + 1
    OBVIOUS
  <2>6. client_responses_count[s + 1] < fp1
    <3>1. client_responses_count[s + 1] = 0
      BY <1>0, <2>2, <2>5, NoResponse
    <3>2. QED
      BY <3>1, Majority
  <2>7. PICK New : New = {s + 1} \X (1 .. BATCH_SIZE)
    OBVIOUS
  <2>8. Held' = Held \cup New
    <3>1. \A b, k : Taken(b, k)' <=> Taken(b, k)
      BY <2>3 DEF Taken
    <3>2. \A k : Taken(s + 1, k)
      BY <2>6 DEF Taken
    <3>3. Held' = {x \in (1 .. (s + 1)) \X (1 .. BATCH_SIZE) : Taken(x[1], x[2])}
      BY <2>2, <3>1 DEF Held
    <3>4. Held = {x \in (1 .. s) \X (1 .. BATCH_SIZE) : Taken(x[1], x[2])}
      BY <2>2 DEF Held
    <3>5. QED
      BY <2>5, <2>7, <3>2, <3>3, <3>4
  <2>9. Held \cap New = {}
    BY <2>2, <2>5, <2>7 DEF Held
  <2>10. IsFiniteSet(New) /\ Cardinality(New) = BATCH_SIZE
    <3>1. IsFiniteSet({s + 1}) /\ Cardinality({s + 1}) = 1
      BY FS_Singleton
    <3>2. IsFiniteSet(1 .. BATCH_SIZE) /\ Cardinality(1 .. BATCH_SIZE) = IF 1 > BATCH_SIZE THEN 0 ELSE BATCH_SIZE - 1 + 1
      BY Constants, FS_Interval
    <3>3. Cardinality(1 .. BATCH_SIZE) = BATCH_SIZE
      BY <3>2, Constants
    <3>4. IsFiniteSet(New) /\ Cardinality(New) = 1 * BATCH_SIZE
      <4>1. PICK S : S = {s + 1}
        OBVIOUS
      <4>2. PICK T : T = 1 .. BATCH_SIZE
        OBVIOUS
      <4>3. New = S \X T
        BY <2>7, <4>1, <4>2
      <4>4. IsFiniteSet(S) /\ Cardinality(S) = 1 /\ IsFiniteSet(T) /\ Cardinality(T) = BATCH_SIZE
        BY <3>1, <3>2, <3>3, <4>1, <4>2
      <4>5. IsFiniteSet(S \X T) /\ Cardinality(S \X T) = Cardinality(S) * Cardinality(T)
        BY <4>4, FS_Product
      <4>6. QED
        BY <4>3, <4>4, <4>5
    <3>5. QED
      BY <3>4, Constants
  <2>11. IsFiniteSet(Held)
    BY <1>0, HeldType
  <2>12. Cardinality(Held') = h + BATCH_SIZE
    <3>1. Cardinality(Held \cup New) = Cardinality(Held) + Cardinality(New) - Cardinality(Held \cap New)
      BY <2>10, <2>11, FS_Union
    <3>2. Cardinality(Held \cap New) = 0
      BY <2>9, FS_EmptySet
    <3>3. QED
      BY <1>2, <2>8, <2>10, <3>1, <3>2, Constants
  <2>13. num_inflight_txns' = 0 + (h + BATCH_SIZE)
    BY <1>3, <2>3, <2>4, Constants
  <2>14. QED
    BY <2>3, <2>12, <2>13 DEF Places
<1>12. QED
  BY <1>6, <1>7, <1>8, <1>9, <1>10, <1>11, Actions

(* num_inflight_txns counts the places taken: by the batch being filled    *)
(* and by the transactions of the batches sent that no thread has given    *)
(* back.  So dec_inflight never finds the counter at zero.                 *)
THEOREM InFlightExact == Spec => []InFlight
<1>1. Init => Places
  <2> SUFFICES ASSUME Init PROVE Places
    OBVIOUS
  <2>1. Held = {}
    BY DEF Init, Held
  <2>2. QED
    BY <2>1, FS_EmptySet DEF Init, Places
<1>2. Inv /\ Places /\ [Next]_vars => Places'
  BY PlacesNext
<1>3. Inv /\ Places => InFlight
  BY PlacesIs DEF Inv
<1>4. QED
  BY <1>1, <1>2, <1>3, InvHolds, PTL DEF Spec
=============================================================================

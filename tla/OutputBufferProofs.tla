------------------------- MODULE OutputBufferProofs -------------------------
(***************************************************************************)
(* Proofs about OutputBuffer, for any number of threads, nodes, messages   *)
(* and places in a buffer.                                                 *)
(*                                                                         *)
(* A message of thread p for node d passes four places: what p has still   *)
(* to push, the queue of the output thread of d, what that thread has      *)
(* still to copy, and the buffer and wire of d.  The invariant says that   *)
(* the messages of p for d are in these four places and none is lost, and  *)
(* that those nearer to the wire were sent before the others.              *)
(***************************************************************************)
EXTENDS OutputBuffer, TallyProofs

(* The output thread of a node. *)
T(d) == d % SEND_THREAD_CNT

(* The messages of p for d in a sequence of messages, and in a sequence of *)
(* pairs with first component x.                                           *)
Mine(m, p, d) == m.from = p /\ d \in m.dest
In(s, p, d) == {k \in 1 .. MaxMsg : \E i \in 1 .. Len(s) : s[i].id = k /\ Mine(s[i], p, d)}
PairIn(s, x, p, d) ==
  {k \in 1 .. MaxMsg : \E i \in 1 .. Len(s) : s[i][1] = x /\ s[i][2].id = k /\ Mine(s[i][2], p, d)}

Sorted(s, p, d) ==
  \A i, j \in 1 .. Len(s) : i < j /\ Mine(s[i], p, d) /\ Mine(s[j], p, d) => s[i].id < s[j].id
Distinct(s) == \A i, j \in 1 .. Len(s) : s[i][1] = s[j][1] => i = j
Below(A, B) == \A x \in A, y \in B : x < y

Sent(p, d)   == In(sent, p, d)
Pushed(p, d) == PairIn(pushing[p], T(d), p, d)
Queued(p, d) == In(m_queue[T(d)], p, d)
Copied(p, d) == PairIn(copying[T(d)], d, p, d)
Passed(p, d) == In(Out(d), p, d)

(* The way of the messages of p for d. *)
Way(p, d) ==
  /\ Sent(p, d) = Passed(p, d) \cup Copied(p, d) \cup Queued(p, d) \cup Pushed(p, d)
  /\ Below(Passed(p, d), Copied(p, d)) /\ Below(Passed(p, d), Queued(p, d))
  /\ Below(Passed(p, d), Pushed(p, d)) /\ Below(Copied(p, d), Queued(p, d))
  /\ Below(Copied(p, d), Pushed(p, d)) /\ Below(Queued(p, d), Pushed(p, d))
  /\ Sorted(Out(d), p, d) /\ Sorted(m_queue[T(d)], p, d)

(* What the places hold is what belongs there. *)
Numbered == \A i \in 1 .. Len(sent) : sent[i].id = i
Own(p) == Distinct(pushing[p]) /\ \A i \in 1 .. Len(pushing[p]) : pushing[p][i][2].from = p
Served(t) ==
  /\ Distinct(copying[t])
  /\ \A i \in 1 .. Len(copying[t]) : copying[t][i][1] \in copying[t][i][2].dest \cap Serves(t)
Addressed(d) == \A i \in 1 .. Len(Out(d)) : d \in Out(d)[i].dest

Placed ==
  /\ Numbered /\ \A p \in Producer : Own(p)
  /\ \A t \in Output : Served(t)
  /\ \A d \in Node : Addressed(d)

(* Nothing waits before the end of the warm-up. *)
Calm == OnlyUnforcedWait /\ (~warmup_done => \A d \in Node : buffer[d] = <<>>)

Inv == TypeOK /\ Placed /\ Calm /\ \A p \in Producer, d \in Node : Way(p, d)
-----------------------------------------------------------------------------
LEMMA Constants ==
  /\ IsFiniteSet(Node) /\ Node \subseteq Nat /\ Replica \subseteq Node /\ Client \in Node
  /\ SEND_THREAD_CNT \in Nat /\ SEND_THREAD_CNT > 0 /\ MESSAGE_PER_BUFFER \in Nat /\ MESSAGE_PER_BUFFER > 0
  /\ MaxMsg \in Nat /\ IsFiniteSet(Output) /\ Output \subseteq Nat
<1>1. IsFiniteSet(Node)
  BY ConstantsAssumption, FS_AddElement DEF Node
<1>2. IsFiniteSet(Output)
  BY ConstantsAssumption, FS_Interval DEF Output
<1>3. QED
  BY <1>1, <1>2, ConstantsAssumption DEF Node, Output

LEMMA ThreadOf ==
  ASSUME NEW d \in Node
  PROVE  T(d) \in Output /\ d \in Serves(T(d)) /\ \A t \in Output : d \in Serves(t) => t = T(d)
<1>1. d \in Int
  BY Constants
<1>2. d % SEND_THREAD_CNT \in 0 .. (SEND_THREAD_CNT - 1)
  BY <1>1, Constants, Remainder
<1>3. QED
  BY <1>2 DEF T, Output, Serves

-----------------------------------------------------------------------------
(* A message more at the end of a sequence, or one less at its head. *)
LEMMA InAppend ==
  ASSUME NEW s \in Seq(Message), NEW m \in Message, NEW p, NEW d
  PROVE  In(Append(s, m), p, d) = In(s, p, d) \cup (IF Mine(m, p, d) THEN {m.id} ELSE {})
<1>1. PICK l \in Nat : l = Len(s)
  OBVIOUS
<1>2. Len(Append(s, m)) = l + 1 /\ Append(s, m)[l + 1] = m /\ \A i \in 1 .. l : Append(s, m)[i] = s[i]
  BY <1>1
<1>3. \A i : i \in 1 .. (l + 1) <=> i \in 1 .. l \/ i = l + 1
  OBVIOUS
<1>4. m.id \in 1 .. MaxMsg
  BY DEF Message
<1>5. PICK a : a = Append(s, m)
  OBVIOUS
<1>6. Len(a) = l + 1 /\ a[l + 1] = m /\ \A i \in 1 .. l : a[i] = s[i]
  BY <1>2, <1>5
<1>7. In(a, p, d) = In(s, p, d) \cup (IF Mine(m, p, d) THEN {m.id} ELSE {})
  BY <1>1, <1>3, <1>4, <1>6 DEF In
<1>8. QED
  BY <1>5, <1>7

LEMMA SortedAppend ==
  ASSUME NEW s \in Seq(Message), NEW m \in Message, NEW p, NEW d,
         Sorted(s, p, d), Mine(m, p, d) => Below(In(s, p, d), {m.id})
  PROVE  Sorted(Append(s, m), p, d)
<1>1. PICK l \in Nat : l = Len(s)
  OBVIOUS
<1>2. PICK a : a = Append(s, m)
  OBVIOUS
<1>3. Len(a) = l + 1 /\ a[l + 1] = m /\ \A i \in 1 .. l : a[i] = s[i]
  BY <1>1, <1>2
<1>4. SUFFICES ASSUME NEW i \in 1 .. (l + 1), NEW j \in 1 .. (l + 1), i < j, Mine(a[i], p, d), Mine(a[j], p, d)
               PROVE  a[i].id < a[j].id
  BY <1>2, <1>3 DEF Sorted
<1>5. i \in 1 .. l
  BY <1>4
<1>6. CASE j \in 1 .. l
  BY <1>1, <1>3, <1>4, <1>5, <1>6 DEF Sorted
<1>7. CASE j = l + 1
  <2>1. s[i].id \in 1 .. MaxMsg
    <3>1. s[i] \in Message
      BY <1>1, <1>5
    <3>2. QED
      BY <3>1 DEF Message
  <2>2. s[i].id \in In(s, p, d)
    BY <1>1, <1>3, <1>4, <1>5, <2>1 DEF In
  <2>3. QED
    BY <1>3, <1>4, <1>5, <1>7, <2>2 DEF Below
<1>8. QED
  BY <1>6, <1>7

LEMMA InTail ==
  ASSUME NEW s \in Seq(Message), s # <<>>, NEW p, NEW d
  PROVE  /\ Head(s) \in Message /\ Tail(s) \in Seq(Message)
         /\ In(s, p, d) = In(Tail(s), p, d) \cup (IF Mine(Head(s), p, d) THEN {Head(s).id} ELSE {})
<1>1. PICK l \in Nat : l + 1 = Len(s)
  <2>1. Len(s) \in Nat /\ Len(s) # 0
    OBVIOUS
  <2>2. QED
    BY <2>1
<1>2. PICK a \in Seq(Message) : a = Tail(s)
  <2>1. Tail(s) \in Seq(Message)
    OBVIOUS
  <2>2. QED
    BY <2>1
<1>3. Len(a) = l /\ \A i \in 1 .. l : a[i] = s[i + 1]
  BY <1>1, <1>2
<1>4. PICK m \in Message : m = Head(s) /\ m = s[1]
  BY <1>1
<1>5. m.id \in 1 .. MaxMsg
  BY DEF Message
<1>6. ASSUME NEW k \in 1 .. MaxMsg
      PROVE  (\E i \in 1 .. (l + 1) : s[i].id = k /\ Mine(s[i], p, d))
               <=> (\E i \in 1 .. l : a[i].id = k /\ Mine(a[i], p, d)) \/ (m.id = k /\ Mine(m, p, d))
  <2>1. ASSUME NEW i \in 1 .. (l + 1), s[i].id = k, Mine(s[i], p, d)
        PROVE  (\E j \in 1 .. l : a[j].id = k /\ Mine(a[j], p, d)) \/ (m.id = k /\ Mine(m, p, d))
    <3>1. CASE i = 1
      BY <1>4, <2>1, <3>1
    <3>2. CASE i # 1
      <4>1. PICK j \in 1 .. l : j + 1 = i
        <5>1. i - 1 \in 1 .. l /\ (i - 1) + 1 = i
          BY <3>2
        <5>2. QED
          BY <5>1
      <4>2. QED
        BY <1>3, <2>1, <4>1
    <3>3. QED
      BY <3>1, <3>2
  <2>2. \A i \in 1 .. l : i + 1 \in 1 .. (l + 1)
    OBVIOUS
  <2>3. 1 \in 1 .. (l + 1)
    OBVIOUS
  <2>4. QED
    BY <1>3, <1>4, <2>1, <2>2, <2>3
<1>7. In(s, p, d) = In(a, p, d) \cup (IF Mine(m, p, d) THEN {m.id} ELSE {})
  BY <1>1, <1>3, <1>5, <1>6 DEF In
<1>8. QED
  BY <1>2, <1>4, <1>7

LEMMA SortedTail ==
  ASSUME NEW s \in Seq(Message), s # <<>>, NEW p, NEW d, Sorted(s, p, d)
  PROVE  Sorted(Tail(s), p, d) /\ (Mine(Head(s), p, d) => Below({Head(s).id}, In(Tail(s), p, d)))
<1>1. PICK l \in Nat : l + 1 = Len(s)
  <2>1. Len(s) \in Nat /\ Len(s) # 0
    OBVIOUS
  <2>2. QED
    BY <2>1
<1>2. PICK a \in Seq(Message) : a = Tail(s)
  <2>1. Tail(s) \in Seq(Message)
    OBVIOUS
  <2>2. QED
    BY <2>1
<1>3. Len(a) = l /\ \A i \in 1 .. l : a[i] = s[i + 1]
  BY <1>1, <1>2
<1>4. PICK m \in Message : m = Head(s) /\ m = s[1]
  BY <1>1
<1>5. \A i, j \in 1 .. (l + 1) : i < j /\ Mine(s[i], p, d) /\ Mine(s[j], p, d) => s[i].id < s[j].id
  BY <1>1 DEF Sorted
<1>6. \A i \in 1 .. l : i + 1 \in 1 .. (l + 1) /\ 1 \in 1 .. (l + 1) /\ 1 < i + 1
  OBVIOUS
<1>7. Sorted(a, p, d)
  <2> SUFFICES ASSUME NEW i \in 1 .. l, NEW j \in 1 .. l, i < j, Mine(a[i], p, d), Mine(a[j], p, d)
               PROVE  a[i].id < a[j].id
    BY <1>3 DEF Sorted
  <2>1. i + 1 < j + 1
    OBVIOUS
  <2>2. QED
    BY <1>3, <1>5, <1>6, <2>1
<1>8. ASSUME Mine(m, p, d), NEW k \in In(a, p, d) PROVE m.id < k
  <2>1. PICK i \in 1 .. l : a[i].id = k /\ Mine(a[i], p, d)
    BY <1>3, <1>8 DEF In
  <2>2. QED
    BY <1>3, <1>4, <1>5, <1>6, <1>8, <2>1
<1>9. QED
  BY <1>2, <1>4, <1>7, <1>8 DEF Below

(* One less at the head of a sequence of pairs with distinct first         *)
(* components.                                                             *)
LEMMA PairTail ==
  ASSUME NEW X, NEW s \in Seq(X \X Message), s # <<>>, Distinct(s)
  PROVE  Distinct(Tail(s)) /\ \A i \in 1 .. Len(Tail(s)) : \E j \in 1 .. Len(s) : Tail(s)[i] = s[j]
<1>1. PICK l \in Nat : l + 1 = Len(s)
  <2>1. Len(s) \in Nat /\ Len(s) # 0
    OBVIOUS
  <2>2. QED
    BY <2>1
<1>2. PICK a : a = Tail(s)
  OBVIOUS
<1>3. Len(a) = l /\ \A i \in 1 .. l : a[i] = s[i + 1] /\ i + 1 \in 1 .. (l + 1)
  BY <1>1, <1>2
<1>4. Distinct(a)
  <2> SUFFICES ASSUME NEW i \in 1 .. l, NEW j \in 1 .. l, a[i][1] = a[j][1] PROVE i = j
    BY <1>3 DEF Distinct
  <2>1. i + 1 = j + 1
    BY <1>1, <1>3 DEF Distinct
  <2>2. QED
    BY <2>1
<1>5. \A i \in 1 .. Len(a) : \E j \in 1 .. Len(s) : a[i] = s[j]
  BY <1>1, <1>3
<1>6. QED
  BY <1>2, <1>4, <1>5

LEMMA PairGone ==
  ASSUME NEW X, NEW s \in Seq(X \X Message), s # <<>>, Distinct(s), NEW p, NEW d, NEW y
  PROVE  /\ y = Head(s)[1] => /\ PairIn(s, y, p, d) = (IF Mine(Head(s)[2], p, d) THEN {Head(s)[2].id} ELSE {})
                              /\ PairIn(Tail(s), y, p, d) = {}
         /\ y # Head(s)[1] => PairIn(Tail(s), y, p, d) = PairIn(s, y, p, d)
<1>1. PICK l \in Nat : l + 1 = Len(s)
  <2>1. Len(s) \in Nat /\ Len(s) # 0
    OBVIOUS
  <2>2. QED
    BY <2>1
<1>2. PICK a : a = Tail(s)
  OBVIOUS
<1>3. Len(a) = l /\ \A i \in 1 .. l : a[i] = s[i + 1]
  BY <1>1, <1>2
<1>4. Head(s) \in X \X Message /\ Head(s) = s[1]
  BY <1>1
<1>5. PICK x \in X, m \in Message : x = Head(s)[1] /\ m = Head(s)[2] /\ x = s[1][1] /\ m = s[1][2]
  BY <1>4
<1>6. \A i, j \in 1 .. (l + 1) : s[i][1] = s[j][1] => i = j
  BY <1>1 DEF Distinct
<1>7. \A i \in 1 .. l : i + 1 \in 1 .. (l + 1) /\ 1 \in 1 .. (l + 1) /\ i + 1 # 1
  OBVIOUS
<1>8. 1 \in 1 .. (l + 1) /\ m.id \in 1 .. MaxMsg
  BY DEF Message
<1>9. PairIn(s, x, p, d) = (IF Mine(m, p, d) THEN {m.id} ELSE {})
  <2>1. \A i \in 1 .. (l + 1) : s[i][1] = x => i = 1
    BY <1>5, <1>6, <1>8
  <2>2. QED
    BY <1>1, <1>5, <1>8, <2>1 DEF PairIn
<1>10. PairIn(a, x, p, d) = {}
  <2>1. \A i \in 1 .. l : a[i][1] # x
    BY <1>3, <1>5, <1>6, <1>7
  <2>2. QED
    BY <1>3, <2>1 DEF PairIn
<1>11. ASSUME y # x PROVE PairIn(a, y, p, d) = PairIn(s, y, p, d)
  <2>1. ASSUME NEW k, NEW i \in 1 .. (l + 1), s[i][1] = y /\ s[i][2].id = k /\ Mine(s[i][2], p, d)
        PROVE  \E j \in 1 .. l : a[j][1] = y /\ a[j][2].id = k /\ Mine(a[j][2], p, d)
    <3>1. i # 1
      BY <1>5, <1>11, <2>1
    <3>2. PICK j \in 1 .. l : j + 1 = i
      <4>1. i - 1 \in 1 .. l /\ (i - 1) + 1 = i
        BY <3>1
      <4>2. QED
        BY <4>1
    <3>3. QED
      BY <1>3, <2>1, <3>2
  <2>2. ASSUME NEW k, NEW j \in 1 .. l, a[j][1] = y /\ a[j][2].id = k /\ Mine(a[j][2], p, d)
        PROVE  \E i \in 1 .. (l + 1) : s[i][1] = y /\ s[i][2].id = k /\ Mine(s[i][2], p, d)
    BY <1>3, <1>7, <2>2
  <2>3. ASSUME NEW k
        PROVE  (\E i \in 1 .. (l + 1) : s[i][1] = y /\ s[i][2].id = k /\ Mine(s[i][2], p, d))
                 <=> (\E j \in 1 .. l : a[j][1] = y /\ a[j][2].id = k /\ Mine(a[j][2], p, d))
    BY <2>1, <2>2
  <2>4. QED
    BY <1>1, <1>3, <2>3 DEF PairIn
<1>12. QED
  BY <1>2, <1>5, <1>9, <1>10, <1>11

(* A message for each member of a set. *)
Listed(s, S, m) ==
  /\ Len(s) = Cardinality(S)
  /\ \A i \in 1 .. Cardinality(S) :
       s[i][1] = Ascending(S)[i] /\ s[i][2].id = m.id /\ s[i][2].from = m.from /\ s[i][2].dest = m.dest

PairsAre(s, S, m, p, d) ==
  /\ \A x \in S : PairIn(s, x, p, d) = (IF Mine(m, p, d) THEN {m.id} ELSE {})
  /\ \A x : x \notin S => PairIn(s, x, p, d) = {}

(* Such a list has the message once for every member, and nothing else. *)
LEMMA PairsOf ==
  ASSUME NEW S \in SUBSET Nat, IsFiniteSet(S), NEW s, NEW m \in Message, NEW p, NEW d,
         Listed(s, S, m)
  PROVE  /\ Distinct(s) /\ \A i \in 1 .. Len(s) : s[i][1] \in S
         /\ PairsAre(s, S, m, p, d)
<1>1. PICK n \in Nat : n = Cardinality(S)
  BY AscendingLists
<1>2. PICK a : a = Ascending(S)
  OBVIOUS
<1>3. /\ a \in [1 .. n -> S] /\ \A x \in S : \E i \in 1 .. n : a[i] = x
      /\ \A i, j \in 1 .. n : a[i] = a[j] => i = j
  BY <1>1, <1>2, AscendingLists
<1>4. Len(s) = n /\ \A i \in 1 .. n : s[i][1] = a[i] /\ s[i][2].id = m.id /\ (Mine(s[i][2], p, d) <=> Mine(m, p, d))
  BY <1>1, <1>2 DEF Mine, Listed
<1>5. m.id \in 1 .. MaxMsg
  BY DEF Message
<1>6. Distinct(s) /\ \A i \in 1 .. Len(s) : s[i][1] \in S
  BY <1>3, <1>4 DEF Distinct
<1>7. \A x \in S : PairIn(s, x, p, d) = (IF Mine(m, p, d) THEN {m.id} ELSE {})
  BY <1>3, <1>4, <1>5 DEF PairIn
<1>8. \A x : x \notin S => PairIn(s, x, p, d) = {}
  BY <1>3, <1>4 DEF PairIn
<1>9. QED
  BY <1>6, <1>7, <1>8 DEF PairsAre
-----------------------------------------------------------------------------
LEMMA Types ==
  ASSUME TypeOK
  PROVE  /\ sent \in Seq(Message) /\ pushing \in [Producer -> Seq(Output \X Message)]
         /\ m_queue \in [Output -> Seq(Message)] /\ copying \in [Output -> Seq(Node \X Message)]
         /\ buffer \in [Node -> Seq(Message)] /\ \A d \in Node : Len(buffer[d]) <= MESSAGE_PER_BUFFER
         /\ force \in [Node -> BOOLEAN] /\ warmup_done \in BOOLEAN /\ wire \in [Node -> Seq(Message)]
         /\ \A d \in Node : Out(d) \in Seq(Message)
<1>1. buffer \in [Node -> Seq(Message)] /\ wire \in [Node -> Seq(Message)]
  BY DEF TypeOK
<1>2. \A d \in Node : buffer[d] \in Seq(Message) /\ wire[d] \in Seq(Message)
  BY <1>1
<1>3. \A d \in Node : Out(d) \in Seq(Message)
  BY <1>2 DEF Out
<1>4. QED
  BY <1>3 DEF TypeOK

LEMMA InitInv == Init => Inv
<1> SUFFICES ASSUME Init PROVE Inv
  OBVIOUS
<1>1. TypeOK
  <2>1. <<>> \in Seq(Message) /\ <<>> \in Seq(Output \X Message) /\ <<>> \in Seq(Node \X Message)
    OBVIOUS
  <2>2. /\ sent \in Seq(Message) /\ pushing \in [Producer -> Seq(Output \X Message)]
        /\ m_queue \in [Output -> Seq(Message)] /\ copying \in [Output -> Seq(Node \X Message)]
        /\ buffer \in [Node -> Seq(Message)] /\ wire \in [Node -> Seq(Message)]
    BY <2>1 DEF Init
  <2>3. force \in [Node -> BOOLEAN] /\ warmup_done \in BOOLEAN
    BY DEF Init
  <2>4. \A d \in Node : Len(buffer[d]) <= MESSAGE_PER_BUFFER
    BY Constants DEF Init
  <2>5. QED
    BY <2>2, <2>3, <2>4 DEF TypeOK
<1>2. \A d \in Node : Out(d) = <<>> /\ buffer[d] = <<>>
  BY DEF Init, Out
<1>3. Placed
  BY <1>2 DEF Init, Placed, Numbered, Own, Served, Addressed, Distinct
<1>4. Calm
  BY <1>2, Constants DEF Calm, OnlyUnforcedWait
<1>5. ASSUME NEW p \in Producer, NEW d \in Node PROVE Way(p, d)
  <2>1. T(d) \in Output
    BY ThreadOf
  <2>2. /\ Sent(p, d) = {} /\ Pushed(p, d) = {} /\ Queued(p, d) = {} /\ Copied(p, d) = {} /\ Passed(p, d) = {}
    BY <1>2, <2>1 DEF Init, Sent, Pushed, Queued, Copied, Passed, In, PairIn
  <2>3. Sorted(Out(d), p, d) /\ Sorted(m_queue[T(d)], p, d)
    BY <1>2, <2>1 DEF Init, Sorted
  <2>4. QED
    BY <2>2, <2>3 DEF Way, Below
<1>6. QED
  BY <1>1, <1>3, <1>4, <1>5 DEF Inv

(* What a step does to the places, with the message it moves. *)
Enqueues(p, dest, m, s) ==
  /\ m.id = Len(sent) + 1 /\ m.from = p /\ m.dest = dest
  /\ sent' = Append(sent, m) /\ pushing[p] = <<>> /\ pushing' = [pushing EXCEPT ![p] = s]
  /\ Queues(m) \in SUBSET Nat /\ IsFiniteSet(Queues(m)) /\ Len(s) = Cardinality(Queues(m))
  /\ \A i \in 1 .. Cardinality(Queues(m)) :
       /\ s[i][1] = Ascending(Queues(m))[i]
       /\ s[i][2].id = m.id /\ s[i][2].from = m.from /\ s[i][2].dest = m.dest
  /\ \A d \in dest : T(d) \in Queues(m)
  /\ UNCHANGED <<m_queue, copying, buffer, force, warmup_done, wire>>

Pushes(p, t, m) ==
  /\ pushing[p] # <<>> /\ t = Head(pushing[p])[1] /\ m = Head(pushing[p])[2] /\ m.from = p
  /\ m_queue' = [m_queue EXCEPT ![t] = Append(m_queue[t], m)]
  /\ pushing' = [pushing EXCEPT ![p] = Tail(pushing[p])]
  /\ UNCHANGED <<sent, copying, buffer, force, warmup_done, wire>>

Takes(t, m, s, S) ==
  /\ copying[t] = <<>> /\ m_queue[t] # <<>> /\ m = Head(m_queue[t]) /\ S = m.dest \cap Serves(t)
  /\ IsFiniteSet(S) /\ Len(s) = Cardinality(S)
  /\ \A i \in 1 .. Cardinality(S) : s[i][1] = Ascending(S)[i] /\ s[i][2] = m
  /\ copying' = [copying EXCEPT ![t] = s]
  /\ m_queue' = [m_queue EXCEPT ![t] = Tail(m_queue[t])]
  /\ UNCHANGED <<sent, pushing, buffer, force, warmup_done, wire>>

Copies(t, d, m) ==
  /\ copying[t] # <<>> /\ d = Head(copying[t])[1] /\ m = Head(copying[t])[2]
  /\ d \in m.dest /\ d \in Serves(t)
  /\ copying' = [copying EXCEPT ![t] = Tail(copying[t])]
  /\ UNCHANGED <<sent, pushing, m_queue, warmup_done>>
  /\ buffer' \in [Node -> Seq(Message)] /\ wire' \in [Node -> Seq(Message)] /\ force' \in [Node -> BOOLEAN]
  /\ \A e \in Node : Out(e)' = IF e = d THEN Append(Out(e), m) ELSE Out(e)
  /\ \A e \in Node : \/ buffer'[e] = <<>>
                     \/ e # d /\ buffer'[e] = buffer[e]
                     \/ /\ e = d /\ buffer'[e] = Append(buffer[e], m) /\ warmup_done
                        /\ Len(buffer[e]) + 1 # MESSAGE_PER_BUFFER /\ m.type # "GENERIC" /\ ~m.force

(* What a thread sends, and the queues it goes to. *)
LEMMA EnqueueStep ==
  ASSUME TypeOK, NEW p \in Producer, NEW type \in Type, NEW forced \in BOOLEAN, NEW dest \in SUBSET Node,
         enqueue(p, type, forced, dest)
  PROVE  \E m \in Message, s \in Seq(Output \X Message) :
           Enqueues(p, dest, m, s)
<1>1. PICK l \in Nat : l = Len(sent) /\ l < MaxMsg
  BY DEF TypeOK, enqueue
<1>2. PICK m : m = [id |-> l + 1, from |-> p, type |-> type, force |-> forced, dest |-> dest]
  OBVIOUS
<1>3. m \in Message /\ deep_copy_msg(m) \in Message
  <2>1. l + 1 \in 1 .. MaxMsg
    BY <1>1, Constants
  <2>2. QED
    BY <1>2, <2>1 DEF Message, deep_copy_msg
<1>4. /\ m.id = l + 1 /\ m.from = p /\ m.dest = dest
      /\ deep_copy_msg(m).id = m.id /\ deep_copy_msg(m).from = m.from /\ deep_copy_msg(m).dest = m.dest
  BY <1>2 DEF deep_copy_msg
<1>5. PICK Q : Q = Queues(m)
  OBVIOUS
<1>6. Q \subseteq Output /\ Q \in SUBSET Nat /\ IsFiniteSet(Q)
  <2>1. Q \subseteq Output
    BY <1>5 DEF Queues
  <2>2. QED
    BY <2>1, Constants, FS_Subset
<1>7. PICK n \in Nat : n = Cardinality(Q)
  BY <1>6, AscendingLists
<1>8. PICK A \in [1 .. n -> Q] : A = Ascending(Q)
  BY <1>6, <1>7, AscendingLists
<1>9. PICK s : s = [i \in 1 .. n |-> <<A[i], IF A[i] = SEND_THREAD_CNT - 1 THEN m ELSE deep_copy_msg(m)>>]
  OBVIOUS
<1>10. s \in Seq(Output \X Message) /\ Len(s) = n
  <2>1. s \in [1 .. n -> Output \X Message]
    BY <1>3, <1>6, <1>8, <1>9
  <2>2. QED
    BY <2>1
<1>11. sent' = Append(sent, m) /\ pushing[p] = <<>> /\ pushing' = [pushing EXCEPT ![p] = s]
  BY <1>1, <1>2, <1>5, <1>7, <1>8, <1>9 DEF enqueue
<1>12. \A i \in 1 .. n : /\ s[i][1] = A[i]
                         /\ s[i][2].id = m.id /\ s[i][2].from = m.from /\ s[i][2].dest = m.dest
  BY <1>4, <1>9
<1>13. ASSUME NEW d \in dest PROVE T(d) \in Queues(m)
  <2>1. T(d) \in Output /\ d \in Serves(T(d))
    BY ThreadOf
  <2>2. QED
    BY <1>4, <2>1 DEF Queues
<1>14. UNCHANGED <<m_queue, copying, buffer, force, warmup_done, wire>>
  BY DEF enqueue
<1>15. QED
  BY <1>1, <1>3, <1>4, <1>5, <1>6, <1>7, <1>8, <1>10, <1>11, <1>12, <1>13, <1>14 DEF Enqueues

LEMMA PushStep ==
  ASSUME TypeOK, Placed, NEW p \in Producer, push(p)
  PROVE  \E t \in Output, m \in Message :
           Pushes(p, t, m)
<1>1. PICK s \in Seq(Output \X Message) : s = pushing[p] /\ s # <<>>
  BY Types DEF push
<1>2. Head(s) \in Output \X Message /\ Head(s) = s[1] /\ 1 \in 1 .. Len(s)
  BY <1>1
<1>3. PICK t \in Output, m \in Message : t = Head(s)[1] /\ m = Head(s)[2]
  BY <1>2
<1>4. m.from = p
  BY <1>1, <1>2, <1>3 DEF Placed, Own
<1>5. QED
  BY <1>1, <1>3, <1>4 DEF push, Pushes

LEMMA DequeueStep ==
  ASSUME TypeOK, NEW t \in Output, dequeue(t)
  PROVE  \E m \in Message, s \in Seq(Node \X Message), S \in SUBSET Nat :
           Takes(t, m, s, S)
<1>1. PICK q \in Seq(Message) : q = m_queue[t] /\ q # <<>>
  BY Types DEF dequeue
<1>2. PICK m \in Message : m = Head(q)
  BY <1>1
<1>3. PICK S : S = m.dest \cap Serves(t)
  OBVIOUS
<1>4. S \subseteq Node /\ S \in SUBSET Nat /\ IsFiniteSet(S)
  <2>1. S \subseteq Node
    BY <1>3 DEF Serves
  <2>2. QED
    BY <2>1, Constants, FS_Subset
<1>5. PICK n \in Nat : n = Cardinality(S)
  BY <1>4, AscendingLists
<1>6. PICK A \in [1 .. n -> S] : A = Ascending(S)
  BY <1>4, <1>5, AscendingLists
<1>7. PICK s : s = [i \in 1 .. n |-> <<A[i], m>>]
  OBVIOUS
<1>8. s \in Seq(Node \X Message) /\ Len(s) = n
  <2>1. s \in [1 .. n -> Node \X Message]
    BY <1>4, <1>6, <1>7
  <2>2. QED
    BY <2>1
<1>9. \A i \in 1 .. n : s[i][1] = A[i] /\ s[i][2] = m
  BY <1>7
<1>10. copying' = [copying EXCEPT ![t] = s]
  <2>1. DOMAIN A = 1 .. n
    BY <1>6
  <2>2. QED
    BY <1>1, <1>2, <1>3, <1>6, <1>7, <2>1 DEF dequeue
<1>11. /\ copying[t] = <<>> /\ m_queue' = [m_queue EXCEPT ![t] = Tail(m_queue[t])]
       /\ UNCHANGED <<sent, pushing, buffer, force, warmup_done, wire>>
  BY DEF dequeue
<1>12. /\ m_queue[t] # <<>> /\ m = Head(m_queue[t]) /\ Len(s) = Cardinality(S)
       /\ \A i \in 1 .. Cardinality(S) : s[i][1] = Ascending(S)[i] /\ s[i][2] = m
  BY <1>1, <1>2, <1>5, <1>6, <1>8, <1>9
<1>13. s \in Seq(Node \X Message)
  BY <1>8
<1>14. QED
  <2> s \in Seq(Node \X Message) /\ S \in SUBSET Nat
    BY <1>4, <1>13
  <2> WITNESS m \in Message
  <2> WITNESS s \in Seq(Node \X Message)
  <2> WITNESS S \in SUBSET Nat
  <2>1. QED
    BY <1>3, <1>4, <1>10, <1>11, <1>12 DEF Takes

(* copy_to_buf part by part: the buffers and flags with the message in     *)
(* them, the nodes whose buffer is sent, and what sending them does.       *)
Filled(d, m)   == [buffer EXCEPT ![d] = Append(buffer[d], m)]
Flags(d, m)    == [force EXCEPT ![d] = force[d] \/ m.type = "GENERIC" \/ m.force]
Going(t, d, m) == {e \in Serves(t) : ready(Len(Filled(d, m)[e]), Flags(d, m)[e])}
Sends(filled, flags, Go) ==
  /\ buffer' = [e \in Node |-> IF e \in Go THEN <<>> ELSE filled[e]]
  /\ wire' = [e \in Node |-> IF e \in Go THEN wire[e] \o filled[e] ELSE wire[e]]
  /\ force' = [e \in Node |-> flags[e] /\ ~(warmup_done /\ e \in Go)]

(* What becomes of the buffers when a message is copied: a buffer is sent  *)
(* as a whole, so that the node's messages stay in one order.              *)
LEMMA CopyStep ==
  ASSUME TypeOK, Placed, NEW t \in Output, copy_to_buf(t)
  PROVE  \E d \in Node, m \in Message :
           Copies(t, d, m)
<1>1. PICK s \in Seq(Node \X Message) : s = copying[t] /\ s # <<>>
  BY Types DEF copy_to_buf
<1>2. Head(s) \in Node \X Message /\ Head(s) = s[1] /\ 1 \in 1 .. Len(s)
  BY <1>1
<1>3. PICK d \in Node, m \in Message : d = Head(s)[1] /\ m = Head(s)[2]
  BY <1>2
<1>4. d \in m.dest /\ d \in Serves(t)
  BY <1>1, <1>2, <1>3 DEF Placed, Served
<1>5. PICK forced : forced = (force[d] \/ m.type = "GENERIC" \/ m.force)
  OBVIOUS
<1>6. PICK filled : filled = Filled(d, m)
  OBVIOUS
<1>7. PICK flags : flags = Flags(d, m)
  OBVIOUS
<1>8. PICK Go : Go = Going(t, d, m)
  OBVIOUS
<1>9. /\ buffer' = [e \in Node |-> IF e \in Go THEN <<>> ELSE filled[e]]
      /\ wire' = [e \in Node |-> IF e \in Go THEN wire[e] \o filled[e] ELSE wire[e]]
      /\ force' = [e \in Node |-> flags[e] /\ ~(warmup_done /\ e \in Go)]
      /\ copying' = [copying EXCEPT ![t] = Tail(copying[t])] /\ UNCHANGED <<sent, pushing, m_queue, warmup_done>>
  <2>1. LET h == Head(copying[t]) IN Sends(Filled(h[1], h[2]), Flags(h[1], h[2]), Going(t, h[1], h[2]))
    BY Zenon DEF copy_to_buf, Sends, Filled, Flags, Going
  <2>2. Head(copying[t])[1] = d /\ Head(copying[t])[2] = m
    BY <1>1, <1>3
  <2>3. Sends(filled, flags, Go)
    BY <1>6, <1>7, <1>8, <2>1, <2>2
  <2>4. copying' = [copying EXCEPT ![t] = Tail(copying[t])] /\ UNCHANGED <<sent, pushing, m_queue, warmup_done>>
    BY DEF copy_to_buf
  <2>5. QED
    BY <2>3, <2>4, Zenon DEF Sends
<1>10. /\ buffer \in [Node -> Seq(Message)] /\ wire \in [Node -> Seq(Message)] /\ force \in [Node -> BOOLEAN]
       /\ \A e \in Node : buffer[e] \in Seq(Message) /\ wire[e] \in Seq(Message) /\ Len(buffer[e]) \in Nat
  <2>1. buffer \in [Node -> Seq(Message)] /\ wire \in [Node -> Seq(Message)] /\ force \in [Node -> BOOLEAN]
    BY Types
  <2>2. QED
    BY <2>1
<1>11. /\ \A e \in Node : filled[e] = IF e = d THEN Append(buffer[e], m) ELSE buffer[e]
       /\ flags[d] = forced
  BY <1>5, <1>6, <1>7, <1>10 DEF Filled, Flags
<1>12. ASSUME NEW e \in Node PROVE filled[e] \in Seq(Message)
  <2>1. buffer[e] \in Seq(Message) /\ Append(buffer[e], m) \in Seq(Message)
    BY <1>10
  <2>2. QED
    BY <1>11, <2>1
<1>13. buffer' \in [Node -> Seq(Message)] /\ wire' \in [Node -> Seq(Message)] /\ force' \in [Node -> BOOLEAN]
  BY <1>9, <1>10, <1>12
<1>14. ASSUME NEW e \in Node PROVE Out(e)' = IF e = d THEN Append(Out(e), m) ELSE Out(e)
  <2>1. Out(e)' = wire[e] \o filled[e]
    <3>1. Out(e)' = wire'[e] \o buffer'[e]
      BY DEF Out
    <3>2. CASE e \in Go
      <4>1. wire'[e] = wire[e] \o filled[e] /\ buffer'[e] = <<>>
        BY <1>9, <3>2
      <4>2. wire[e] \o filled[e] \in Seq(Message)
        BY <1>10, <1>12
      <4>3. QED
        BY <3>1, <4>1, <4>2
    <3>3. CASE e \notin Go
      BY <1>9, <3>1, <3>3
    <3>4. QED
      BY <3>2, <3>3
  <2>2. CASE e # d
    BY <1>11, <2>1, <2>2 DEF Out
  <2>3. CASE e = d
    <3>1. wire[e] \o Append(buffer[e], m) = Append(wire[e] \o buffer[e], m)
      BY <1>10
    <3>2. QED
      BY <1>11, <2>1, <2>3, <3>1 DEF Out
  <2>4. QED
    BY <2>2, <2>3
<1>15. ASSUME NEW e \in Node
       PROVE  \/ buffer'[e] = <<>>
              \/ e # d /\ buffer'[e] = buffer[e]
              \/ /\ e = d /\ buffer'[e] = Append(buffer[e], m) /\ warmup_done
                 /\ Len(buffer[e]) + 1 # MESSAGE_PER_BUFFER /\ m.type # "GENERIC" /\ ~m.force
  <2>1. CASE e \in Go
    BY <1>9, <2>1
  <2>2. CASE e \notin Go /\ e # d
    BY <1>9, <1>11, <2>2
  <2>3. CASE e \notin Go /\ e = d
    <3>1. buffer'[e] = Append(buffer[e], m)
      BY <1>9, <1>11, <2>3
    <3>2. PICK c \in Nat : c = Len(buffer[e])
      BY <1>10
    <3>3. Len(Append(buffer[e], m)) = c + 1
      BY <1>10, <3>2
    <3>4. ~ready(c + 1, forced)
      BY <1>4, <1>6, <1>7, <1>8, <1>11, <2>3, <3>3 DEF Going
    <3>5. warmup_done /\ c + 1 # MESSAGE_PER_BUFFER /\ ~forced
      BY <3>4 DEF ready
    <3>6. QED
      BY <1>5, <2>3, <3>1, <3>2, <3>5
  <2>4. QED
    BY <2>1, <2>2, <2>3
<1>16. QED
  BY <1>1, <1>3, <1>4, <1>9, <1>13, <1>14, <1>15 DEF Copies
-----------------------------------------------------------------------------
LEMMA Steps ==
  ASSUME TypeOK, Placed, [Next]_vars
  PROVE  \/ \E p \in Producer, dest \in SUBSET Node, m \in Message, s \in Seq(Output \X Message) : Enqueues(p, dest, m, s)
         \/ \E p \in Producer, t \in Output, m \in Message : Pushes(p, t, m)
         \/ \E t \in Output, m \in Message, s \in Seq(Node \X Message), S \in SUBSET Nat : Takes(t, m, s, S)
         \/ \E t \in Output, d \in Node, m \in Message : Copies(t, d, m)
         \/ UNCHANGED <<sent, pushing, m_queue, copying, buffer, force, wire>> /\ warmup_done' \in {TRUE, warmup_done}
<1>1. ASSUME NEW p \in Producer, NEW type \in Type, NEW forced \in BOOLEAN, NEW dest \in SUBSET Node,
             enqueue(p, type, forced, dest)
      PROVE  \E m \in Message, s \in Seq(Output \X Message) : Enqueues(p, dest, m, s)
  BY <1>1, EnqueueStep
<1>2. ASSUME NEW p \in Producer, push(p) PROVE \E t \in Output, m \in Message : Pushes(p, t, m)
  BY <1>2, PushStep
<1>3. ASSUME NEW t \in Output, dequeue(t)
      PROVE  \E m \in Message, s \in Seq(Node \X Message), S \in SUBSET Nat : Takes(t, m, s, S)
  BY <1>3, DequeueStep
<1>4. ASSUME NEW t \in Output, copy_to_buf(t) PROVE \E d \in Node, m \in Message : Copies(t, d, m)
  BY <1>4, CopyStep
<1>5. ASSUME is_warmup_done \/ UNCHANGED vars
      PROVE  UNCHANGED <<sent, pushing, m_queue, copying, buffer, force, wire>> /\ warmup_done' \in {TRUE, warmup_done}
  BY <1>5 DEF is_warmup_done, vars
<1>6. QED
  BY <1>1, <1>2, <1>3, <1>4, <1>5 DEF Next, OutputThread

LEMMA TypeNext ==
  ASSUME TypeOK, Placed, Calm, [Next]_vars
  PROVE  TypeOK'
<1>0. /\ sent \in Seq(Message) /\ pushing \in [Producer -> Seq(Output \X Message)]
      /\ m_queue \in [Output -> Seq(Message)] /\ copying \in [Output -> Seq(Node \X Message)]
      /\ buffer \in [Node -> Seq(Message)] /\ \A d \in Node : Len(buffer[d]) <= MESSAGE_PER_BUFFER
      /\ force \in [Node -> BOOLEAN] /\ warmup_done \in BOOLEAN /\ wire \in [Node -> Seq(Message)]
  BY Types
<1>1. ASSUME NEW p \in Producer, NEW dest \in SUBSET Node, NEW m \in Message, NEW s \in Seq(Output \X Message),
             Enqueues(p, dest, m, s)
      PROVE  TypeOK'
  <2>1. /\ sent' = Append(sent, m) /\ pushing' = [pushing EXCEPT ![p] = s]
        /\ UNCHANGED <<m_queue, copying, buffer, force, warmup_done, wire>>
    BY <1>1 DEF Enqueues
  <2>2. sent' \in Seq(Message)
    BY <1>0, <2>1
  <2>3. pushing' \in [Producer -> Seq(Output \X Message)]
    BY <1>0, <2>1
  <2>4. QED
    BY <1>0, <2>1, <2>2, <2>3 DEF TypeOK
<1>2. ASSUME NEW p \in Producer, NEW t \in Output, NEW m \in Message, Pushes(p, t, m) PROVE TypeOK'
  <2>1. /\ pushing[p] # <<>> /\ m_queue' = [m_queue EXCEPT ![t] = Append(m_queue[t], m)]
        /\ pushing' = [pushing EXCEPT ![p] = Tail(pushing[p])]
        /\ UNCHANGED <<sent, copying, buffer, force, warmup_done, wire>>
    BY <1>2 DEF Pushes
  <2>2. Append(m_queue[t], m) \in Seq(Message)
    <3>1. m_queue[t] \in Seq(Message)
      BY <1>0
    <3>2. QED
      BY <3>1
  <2>3. Tail(pushing[p]) \in Seq(Output \X Message)
    <3>1. pushing[p] \in Seq(Output \X Message)
      BY <1>0
    <3>2. QED
      BY <2>1, <3>1
  <2>4. m_queue' \in [Output -> Seq(Message)] /\ pushing' \in [Producer -> Seq(Output \X Message)]
    BY <1>0, <2>1, <2>2, <2>3
  <2>5. QED
    BY <1>0, <2>1, <2>4 DEF TypeOK
<1>3. ASSUME NEW t \in Output, NEW m \in Message, NEW s \in Seq(Node \X Message), NEW S \in SUBSET Nat,
             Takes(t, m, s, S)
      PROVE  TypeOK'
  <2>1. /\ m_queue[t] # <<>> /\ copying' = [copying EXCEPT ![t] = s]
        /\ m_queue' = [m_queue EXCEPT ![t] = Tail(m_queue[t])]
        /\ UNCHANGED <<sent, pushing, buffer, force, warmup_done, wire>>
    BY <1>3 DEF Takes
  <2>2. Tail(m_queue[t]) \in Seq(Message)
    <3>1. m_queue[t] \in Seq(Message)
      BY <1>0
    <3>2. QED
      BY <2>1, <3>1
  <2>3. m_queue' \in [Output -> Seq(Message)] /\ copying' \in [Output -> Seq(Node \X Message)]
    BY <1>0, <2>1, <2>2
  <2>4. QED
    BY <1>0, <2>1, <2>3 DEF TypeOK
<1>4. ASSUME NEW t \in Output, NEW d \in Node, NEW m \in Message, Copies(t, d, m) PROVE TypeOK'
  <2>1. /\ copying[t] # <<>> /\ copying' = [copying EXCEPT ![t] = Tail(copying[t])]
        /\ UNCHANGED <<sent, pushing, m_queue, warmup_done>>
        /\ buffer' \in [Node -> Seq(Message)] /\ wire' \in [Node -> Seq(Message)] /\ force' \in [Node -> BOOLEAN]
        /\ \A e \in Node : buffer'[e] \in {<<>>, buffer[e], Append(buffer[e], m)}
    BY <1>4 DEF Copies
  <2>2. Tail(copying[t]) \in Seq(Node \X Message)
    <3>1. copying[t] \in Seq(Node \X Message)
      BY <1>0
    <3>2. QED
      BY <2>1, <3>1
  <2>3. copying' \in [Output -> Seq(Node \X Message)]
    BY <1>0, <2>1, <2>2
  <2>4. ASSUME NEW e \in Node PROVE Len(buffer'[e]) <= MESSAGE_PER_BUFFER
    <3>1. PICK c \in Nat : c = Len(buffer[e])
      BY <1>0
    <3>2. c < MESSAGE_PER_BUFFER
      BY <3>1 DEF Calm, OnlyUnforcedWait
    <3>3. Len(Append(buffer[e], m)) = c + 1
      BY <1>0, <3>1
    <3>4. Len(buffer'[e]) \in {0, c, c + 1}
      BY <2>1, <3>1, <3>3
    <3>5. QED
      BY <3>2, <3>4, Constants
  <2>5. QED
    BY <1>0, <2>1, <2>3, <2>4 DEF TypeOK
<1>5. ASSUME UNCHANGED <<sent, pushing, m_queue, copying, buffer, force, wire>>, warmup_done' \in {TRUE, warmup_done}
      PROVE  TypeOK'
  BY <1>0, <1>5 DEF TypeOK
<1>6. QED
  BY <1>1, <1>2, <1>3, <1>4, <1>5, Steps

LEMMA CalmNext ==
  ASSUME TypeOK, Placed, Calm, [Next]_vars
  PROVE  Calm'
<1>0. buffer \in [Node -> Seq(Message)] /\ warmup_done \in BOOLEAN
  BY Types
<1>1. ASSUME UNCHANGED buffer, warmup_done => warmup_done' PROVE Calm'
  BY <1>1 DEF Calm, OnlyUnforcedWait
<1>2. ASSUME NEW t \in Output, NEW d \in Node, NEW m \in Message, Copies(t, d, m) PROVE Calm'
  <2>1. /\ UNCHANGED warmup_done
        /\ \A e \in Node : \/ buffer'[e] = <<>>
                           \/ e # d /\ buffer'[e] = buffer[e]
                           \/ /\ e = d /\ buffer'[e] = Append(buffer[e], m) /\ warmup_done
                              /\ Len(buffer[e]) + 1 # MESSAGE_PER_BUFFER /\ m.type # "GENERIC" /\ ~m.force
    BY <1>2 DEF Copies
  <2>2. ASSUME NEW e \in Node
        PROVE  /\ Len(buffer'[e]) < MESSAGE_PER_BUFFER
               /\ \A i \in DOMAIN buffer'[e] : buffer'[e][i].type # "GENERIC" /\ ~buffer'[e][i].force
               /\ ~warmup_done => buffer'[e] = <<>>
    <3>1. PICK b \in Seq(Message) : b = buffer[e]
      BY <1>0
    <3>2. /\ Len(b) < MESSAGE_PER_BUFFER /\ (~warmup_done => b = <<>>)
          /\ \A i \in DOMAIN b : b[i].type # "GENERIC" /\ ~b[i].force
      BY <3>1 DEF Calm, OnlyUnforcedWait
    <3>3. CASE buffer'[e] = <<>>
      BY <3>3, Constants
    <3>4. CASE buffer'[e] = buffer[e]
      BY <3>1, <3>2, <3>4
    <3>5. CASE /\ buffer'[e] = Append(b, m) /\ warmup_done
               /\ Len(b) + 1 # MESSAGE_PER_BUFFER /\ m.type # "GENERIC" /\ ~m.force
      <4>1. PICK c \in Nat : c = Len(b)
        OBVIOUS
      <4>2. PICK a : a = Append(b, m)
        OBVIOUS
      <4>3. Len(a) = c + 1 /\ DOMAIN a = 1 .. (c + 1) /\ a[c + 1] = m /\ DOMAIN b = 1 .. c /\ \A i \in 1 .. c : a[i] = b[i]
        BY <4>1, <4>2
      <4>4. \A i : i \in 1 .. (c + 1) <=> i \in 1 .. c \/ i = c + 1
        OBVIOUS
      <4>5. c + 1 < MESSAGE_PER_BUFFER
        BY <3>2, <3>5, <4>1, Constants
      <4>6. \A i \in DOMAIN a : a[i].type # "GENERIC" /\ ~a[i].force
        BY <3>2, <3>5, <4>3, <4>4
      <4>7. QED
        BY <3>5, <4>2, <4>3, <4>5, <4>6
    <3>6. QED
      BY <2>1, <3>1, <3>3, <3>4, <3>5
  <2>3. QED
    BY <2>1, <2>2 DEF Calm, OnlyUnforcedWait
<1>3. ASSUME NEW p, NEW dest, NEW m, NEW s, Enqueues(p, dest, m, s) PROVE Calm'
  BY <1>1, <1>3 DEF Enqueues
<1>4. ASSUME NEW p, NEW t, NEW m, Pushes(p, t, m) PROVE Calm'
  BY <1>1, <1>4 DEF Pushes
<1>5. ASSUME NEW t, NEW m, NEW s, NEW S, Takes(t, m, s, S) PROVE Calm'
  BY <1>1, <1>5 DEF Takes
<1>6. ASSUME UNCHANGED buffer, warmup_done' \in {TRUE, warmup_done} PROVE Calm'
  BY <1>1, <1>6
<1>7. QED
  BY <1>2, <1>3, <1>4, <1>5, <1>6, Steps

LEMMA PlacedNext ==
  ASSUME TypeOK, Placed, [Next]_vars
  PROVE  Placed'
<1>0. /\ sent \in Seq(Message) /\ pushing \in [Producer -> Seq(Output \X Message)]
      /\ copying \in [Output -> Seq(Node \X Message)] /\ \A d \in Node : Out(d) \in Seq(Message)
  BY Types
<1>1. Numbered /\ (\A p \in Producer : Own(p)) /\ (\A t \in Output : Served(t)) /\ \A d \in Node : Addressed(d)
  BY DEF Placed
<1>2. ASSUME UNCHANGED sent PROVE Numbered'
  BY <1>1, <1>2 DEF Numbered
<1>3. ASSUME NEW p \in Producer, pushing'[p] = pushing[p] PROVE Own(p)'
  BY <1>1, <1>3 DEF Own
<1>4. ASSUME NEW t \in Output, copying'[t] = copying[t] PROVE Served(t)'
  BY <1>1, <1>4 DEF Served
<1>5. ASSUME NEW d \in Node, Out(d)' = Out(d) PROVE Addressed(d)'
  BY <1>1, <1>5 DEF Addressed
<1>6. ASSUME UNCHANGED <<buffer, wire>>, NEW d \in Node PROVE Addressed(d)'
  <2>1. Out(d)' = Out(d)
    BY <1>6 DEF Out
  <2>2. QED
    BY <1>5, <2>1
<1>7. ASSUME NEW p \in Producer, NEW dest \in SUBSET Node, NEW m \in Message, NEW s \in Seq(Output \X Message),
             Enqueues(p, dest, m, s)
      PROVE  Placed'
  <2>1. PICK l \in Nat : l = Len(sent)
    BY <1>0
  <2>2. /\ m.id = l + 1 /\ m.from = p /\ sent' = Append(sent, m) /\ pushing' = [pushing EXCEPT ![p] = s]
        /\ UNCHANGED <<copying, buffer, wire>>
    BY <1>7, <2>1 DEF Enqueues
  <2>3. Numbered'
    <3>1. PICK a : a = Append(sent, m)
      OBVIOUS
    <3>2. Len(a) = l + 1 /\ a[l + 1] = m /\ \A i \in 1 .. l : a[i] = sent[i]
      BY <1>0, <2>1, <3>1
    <3>3. \A i : i \in 1 .. (l + 1) <=> i \in 1 .. l \/ i = l + 1
      OBVIOUS
    <3>4. \A i \in 1 .. Len(a) : a[i].id = i
      BY <1>1, <2>1, <2>2, <3>2, <3>3 DEF Numbered
    <3>5. QED
      BY <2>2, <3>1, <3>4 DEF Numbered
  <2>4. Own(p)'
    <3>1. PICK Q : Q = Queues(m)
      OBVIOUS
    <3>2. /\ Q \in SUBSET Nat /\ IsFiniteSet(Q) /\ Listed(s, Q, m)
      BY <1>7, <3>1 DEF Enqueues, Listed
    <3>3. Distinct(s)
      BY <3>2, PairsOf
    <3>4. \A i \in 1 .. Len(s) : s[i][2].from = p
      BY <2>2, <3>2 DEF Listed
    <3>5. pushing'[p] = s
      BY <1>0, <2>2
    <3>6. QED
      BY <3>3, <3>4, <3>5 DEF Own
  <2>5. \A q \in Producer : q # p => pushing'[q] = pushing[q]
    BY <1>0, <2>2
  <2>6. QED
    BY <1>3, <1>4, <1>6, <2>2, <2>3, <2>4, <2>5 DEF Placed
<1>8. ASSUME NEW p \in Producer, NEW t \in Output, NEW m \in Message, Pushes(p, t, m) PROVE Placed'
  <2>1. PICK s \in Seq(Output \X Message) : s = pushing[p]
    BY <1>0
  <2>2. /\ s # <<>> /\ t = Head(s)[1] /\ m = Head(s)[2] /\ pushing' = [pushing EXCEPT ![p] = Tail(s)]
        /\ UNCHANGED <<sent, copying, buffer, wire>>
    BY <1>8, <2>1 DEF Pushes
  <2>3. Distinct(s) /\ \A i \in 1 .. Len(s) : s[i][2].from = p
    BY <1>1, <2>1 DEF Own
  <2>4. Distinct(Tail(s)) /\ \A i \in 1 .. Len(Tail(s)) : \E j \in 1 .. Len(s) : Tail(s)[i] = s[j]
    BY <2>2, <2>3, PairTail
  <2>5. /\ pushing'[p] = Tail(s)
        /\ \A q \in Producer : q # p => pushing'[q] = pushing[q]
    BY <1>0, <2>2
  <2>6. Own(p)'
    BY <2>3, <2>4, <2>5 DEF Own
  <2>7. QED
    BY <1>2, <1>3, <1>4, <1>6, <2>2, <2>5, <2>6 DEF Placed
<1>9. ASSUME NEW t \in Output, NEW m \in Message, NEW s \in Seq(Node \X Message), NEW S \in SUBSET Nat,
             Takes(t, m, s, S)
      PROVE  Placed'
  <2>1. /\ S = m.dest \cap Serves(t) /\ IsFiniteSet(S) /\ Len(s) = Cardinality(S)
        /\ \A i \in 1 .. Cardinality(S) : s[i][1] = Ascending(S)[i] /\ s[i][2] = m
        /\ copying' = [copying EXCEPT ![t] = s] /\ UNCHANGED <<sent, pushing, buffer, wire>>
    BY <1>9 DEF Takes
  <2>2. Distinct(s) /\ \A i \in 1 .. Len(s) : s[i][1] \in S
    <3>1. /\ IsFiniteSet(S) /\ Listed(s, S, m)
      BY <2>1 DEF Listed
    <3>2. QED
      BY <3>1, PairsOf
  <2>3. /\ copying'[t] = s
        /\ \A q \in Output : q # t => copying'[q] = copying[q]
    BY <1>0, <2>1
  <2>4. Served(t)'
    <3>1. \A i \in 1 .. Len(s) : s[i][1] \in s[i][2].dest \cap Serves(t)
      BY <2>1, <2>2
    <3>2. QED
      BY <2>2, <2>3, <3>1 DEF Served
  <2>5. QED
    BY <1>2, <1>3, <1>4, <1>6, <2>1, <2>3, <2>4 DEF Placed
<1>10. ASSUME NEW t \in Output, NEW d \in Node, NEW m \in Message, Copies(t, d, m) PROVE Placed'
  <2>1. PICK s \in Seq(Node \X Message) : s = copying[t]
    BY <1>0
  <2>2. /\ s # <<>> /\ d = Head(s)[1] /\ m = Head(s)[2] /\ d \in m.dest
        /\ copying' = [copying EXCEPT ![t] = Tail(s)] /\ UNCHANGED <<sent, pushing>>
        /\ \A e \in Node : Out(e)' = IF e = d THEN Append(Out(e), m) ELSE Out(e)
    BY <1>10, <2>1 DEF Copies
  <2>3. Distinct(s) /\ \A i \in 1 .. Len(s) : s[i][1] \in s[i][2].dest \cap Serves(t)
    BY <1>1, <2>1 DEF Served
  <2>4. Distinct(Tail(s)) /\ \A i \in 1 .. Len(Tail(s)) : \E j \in 1 .. Len(s) : Tail(s)[i] = s[j]
    BY <2>2, <2>3, PairTail
  <2>5. /\ copying'[t] = Tail(s)
        /\ \A q \in Output : q # t => copying'[q] = copying[q]
    BY <1>0, <2>2
  <2>6. Served(t)'
    BY <2>3, <2>4, <2>5 DEF Served
  <2>7. Addressed(d)'
    <3>1. PICK o \in Seq(Message), l \in Nat : o = Out(d) /\ l = Len(o)
      <4>1. Len(Out(d)) \in Nat
        BY <1>0
      <4>2. QED
        BY <1>0, <4>1
    <3>2. PICK a : a = Append(o, m)
      OBVIOUS
    <3>3. Len(a) = l + 1 /\ a[l + 1] = m /\ \A i \in 1 .. l : a[i] = o[i]
      BY <3>1, <3>2
    <3>4. \A i : i \in 1 .. (l + 1) <=> i \in 1 .. l \/ i = l + 1
      OBVIOUS
    <3>5. \A i \in 1 .. Len(a) : d \in a[i].dest
      BY <1>1, <2>2, <3>1, <3>3, <3>4 DEF Addressed
    <3>6. Out(d)' = a
      BY <2>2, <3>1, <3>2
    <3>7. QED
      BY <3>5, <3>6 DEF Addressed
  <2>8. QED
    BY <1>2, <1>3, <1>4, <1>5, <2>2, <2>5, <2>6, <2>7 DEF Placed
<1>11. ASSUME UNCHANGED <<sent, pushing, copying, buffer, wire>> PROVE Placed'
  BY <1>2, <1>3, <1>4, <1>6, <1>11 DEF Placed
<1>12. QED
  BY <1>7, <1>8, <1>9, <1>10, <1>11, Steps
-----------------------------------------------------------------------------
(* The way after a step: a message moves from one place to the next. *)
LEMMA SameWay ==
  ASSUME NEW p \in Producer, NEW d \in Node, Way(p, d), sent' = sent, Out(d)' = Out(d),
         pushing'[p] = pushing[p], m_queue'[T(d)] = m_queue[T(d)], copying'[T(d)] = copying[T(d)]
  PROVE  Way(p, d)'
<1>1. /\ Sent(p, d)' = Sent(p, d) /\ Pushed(p, d)' = Pushed(p, d) /\ Queued(p, d)' = Queued(p, d)
      /\ Copied(p, d)' = Copied(p, d) /\ Passed(p, d)' = Passed(p, d)
  BY DEF Sent, Pushed, Queued, Copied, Passed
<1>2. QED
  BY <1>1 DEF Way

LEMMA WayEnqueue ==
  ASSUME TypeOK, Placed, NEW p \in Producer, NEW d \in Node, Way(p, d),
         NEW q \in Producer, NEW dest \in SUBSET Node, NEW m \in Message, NEW s \in Seq(Output \X Message),
         Enqueues(q, dest, m, s)
  PROVE  Way(p, d)'
<1>0. sent \in Seq(Message) /\ pushing \in [Producer -> Seq(Output \X Message)]
  BY Types
<1>1. PICK l \in Nat : l = Len(sent)
  BY <1>0
<1>2. /\ m.id = l + 1 /\ m.from = q /\ m.dest = dest /\ sent' = Append(sent, m)
      /\ pushing[q] = <<>> /\ pushing' = [pushing EXCEPT ![q] = s]
      /\ UNCHANGED <<m_queue, copying, buffer, wire>> /\ \A e \in dest : T(e) \in Queues(m)
  BY <1>1 DEF Enqueues
<1>3. PICK N : N = IF Mine(m, p, d) THEN {m.id} ELSE {}
  OBVIOUS
<1>4. Sent(p, d)' = Sent(p, d) \cup N
  BY <1>0, <1>2, <1>3, InAppend DEF Sent
<1>5. Out(d)' = Out(d)
  BY <1>2 DEF Out
<1>6. Queued(p, d)' = Queued(p, d) /\ Copied(p, d)' = Copied(p, d) /\ Passed(p, d)' = Passed(p, d)
  BY <1>2, <1>5 DEF Queued, Copied, Passed
<1>7. \A k \in Sent(p, d) : k \in 1 .. l
  BY <1>1 DEF Sent, In, Placed, Numbered
<1>8. Pushed(p, d)' = Pushed(p, d) \cup N /\ (N = {} \/ Pushed(p, d) = {})
  <2>1. CASE p # q
    <3>1. pushing'[p] = pushing[p]
      BY <1>0, <1>2, <2>1
    <3>2. N = {}
      BY <1>2, <1>3, <2>1 DEF Mine
    <3>3. QED
      BY <3>1, <3>2 DEF Pushed
  <2>2. CASE p = q
    <3>1. PICK Q : Q = Queues(m)
      OBVIOUS
    <3>2. /\ Q \in SUBSET Nat /\ IsFiniteSet(Q) /\ Listed(s, Q, m)
      BY <3>1 DEF Enqueues, Listed
    <3>3. PairsAre(s, Q, m, p, d)
      BY <3>2, PairsOf, Zenon
    <3>4. Mine(m, p, d) => T(d) \in Q
      BY <1>2, <3>1 DEF Mine
    <3>5. PairIn(s, T(d), p, d) = N
      BY <1>3, <3>3, <3>4 DEF PairsAre
    <3>6. pushing'[p] = s
      BY <1>0, <1>2, <2>2
    <3>7. Pushed(p, d)' = N
      BY <3>5, <3>6 DEF Pushed
    <3>8. Pushed(p, d) = {}
      BY <1>2, <2>2 DEF Pushed, PairIn
    <3>9. QED
      BY <3>7, <3>8
  <2>3. QED
    BY <2>1, <2>2
<1>9. Below(Sent(p, d), N)
  BY <1>2, <1>3, <1>7 DEF Below
<1>10. Sorted(Out(d), p, d)' /\ Sorted(m_queue[T(d)], p, d)'
  BY <1>2, <1>5 DEF Way
<1>11. QED
  BY <1>4, <1>6, <1>8, <1>9, <1>10 DEF Way, Below

LEMMA WayPush ==
  ASSUME TypeOK, Placed, NEW p \in Producer, NEW d \in Node, Way(p, d),
         NEW q \in Producer, NEW t \in Output, NEW m \in Message, Pushes(q, t, m)
  PROVE  Way(p, d)'
<1>0. /\ pushing \in [Producer -> Seq(Output \X Message)] /\ m_queue \in [Output -> Seq(Message)]
      /\ T(d) \in Output
  BY Types, ThreadOf
<1>1. PICK s \in Seq(Output \X Message) : s = pushing[q]
  BY <1>0
<1>2. PICK u \in Seq(Message) : u = m_queue[T(d)]
  BY <1>0
<1>3. /\ m.from = q /\ m_queue' = [m_queue EXCEPT ![t] = Append(m_queue[t], m)]
      /\ pushing' = [pushing EXCEPT ![q] = Tail(s)] /\ UNCHANGED <<sent, copying, buffer, wire>>
  BY <1>1 DEF Pushes
<1>4. s # <<>> /\ t = Head(s)[1] /\ m = Head(s)[2] /\ Distinct(s)
  BY <1>1 DEF Pushes, Placed, Own
<1>5. PICK N : N = IF t = T(d) /\ Mine(m, p, d) THEN {m.id} ELSE {}
  OBVIOUS
<1>6. Out(d)' = Out(d)
  BY <1>3 DEF Out
<1>7. Sent(p, d)' = Sent(p, d) /\ Copied(p, d)' = Copied(p, d) /\ Passed(p, d)' = Passed(p, d)
  BY <1>3, <1>6 DEF Sent, Copied, Passed
<1>8. Pushed(p, d) = Pushed(p, d)' \cup N /\ (N = {} \/ Pushed(p, d)' = {})
  <2>1. CASE p # q
    <3>1. pushing'[p] = pushing[p]
      BY <1>0, <1>3, <2>1
    <3>2. N = {}
      BY <1>3, <1>5, <2>1 DEF Mine
    <3>3. QED
      BY <3>1, <3>2 DEF Pushed
  <2>2. CASE p = q
    <3>1. /\ t = T(d) => /\ PairIn(s, T(d), p, d) = (IF Mine(m, p, d) THEN {m.id} ELSE {})
                     /\ PairIn(Tail(s), T(d), p, d) = {}
          /\ t # T(d) => PairIn(Tail(s), T(d), p, d) = PairIn(s, T(d), p, d)
      BY <1>4, PairGone
    <3>2. pushing'[p] = Tail(s)
      BY <1>0, <1>3, <2>2
    <3>3. Pushed(p, d)' = PairIn(Tail(s), T(d), p, d) /\ Pushed(p, d) = PairIn(s, T(d), p, d)
      BY <1>1, <2>2, <3>2 DEF Pushed
    <3>4. QED
      BY <1>5, <3>1, <3>3
  <2>3. QED
    BY <2>1, <2>2
<1>9. Queued(p, d)' = Queued(p, d) \cup N /\ Sorted(m_queue[T(d)], p, d)'
  <2>1. CASE t # T(d)
    <3>1. m_queue'[T(d)] = m_queue[T(d)]
      BY <1>0, <1>3, <2>1
    <3>2. QED
      BY <1>5, <2>1, <3>1 DEF Queued, Way
  <2>2. CASE t = T(d)
    <3>1. m_queue'[T(d)] = Append(u, m)
      BY <1>0, <1>2, <1>3, <2>2
    <3>2. In(Append(u, m), p, d) = In(u, p, d) \cup N
      BY <1>5, <2>2, InAppend
    <3>3. Sorted(u, p, d)
      BY <1>2 DEF Way
    <3>4. Mine(m, p, d) => Below(In(u, p, d), {m.id})
      BY <1>2, <1>5, <1>8, <2>2 DEF Way, Below, Queued
    <3>5. Sorted(Append(u, m), p, d)
      BY <3>3, <3>4, SortedAppend
    <3>6. QED
      BY <1>2, <3>1, <3>2, <3>5 DEF Queued
  <2>3. QED
    BY <2>1, <2>2
<1>10. Sorted(Out(d), p, d)'
  BY <1>6 DEF Way
<1>11. QED
  BY <1>7, <1>8, <1>9, <1>10 DEF Way, Below

LEMMA WayDequeue ==
  ASSUME TypeOK, NEW p \in Producer, NEW d \in Node, Way(p, d),
         NEW t \in Output, NEW m \in Message, NEW s \in Seq(Node \X Message), NEW S \in SUBSET Nat,
         Takes(t, m, s, S)
  PROVE  Way(p, d)'
<1>0. /\ m_queue \in [Output -> Seq(Message)] /\ copying \in [Output -> Seq(Node \X Message)]
      /\ T(d) \in Output /\ d \in Serves(T(d))
  BY Types, ThreadOf
<1>1. /\ copying[t] = <<>> /\ S = m.dest \cap Serves(t)
      /\ copying' = [copying EXCEPT ![t] = s] /\ m_queue' = [m_queue EXCEPT ![t] = Tail(m_queue[t])]
      /\ UNCHANGED <<sent, pushing, buffer, wire>>
  BY DEF Takes
<1>2. Out(d)' = Out(d)
  BY <1>1 DEF Out
<1>3. CASE t # T(d)
  <2>1. m_queue'[T(d)] = m_queue[T(d)] /\ copying'[T(d)] = copying[T(d)] /\ pushing'[p] = pushing[p] /\ sent' = sent
    BY <1>0, <1>1, <1>3
  <2>2. QED
    BY <1>2, <2>1, SameWay
<1>4. CASE t = T(d)
  <2>1. PICK u \in Seq(Message) : u = m_queue[t] /\ u # <<>> /\ m = Head(u)
    BY <1>0 DEF Takes
  <2>2. PICK N : N = IF Mine(m, p, d) THEN {m.id} ELSE {}
    OBVIOUS
  <2>3. In(u, p, d) = In(Tail(u), p, d) \cup N
    BY <2>1, <2>2, InTail
  <2>4. Sorted(Tail(u), p, d) /\ Below(N, In(Tail(u), p, d))
    <3>1. Sorted(u, p, d)
      BY <1>4, <2>1 DEF Way
    <3>2. Sorted(Tail(u), p, d) /\ (Mine(m, p, d) => Below({m.id}, In(Tail(u), p, d)))
      BY <2>1, <3>1, SortedTail
    <3>3. QED
      BY <2>2, <3>2 DEF Below
  <2>5. m_queue'[T(d)] = Tail(u) /\ copying'[T(d)] = s
    BY <1>0, <1>1, <1>4, <2>1
  <2>6. /\ Queued(p, d) = Queued(p, d)' \cup N /\ Below(N, Queued(p, d)')
        /\ Sorted(m_queue[T(d)], p, d)'
    BY <1>4, <2>1, <2>3, <2>4, <2>5 DEF Queued
  <2>7. Copied(p, d) = {} /\ Copied(p, d)' = N
    <3>1. /\ IsFiniteSet(S) /\ Listed(s, S, m)
      BY DEF Takes, Listed
    <3>2. PairsAre(s, S, m, p, d)
      BY <3>1, PairsOf, Zenon
    <3>3. Mine(m, p, d) => d \in S
      BY <1>0, <1>1, <1>4 DEF Mine
    <3>4. PairIn(s, d, p, d) = N
      BY <2>2, <3>2, <3>3 DEF PairsAre
    <3>5. Copied(p, d)' = N
      BY <2>5, <3>4 DEF Copied
    <3>6. Copied(p, d) = {}
      BY <1>1, <1>4 DEF Copied, PairIn
    <3>7. QED
      BY <3>5, <3>6
  <2>8. Sent(p, d)' = Sent(p, d) /\ Pushed(p, d)' = Pushed(p, d) /\ Passed(p, d)' = Passed(p, d)
    BY <1>1, <1>2 DEF Sent, Pushed, Passed
  <2>9. Sorted(Out(d), p, d)'
    BY <1>2 DEF Way
  <2>10. QED
    BY <2>6, <2>7, <2>8, <2>9 DEF Way, Below
<1>5. QED
  BY <1>3, <1>4

LEMMA WayCopy ==
  ASSUME TypeOK, Placed, NEW p \in Producer, NEW d \in Node, Way(p, d),
         NEW t \in Output, NEW e \in Node, NEW m \in Message, Copies(t, e, m)
  PROVE  Way(p, d)'
<1>0. /\ copying \in [Output -> Seq(Node \X Message)] /\ T(d) \in Output /\ Out(d) \in Seq(Message)
      /\ \A x \in Output : e \in Serves(x) => x = T(e)
  BY Types, ThreadOf
<1>1. /\ copying' = [copying EXCEPT ![t] = Tail(copying[t])] /\ UNCHANGED <<sent, pushing, m_queue>>
      /\ Out(d)' = (IF d = e THEN Append(Out(d), m) ELSE Out(d)) /\ e \in Serves(t)
  BY DEF Copies
<1>2. CASE t # T(d)
  <2>1. d # e
    BY <1>0, <1>1, <1>2
  <2>2. /\ copying'[T(d)] = copying[T(d)] /\ Out(d)' = Out(d)
        /\ m_queue'[T(d)] = m_queue[T(d)] /\ pushing'[p] = pushing[p] /\ sent' = sent
    BY <1>0, <1>1, <1>2, <2>1
  <2>3. QED
    BY <2>2, SameWay
<1>3. CASE t = T(d)
  <2>1. PICK s \in Seq(Node \X Message) : s = copying[t]
    BY <1>0
  <2>2. s # <<>> /\ e = Head(s)[1] /\ m = Head(s)[2] /\ Distinct(s)
    BY <2>1 DEF Copies, Placed, Served
  <2>3. PICK N : N = IF e = d /\ Mine(m, p, d) THEN {m.id} ELSE {}
    OBVIOUS
  <2>4. Copied(p, d) = Copied(p, d)' \cup N /\ (N = {} \/ Copied(p, d)' = {})
    <3>1. /\ e = d => /\ PairIn(s, d, p, d) = (IF Mine(m, p, d) THEN {m.id} ELSE {})
                     /\ PairIn(Tail(s), d, p, d) = {}
          /\ e # d => PairIn(Tail(s), d, p, d) = PairIn(s, d, p, d)
      BY <2>2, PairGone
    <3>2. copying'[T(d)] = Tail(s)
      BY <1>0, <1>1, <1>3, <2>1
    <3>3. Copied(p, d)' = PairIn(Tail(s), d, p, d) /\ Copied(p, d) = PairIn(s, d, p, d)
      BY <1>3, <2>1, <3>2 DEF Copied
    <3>4. QED
      BY <2>3, <3>1, <3>3
  <2>5. Passed(p, d)' = Passed(p, d) \cup N /\ Sorted(Out(d), p, d)'
    <3>1. CASE d # e
      <4>1. Out(d)' = Out(d)
        BY <1>1, <3>1
      <4>2. QED
        BY <2>3, <3>1, <4>1 DEF Passed, Way
    <3>2. CASE d = e
      <4>1. PICK o \in Seq(Message) : o = Out(d)
        BY <1>0
      <4>2. Out(d)' = Append(o, m)
        BY <1>1, <3>2, <4>1
      <4>3. In(Append(o, m), p, d) = In(o, p, d) \cup N
        BY <2>3, <3>2, InAppend
      <4>4. Sorted(o, p, d)
        BY <4>1 DEF Way
      <4>5. Mine(m, p, d) => Below(In(o, p, d), {m.id})
        BY <2>3, <2>4, <3>2, <4>1 DEF Way, Below, Passed
      <4>6. Sorted(Append(o, m), p, d)
        BY <4>4, <4>5, SortedAppend
      <4>7. QED
        BY <4>1, <4>2, <4>3, <4>6 DEF Passed
    <3>3. QED
      BY <3>1, <3>2
  <2>6. Sent(p, d)' = Sent(p, d) /\ Pushed(p, d)' = Pushed(p, d) /\ Queued(p, d)' = Queued(p, d)
    BY <1>1 DEF Sent, Pushed, Queued
  <2>7. Sorted(m_queue[T(d)], p, d)'
    BY <1>1 DEF Way
  <2>8. QED
    BY <2>4, <2>5, <2>6, <2>7 DEF Way, Below
<1>4. QED
  BY <1>2, <1>3
-----------------------------------------------------------------------------
LEMMA WayNext ==
  ASSUME Inv, [Next]_vars, NEW p \in Producer, NEW d \in Node
  PROVE  Way(p, d)'
<1>0. TypeOK /\ Placed /\ Way(p, d)
  BY DEF Inv
<1>1. ASSUME NEW q \in Producer, NEW dest \in SUBSET Node, NEW m \in Message, NEW s \in Seq(Output \X Message),
             Enqueues(q, dest, m, s)
      PROVE  Way(p, d)'
  BY <1>0, <1>1, WayEnqueue
<1>2. ASSUME NEW q \in Producer, NEW t \in Output, NEW m \in Message, Pushes(q, t, m) PROVE Way(p, d)'
  BY <1>0, <1>2, WayPush
<1>3. ASSUME NEW t \in Output, NEW m \in Message, NEW s \in Seq(Node \X Message), NEW S \in SUBSET Nat,
             Takes(t, m, s, S)
      PROVE  Way(p, d)'
  BY <1>0, <1>3, WayDequeue
<1>4. ASSUME NEW t \in Output, NEW e \in Node, NEW m \in Message, Copies(t, e, m) PROVE Way(p, d)'
  BY <1>0, <1>4, WayCopy
<1>5. ASSUME UNCHANGED <<sent, pushing, m_queue, copying, buffer, wire>> PROVE Way(p, d)'
  <2>1. Out(d)' = Out(d)
    BY <1>5 DEF Out
  <2>2. QED
    BY <1>0, <1>5, <2>1, SameWay
<1>6. QED
  BY <1>0, <1>1, <1>2, <1>3, <1>4, <1>5, Steps

LEMMA InvNext ==
  ASSUME Inv, [Next]_vars
  PROVE  Inv'
<1>1. TypeOK /\ Placed /\ Calm
  BY DEF Inv
<1>2. TypeOK'
  BY <1>1, TypeNext
<1>3. Placed'
  BY <1>1, PlacedNext
<1>4. Calm'
  BY <1>1, CalmNext
<1>5. \A p \in Producer, d \in Node : Way(p, d)'
  BY WayNext
<1>6. QED
  BY <1>2, <1>3, <1>4, <1>5 DEF Inv

LEMMA InvHolds == Spec => []Inv
<1>1. Inv /\ [Next]_vars => Inv'
  BY InvNext
<1>2. QED
  BY InitInv, <1>1, PTL DEF Spec

(* Those before a message on the wire are those sent before it. *)
LEMMA WaysInOrder ==
  ASSUME Inv, NEW d \in Node, NEW i \in 1 .. Len(Out(d)), NEW m \in Message, m = Out(d)[i]
  PROVE  /\ m.id \in 1 .. Len(sent) /\ sent[m.id].from = m.from /\ d \in sent[m.id].dest
         /\ {Out(d)[j].id : j \in {j \in 1 .. (i - 1) : Out(d)[j].from = m.from}}
              = {k \in 1 .. (m.id - 1) : sent[k].from = m.from /\ d \in sent[k].dest}
<1>1. PICK p \in Producer : p = m.from
  BY DEF Message
<1>2. PICK l \in Nat : l = Len(sent)
  BY DEF Inv, TypeOK
<1>3. PICK o \in Seq(Message) : o = Out(d)
  BY Types DEF Inv
<1>4. PICK n \in Nat : n = Len(o)
  OBVIOUS
<1>5. i \in 1 .. n /\ m = o[i] /\ m.id \in 1 .. MaxMsg
  BY <1>3, <1>4 DEF Message
<1>6. /\ \A j \in 1 .. n : d \in o[j].dest
      /\ \A k \in 1 .. l : sent[k].id = k
  BY <1>2, <1>3, <1>4 DEF Inv, Placed, Addressed, Numbered
<1>7. \A j \in 1 .. n : o[j].id \in 1 .. MaxMsg
  <2>1. \A j \in 1 .. n : o[j] \in Message
    BY <1>4
  <2>2. QED
    BY <2>1 DEF Message
<1>8. Way(p, d)
  BY DEF Inv
<1>9. \A j \in 1 .. n : o[j].from = p => o[j].id \in Passed(p, d)
  BY <1>3, <1>4, <1>6, <1>7 DEF Passed, In, Mine
<1>10. \A k \in Sent(p, d) : k \in 1 .. l /\ sent[k].from = p /\ d \in sent[k].dest
  BY <1>2, <1>6 DEF Sent, In, Mine
<1>11. Passed(p, d) \subseteq Sent(p, d)
  BY <1>8 DEF Way
<1>12. m.id \in Passed(p, d)
  BY <1>1, <1>5, <1>9
<1>13. m.id \in 1 .. l /\ sent[m.id].from = p /\ d \in sent[m.id].dest
  BY <1>10, <1>11, <1>12
<1>14. \A j, k \in 1 .. n : j < k /\ o[j].from = p /\ o[k].from = p => o[j].id < o[k].id
  BY <1>3, <1>4, <1>6, <1>8 DEF Way, Sorted, Mine
<1>15. ASSUME NEW j \in 1 .. (i - 1), o[j].from = p
       PROVE  o[j].id \in 1 .. (m.id - 1) /\ sent[o[j].id].from = p /\ d \in sent[o[j].id].dest
  <2>1. j \in 1 .. n /\ j < i
    BY <1>5
  <2>2. o[j].id < m.id
    BY <1>1, <1>5, <1>14, <1>15, <2>1
  <2>3. o[j].id \in Sent(p, d)
    BY <1>9, <1>11, <1>15, <2>1
  <2>4. QED
    BY <1>5, <1>7, <1>10, <2>1, <2>2, <2>3
<1>16. ASSUME NEW k \in 1 .. (m.id - 1), sent[k].from = p, d \in sent[k].dest
       PROVE  \E j \in 1 .. (i - 1) : o[j].from = p /\ o[j].id = k
  <2>1. k \in 1 .. l /\ k \in 1 .. MaxMsg /\ k < m.id /\ ~(m.id < k)
    BY <1>2, <1>5, <1>13, Constants, SMTT(30)
  <2>2. k \in Sent(p, d)
    BY <1>2, <1>6, <1>16, <2>1 DEF Sent, In, Mine
  <2>3. k \in Passed(p, d)
    BY <1>8, <1>12, <2>1, <2>2 DEF Way, Below
  <2>4. PICK j \in 1 .. n : o[j].id = k /\ o[j].from = p
    BY <1>3, <1>4, <2>3 DEF Passed, In, Mine
  <2>5. ~(i < j) /\ i # j
    BY <1>1, <1>5, <1>14, <2>1, <2>4
  <2>6. j \in 1 .. (i - 1)
    BY <1>5, <2>5
  <2>7. QED
    BY <2>4, <2>6
<1>17. {o[j].id : j \in {j \in 1 .. (i - 1) : o[j].from = p}}
         = {k \in 1 .. (m.id - 1) : sent[k].from = p /\ d \in sent[k].dest}
  BY <1>15, <1>16
<1>18. QED
  BY <1>1, <1>2, <1>3, <1>13, <1>17
-----------------------------------------------------------------------------
(* What the queues, the buffers and the wire hold are messages, and no     *)
(* buffer ever holds more than MESSAGE_PER_BUFFER of them: the count that  *)
(* mbuf::ready compares for equality never gets past it.                   *)
THEOREM TypeCorrect == Spec => []TypeOK
<1>1. Inv => TypeOK
  BY DEF Inv
<1>2. QED
  BY <1>1, InvHolds, PTL

(* No buffer waits that is full, holds a GENERIC or holds a message with   *)
(* force set: each step of an output thread that fills a buffer so sends   *)
(* it, in the warm-up and after it.                                        *)
THEOREM ForcedNeverWait == Spec => []OnlyUnforcedWait
<1>1. Inv => OnlyUnforcedWait
  BY DEF Inv, Calm
<1>2. QED
  BY <1>1, InvHolds, PTL

(* A node gets the messages of a thread in the order the thread sent them, *)
(* none twice and none left out, whatever the number of output threads,    *)
(* the places in a buffer and the interleaving of the pushes.              *)
THEOREM SentInOrder == Spec => []InOrder
<1>1. ASSUME Inv PROVE InOrder
  <2> SUFFICES ASSUME NEW d \in Node, NEW i \in DOMAIN Out(d)
               PROVE  LET m == Out(d)[i] IN
                      /\ m.id \in DOMAIN sent /\ sent[m.id].from = m.from /\ d \in sent[m.id].dest
                      /\ {Out(d)[j].id : j \in {j \in 1 .. (i - 1) : Out(d)[j].from = m.from}}
                           = {k \in 1 .. (m.id - 1) : sent[k].from = m.from /\ d \in sent[k].dest}
    BY DEF InOrder
  <2>1. Out(d) \in Seq(Message) /\ sent \in Seq(Message)
    BY <1>1, Types DEF Inv
  <2>2. i \in 1 .. Len(Out(d)) /\ DOMAIN sent = 1 .. Len(sent)
    BY <2>1
  <2>3. PICK m \in Message : m = Out(d)[i]
    BY <2>1, <2>2
  <2>4. QED
    BY <1>1, <2>2, <2>3, WaysInOrder
<1>2. QED
  BY <1>1, InvHolds, PTL
=============================================================================

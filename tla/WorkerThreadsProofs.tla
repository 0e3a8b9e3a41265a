------------------------ MODULE WorkerThreadsProofs -------------------------
(***************************************************************************)
(* The threads of a replica, for any number of replicas, instances,        *)
(* threads and batches: an inductive invariant of WorkerThreads, and what  *)
(* it implies.                                                             *)
(***************************************************************************)
EXTENDS WorkerThreads, TallyProofs

(* An instance thread has a message; a GENERIC is about to be queued, is   *)
(* being handled.                                                          *)
Holds(t)   == worker[t].at \in {"take", "process"}
Pushing(k) == input[k].at = "push" /\ IsPrior(input[k].msg)
Reading(t) == Holds(t) /\ IsPrior(worker[t].msg)

(* What has arrived, and where it is: in the queues of its own thread.     *)
ArrivedInv ==
  \A m \in arrived :
    /\ m.slot[2] < MaxView
    /\ \/ /\ m.rtype = "GENERIC" /\ ~Leads(m.slot)
          /\ m.from = get_view_primary(m.slot[2], m.slot[1])
       \/ m.rtype = "SYNC" /\ (Leads(m.slot) => m.slot \in generic_out)

RouteInv ==
  /\ \A k \in Input : /\ input[k].at # "idle" => input[k].msg \in arrived
                      /\ input[k].at = "count" => IsPrior(input[k].msg)
  /\ \A t \in Worker : \A m \in Range(prior_queue[t]) :
       m \in arrived /\ IsPrior(m) /\ Thread(m.slot[1]) = t
  /\ \A t \in Worker : \A m \in Range(work_queue[t]) :
       m \in arrived /\ ~IsPrior(m) /\ Thread(m.slot[1]) = t
  /\ \A i \in Instance : \A m \in Range(temp_queue[i]) :
       m \in arrived /\ IsPrior(m) /\ m.slot[1] = i
  /\ \A t \in Worker : Holds(t) =>
       worker[t].msg \in arrived /\ Thread(worker[t].msg.slot[1]) = t

(* A GENERIC is in one place at a time, and in none once it was handled.   *)
Distinct(q) == \A a, b \in 1 .. Len(q) : q[a] = q[b] => a = b

InInput(k, m) == Pushing(k) /\ input[k].msg = m
InPrior(t, m) == m \in Range(prior_queue[t])
InTemp(i, m)  == m \in Range(temp_queue[i])
InHand(t, m)  == Reading(t) /\ worker[t].msg = m

Once(m) ==
  /\ \A k \in Input : InInput(k, m) =>
       /\ ~generic_received[m.slot]
       /\ \A j \in Input : InInput(j, m) => j = k
       /\ \A t \in Worker : ~InPrior(t, m) /\ ~InHand(t, m)
       /\ \A i \in Instance : ~InTemp(i, m)
  /\ \A t \in Worker : InPrior(t, m) =>
       /\ ~generic_received[m.slot]
       /\ \A i \in Instance : ~InTemp(i, m)
       /\ \A u \in Worker : ~InHand(u, m)
  /\ \A i \in Instance : InTemp(i, m) =>
       ~generic_received[m.slot] /\ \A t \in Worker : ~InHand(t, m)
  /\ \A t \in Worker : InHand(t, m) => ~generic_received[m.slot]

OnceInv ==
  /\ \A t \in Worker : Distinct(prior_queue[t])
  /\ \A i \in Instance : Distinct(temp_queue[i])
  /\ \A m \in Messages : Once(m)

(* A view ends with its GENERIC, and a thread works in the current view:   *)
(* its GENERIC is not of a later view, its vote not of an earlier one.     *)
ViewInv ==
  /\ \A s \in Slot : /\ generic_received[s] => s[2] <= view[s[1]]
                     /\ s[2] < view[s[1]] => generic_received[s]
                     /\ generic_received[s] /\ ~Leads(s) => \E m \in arrived : IsPrior(m) /\ m.slot = s
  /\ \A t \in Worker : Holds(t) =>
       LET s == worker[t].msg.slot IN
       IF IsPrior(worker[t].msg) THEN s[2] <= view[s[1]] ELSE s[2] >= view[s[1]]

(* A manager that is not ready has exactly one owner. *)
ProposerOwns(s)  == proposer.at \in {"fill", "send"} /\ proposer.slot = s
BatcherOwns(s)   == batcher.at \in {"send", "vote"} /\ batcher.slot = s
WorkerOwns(t, s) == worker[t].at = "process" /\ worker[t].msg.slot = s

OwnerInv ==
  \A s \in Slot :
    /\ ~txn_ready[s] => ProposerOwns(s) \/ BatcherOwns(s) \/ \E t \in Worker : WorkerOwns(t, s)
    /\ ProposerOwns(s) => ~txn_ready[s] /\ ~BatcherOwns(s) /\ \A t \in Worker : ~WorkerOwns(t, s)
    /\ BatcherOwns(s) => ~txn_ready[s] /\ \A t \in Worker : ~WorkerOwns(t, s)
    /\ \A t \in Worker : WorkerOwns(t, s) =>
         ~txn_ready[s] /\ \A u \in Worker : WorkerOwns(u, s) => u = t

(* A led view that was proposed in is with the proposal thread, counted    *)
(* for the batch thread, with the batch thread, or has its GENERIC out.    *)
Proposing(i)  == proposer.at \in {"take", "fill", "retake", "send", "count"} /\ proposer.slot[1] = i
Sending(i)    == batcher.at \in {"take", "send"} /\ batcher.slot[1] = i
InProposal(i) == Leads(<<i, view[i]>>) /\ view[i] < next_send_view[i]
Out(i)        == Leads(<<i, view[i]>>) /\ <<i, view[i]>> \in generic_out

SendInv ==
  /\ \A i \in Instance :
       /\ Leads(<<i, next_send_view[i]>>) /\ view[i] <= next_send_view[i]
       /\ \A u \in 0 .. next_send_view[i] : Leads(<<i, u>>) /\ u < next_send_view[i] => u <= view[i]
       /\ (IF Proposing(i) THEN 1 ELSE 0) + incomplete_proposal_cnt[i]
          + (IF Sending(i) THEN 1 ELSE 0) + (IF Out(i) THEN 1 ELSE 0) = IF InProposal(i) THEN 1 ELSE 0
       /\ InProposal(i) => last_sent_view[i] = view[i]
       /\ Proposing(i) => proposer.slot[2] = view[i]
       /\ Sending(i) => batcher.slot[2] = view[i]
  /\ batcher.at = "vote" => batcher.slot \in generic_out
  /\ \A s \in generic_out : Leads(s) /\ s[2] <= view[s[1]]
  /\ \A s \in Slot : Leads(s) /\ generic_received[s] => s \in generic_out

(* The own vote follows a GENERIC before the manager is given back. *)
VoteInv ==
  /\ \A s \in generic_out : g_node_id \in voters[s] \/ (batcher.at = "vote" /\ batcher.slot = s)
  /\ OwnVoteFirst

(* The batch thread's reads still hold when it acts on them: no other      *)
(* thread lowers the count it saw.                                         *)
FoundInv == batcher.at = "found" => incomplete_proposal_cnt[expectedInstance] # 0

Inv == ArrivedInv /\ RouteInv /\ OnceInv /\ ViewInv /\ OwnerInv /\ SendInv /\ FoundInv /\ VoteInv

(* The messages of a thread have their tokens, GENERICs their count.       *)
Counting(t) == {k \in Input : input[k].at = "count" /\ Thread(input[k].msg.slot[1]) = t}
Posting(t)  == {k \in Input : input[k].at \in {"count", "post"} /\ Thread(input[k].msg.slot[1]) = t}

PriorLen(t)  == Len(prior_queue[t])
WorkLen(t)   == Len(work_queue[t])
Posts(t)     == Cardinality(Posting(t))
Uncounted(t) == Cardinality(Counting(t))
Awake(t)     == In(worker[t], {"awake"})

Tokens(t) == worker_queue_semaphore[t] + Awake(t) + Posts(t) = PriorLen(t) + WorkLen(t)
Counts(t) == prior_cnt[t] + Uncounted(t) = PriorLen(t)

TokenInv == \A t \in Worker : Tokens(t) /\ Counts(t)
-----------------------------------------------------------------------------
LEMMA Constants ==
  /\ NODE_CNT \in Nat /\ NODE_CNT > 0 /\ g_node_id \in Nat /\ g_node_id < NODE_CNT
  /\ MULTI_INSTANCES \in Nat /\ MULTI_INSTANCES > 0 /\ MULTI_INSTANCES <= NODE_CNT
  /\ MULTI_THREADS \in Nat /\ MULTI_THREADS > 0 /\ MaxView \in Nat /\ MaxBatches \in Nat
  /\ g_node_id \in Node /\ 0 \in Instance /\ 0 \in Node
  /\ IsFiniteSet(Input)
  /\ \A i \in Instance : i \in Nat /\ i < NODE_CNT
  BY ThreadsAssumption DEF Node, Instance

(* The views a replica leads in an instance are NODE_CNT apart. *)
LEMMA LedApart ==
  ASSUME NEW i \in Instance, NEW u \in Nat, NEW v \in Nat, Leads(<<i, u>>), Leads(<<i, v>>), u < v
  PROVE  u + NODE_CNT <= v
<1>1. u + i \in Nat /\ v + i \in Nat /\ u + i < v + i /\ (u + i) % NODE_CNT = (v + i) % NODE_CNT
  BY Constants DEF Leads, get_view_primary
<1>2. u + i + NODE_CNT <= v + i
  BY <1>1, Constants, SameRemainder
<1>3. QED
  BY <1>2, Constants

LEMMA LedAgain ==
  ASSUME NEW i \in Instance, NEW v \in Nat, Leads(<<i, v>>)
  PROVE  Leads(<<i, v + NODE_CNT>>)
<1> DEFINE q == (v + i) \div NODE_CNT
<1>1. v + i = NODE_CNT * q + g_node_id /\ q \in Int
  BY Remainder, Constants DEF Leads, get_view_primary
<1> HIDE DEF q
<1>2. v + NODE_CNT + i = NODE_CNT * (q + 1) + g_node_id
  BY <1>1, Constants
<1>3. (v + NODE_CNT + i) % NODE_CNT = g_node_id
  <2>1. v + NODE_CNT + i \in Int /\ q + 1 \in Int /\ g_node_id \in 0 .. (NODE_CNT - 1)
    BY <1>1, Constants
  <2>2. QED
    BY <1>2, <2>1, IsRemainder, Constants
<1>4. QED
  BY <1>3 DEF Leads, get_view_primary

LEMMA FirstLed ==
  ASSUME NEW i \in Instance
  PROVE  LET v == (NODE_CNT + g_node_id - i) % NODE_CNT
         IN  v \in 0 .. (NODE_CNT - 1) /\ Leads(<<i, v>>)
<1> DEFINE a == NODE_CNT + g_node_id - i
           q == a \div NODE_CNT
           v == a % NODE_CNT
<1>1. a \in Int /\ a = NODE_CNT * q + v /\ v \in 0 .. (NODE_CNT - 1) /\ q \in Int
  BY Remainder, Constants
<1>2. v + i = NODE_CNT * (1 - q) + g_node_id
  <2>1. a = NODE_CNT + g_node_id - i
    OBVIOUS
  <2> HIDE DEF a, q, v
  <2>2. QED
    BY <1>1, <2>1, Constants
<1> HIDE DEF a, q, v
<1>3. (v + i) % NODE_CNT = g_node_id
  BY <1>1, <1>2, IsRemainder, Constants
<1>4. QED
  BY <1>1, <1>3 DEF Leads, get_view_primary, v, a

LEMMA ThreadWorker == \A i \in Instance : Thread(i) \in Worker
<1>1. \A i \in Instance : i % MULTI_THREADS \in 0 .. (MULTI_THREADS - 1)
  BY Constants, Remainder
<1>2. QED
  BY <1>1 DEF Thread, Worker

LEMMA BeforeInstance == \A i \in Instance : Before(i) \in Instance
<1> SUFFICES ASSUME NEW i \in Instance PROVE Before(i) \in Instance
  OBVIOUS
<1>1. (i + MULTI_INSTANCES - 1) \in Int
  BY Constants
<1>2. (i + MULTI_INSTANCES - 1) % MULTI_INSTANCES \in 0 .. (MULTI_INSTANCES - 1)
  BY <1>1, Constants, Remainder
<1>3. QED
  BY <1>2 DEF Before, Instance
-----------------------------------------------------------------------------
(* Queues and what is in them. *)
LEMMA Appended ==
  ASSUME NEW M, NEW q \in Seq(M), NEW m \in M
  PROVE  /\ Append(q, m) \in Seq(M) /\ Len(Append(q, m)) = Len(q) + 1
         /\ Range(Append(q, m)) = Range(q) \cup {m}
         /\ Distinct(q) /\ m \notin Range(q) => Distinct(Append(q, m))
<1>1. /\ Append(q, m) \in Seq(M) /\ Len(Append(q, m)) = Len(q) + 1 /\ Len(q) \in Nat
      /\ \A a \in 1 .. Len(q) : Append(q, m)[a] = q[a]
      /\ Append(q, m)[Len(q) + 1] = m
      /\ DOMAIN q = 1 .. Len(q) /\ DOMAIN Append(q, m) = 1 .. (Len(q) + 1)
  OBVIOUS
<1> DEFINE p == Append(q, m)
           n == Len(q)
<1> HIDE DEF p, n
<1>2. /\ n \in Nat /\ Len(p) = n + 1 /\ \A a \in 1 .. n : p[a] = q[a]
      /\ p[n + 1] = m /\ DOMAIN q = 1 .. n /\ DOMAIN p = 1 .. (n + 1)
  BY <1>1 DEF p, n
<1>3. Range(p) = Range(q) \cup {m}
  BY <1>2 DEF Range
<1>4. ASSUME Distinct(q), m \notin Range(q)
      PROVE  Distinct(p)
  BY <1>2, <1>4 DEF Distinct, Range, n
<1>5. QED
  BY <1>1, <1>3, <1>4 DEF p

LEMMA Taken ==
  ASSUME NEW M, NEW q \in Seq(M), q # <<>>
  PROVE  /\ Head(q) \in M /\ Tail(q) \in Seq(M) /\ Len(Tail(q)) = Len(q) - 1 /\ Len(q) > 0
         /\ Head(q) \in Range(q) /\ Range(Tail(q)) \subseteq Range(q)
         /\ Distinct(q) => Distinct(Tail(q)) /\ Head(q) \notin Range(Tail(q))
<1>1. /\ Head(q) \in M /\ Tail(q) \in Seq(M) /\ Len(Tail(q)) = Len(q) - 1 /\ Len(q) \in Nat /\ Len(q) > 0
      /\ \A a \in 1 .. (Len(q) - 1) : Tail(q)[a] = q[a + 1]
      /\ Head(q) = q[1] /\ DOMAIN q = 1 .. Len(q) /\ DOMAIN Tail(q) = 1 .. (Len(q) - 1)
  OBVIOUS
<1> DEFINE p == Tail(q)
           n == Len(q)
           h == Head(q)
<1> HIDE DEF p, n, h
<1>2. /\ n \in Nat /\ n > 0 /\ Len(p) = n - 1 /\ \A a \in 1 .. (n - 1) : p[a] = q[a + 1]
      /\ h = q[1] /\ DOMAIN q = 1 .. n /\ DOMAIN p = 1 .. (n - 1)
  BY <1>1 DEF p, n, h
<1>3. h \in Range(q) /\ Range(p) \subseteq Range(q)
  BY <1>2 DEF Range
<1>4. ASSUME Distinct(q)
      PROVE  Distinct(p) /\ h \notin Range(p)
  <2>1. \A a, b \in 1 .. n : q[a] = q[b] => a = b
    BY <1>4 DEF Distinct, n
  <2>2. Distinct(p)
    BY <1>2, <2>1 DEF Distinct
  <2>3. h \notin Range(p)
    BY <1>2, <2>1 DEF Range
  <2>4. QED
    BY <2>2, <2>3
<1>5. QED
  BY <1>1, <1>3, <1>4 DEF p, h

LEMMA Joined ==
  ASSUME NEW M, NEW q \in Seq(M), NEW r \in Seq(M)
  PROVE  /\ q \o r \in Seq(M) /\ Len(q \o r) = Len(q) + Len(r)
         /\ Range(q \o r) = Range(q) \cup Range(r)
         /\ Distinct(q) /\ Distinct(r) /\ Range(q) \cap Range(r) = {} => Distinct(q \o r)
<1>1. /\ q \o r \in Seq(M) /\ Len(q \o r) = Len(q) + Len(r) /\ Len(q) \in Nat /\ Len(r) \in Nat
      /\ \A a \in 1 .. Len(q) : (q \o r)[a] = q[a]
      /\ \A a \in 1 .. Len(r) : (q \o r)[Len(q) + a] = r[a]
      /\ DOMAIN q = 1 .. Len(q) /\ DOMAIN r = 1 .. Len(r) /\ DOMAIN (q \o r) = 1 .. (Len(q) + Len(r))
  OBVIOUS
<1> DEFINE p == q \o r
           n == Len(q)
           l == Len(r)
<1> HIDE DEF p, n, l
<1>2. /\ n \in Nat /\ l \in Nat /\ Len(p) = n + l
      /\ \A a \in 1 .. n : p[a] = q[a]
      /\ \A a \in 1 .. l : p[n + a] = r[a]
      /\ DOMAIN q = 1 .. n /\ DOMAIN r = 1 .. l /\ DOMAIN p = 1 .. (n + l)
  BY <1>1 DEF p, n, l
<1>3. \A a \in 1 .. (n + l) : a \in 1 .. n \/ (a - n \in 1 .. l /\ p[a] = r[a - n])
  <2> SUFFICES ASSUME NEW a \in 1 .. (n + l), a \notin 1 .. n PROVE a - n \in 1 .. l /\ p[a] = r[a - n]
    OBVIOUS
  <2>1. a - n \in 1 .. l /\ n + (a - n) = a
    BY <1>2
  <2>2. QED
    BY <1>2, <2>1
<1>4. Range(p) = Range(q) \cup Range(r)
  <2>1. Range(p) \subseteq Range(q) \cup Range(r)
    BY <1>2, <1>3 DEF Range
  <2>2. Range(q) \subseteq Range(p)
    BY <1>2 DEF Range
  <2>3. Range(r) \subseteq Range(p)
    <3>1. \A a \in 1 .. l : n + a \in 1 .. (n + l)
      BY <1>2
    <3>2. QED
      BY <1>2, <3>1 DEF Range
  <2>4. QED
    BY <2>1, <2>2, <2>3
<1>5. ASSUME Distinct(q), Distinct(r), Range(q) \cap Range(r) = {}
      PROVE  Distinct(p)
  <2>1. SUFFICES ASSUME NEW a \in 1 .. (n + l), NEW b \in 1 .. (n + l), p[a] = p[b] PROVE a = b
    BY <1>2 DEF Distinct
  <2>2. \A c \in 1 .. n : \A e \in 1 .. l : q[c] # r[e]
    BY <1>2, <1>5 DEF Range
  <2>3. \A c, e \in 1 .. n : q[c] = q[e] => c = e
    BY <1>5 DEF Distinct, n
  <2>4. \A c, e \in 1 .. l : r[c] = r[e] => c = e
    BY <1>5 DEF Distinct, l
  <2>5. CASE a \in 1 .. n
    BY <1>2, <1>3, <2>1, <2>2, <2>3, <2>5
  <2>6. CASE a \notin 1 .. n
    <3>1. a - n \in 1 .. l /\ p[a] = r[a - n]
      BY <1>3, <2>6
    <3>2. b \notin 1 .. n
      BY <1>2, <2>1, <2>2, <3>1
    <3>3. b - n \in 1 .. l /\ p[b] = r[b - n]
      BY <1>3, <3>2
    <3>4. a - n = b - n
      BY <2>1, <2>4, <3>1, <3>3
    <3>5. QED
      BY <1>2, <3>4
  <2>7. QED
    BY <2>5, <2>6
<1>6. QED
  BY <1>1, <1>4, <1>5 DEF p

LEMMA EmptyQueue ==
  ASSUME NEW M
  PROVE  <<>> \in Seq(M) /\ Len(<<>>) = 0 /\ Range(<<>>) = {} /\ Distinct(<<>>)
  BY DEF Range, Distinct

LEMMA LeastElement ==
  ASSUME NEW S \in SUBSET Nat, S # {}
  PROVE  Min(S) \in S
<1>1. PICK x \in S : \A y \in S : <<y, x>> \notin OpToRel(<, Nat)
  BY NatLessThanWellFounded, WFMin
<1>2. \A y \in S : ~(y < x)
  BY <1>1 DEF OpToRel
<1>3. \E z \in S : \A y \in S : z <= y
  BY <1>2
<1>4. QED
  BY <1>3 DEF Min

(* The instances in turn, from any of them on. *)
LEMMA RoundAll ==
  ASSUME NEW p \in Instance
  PROVE  /\ \A k \in DOMAIN Round(p) : k \in Nat /\ Round(p)[k] \in Instance
         /\ \A j \in Instance : \E k \in DOMAIN Round(p) : Round(p)[k] = j
<1> DEFINE M == MULTI_INSTANCES
<1>1. \A k \in 1 .. M : Round(p)[k] = (p + k - 1) % M
  BY DEF Round
<1>2. DOMAIN Round(p) = 1 .. M /\ M \in Nat /\ M > 0 /\ Instance = 0 .. (M - 1)
  BY Constants DEF Round, Instance
<1>3. ASSUME NEW k \in 1 .. M
      PROVE  Round(p)[k] \in Instance
  <2>1. p + k - 1 \in Int
    BY <1>2, Constants
  <2>2. QED
    BY <1>1, <1>2, <2>1, Remainder
<1>4. ASSUME NEW j \in Instance
      PROVE  \E k \in 1 .. M : Round(p)[k] = j
  <2> DEFINE a == M + j - p
             q == a \div M
             v == a % M
  <2>1. a \in Int /\ a = M * q + v /\ v \in 0 .. (M - 1) /\ q \in Int /\ a = M + j - p
    BY <1>2, Remainder, Constants
  <2> HIDE DEF a, q, v
  <2>2. p + v = M * (1 - q) + j /\ p + v \in Int /\ 1 - q \in Int
    BY <1>2, <2>1, Constants
  <2>3. (p + v) % M = j
    BY <1>2, <2>2, IsRemainder
  <2>4. v + 1 \in 1 .. M /\ p + (v + 1) - 1 = p + v
    BY <1>2, <2>1, Constants
  <2>5. Round(p)[v + 1] = j
    BY <1>1, <2>3, <2>4
  <2>6. QED
    BY <2>4, <2>5
<1>5. DOMAIN Round(p) = 1 .. M /\ \A k \in 1 .. M : k \in Nat
  BY <1>2
<1> HIDE DEF M
<1>6. QED
  BY <1>3, <1>4, <1>5, Zenon

(* enqueue finds a queue. *)
LEMMA ShortestInstance ==
  ASSUME clb_cnt \in [Instance -> Nat], NEW p \in Instance
  PROVE  shortest(p) \in Instance
<1> DEFINE least == Min(Range(clb_cnt))
           S == {k \in DOMAIN Round(p) : clb_cnt[Round(p)[k]] = least}
<1>1. Range(clb_cnt) \in SUBSET Nat /\ Range(clb_cnt) # {}
  BY Constants DEF Range
<1>2. least \in Range(clb_cnt)
  BY <1>1, LeastElement
<1> HIDE DEF least
<1>3. PICK j \in Instance : clb_cnt[j] = least
  BY <1>2 DEF Range
<1>4. S \in SUBSET Nat /\ S # {}
  BY <1>3, RoundAll
<1>5. Min(S) \in S
  BY <1>4, LeastElement
<1>6. Round(p)[Min(S)] \in Instance
  BY <1>5, RoundAll
<1>7. QED
  BY <1>6 DEF shortest, least
-----------------------------------------------------------------------------
(* What a thread holds: a vote or a GENERIC that arrived, for its own      *)
(* instance.                                                               *)
LEMMA HeldMessage ==
  ASSUME TypeOK, ArrivedInv, RouteInv, NEW t \in Worker, Holds(t)
  PROVE  LET m == worker[t].msg IN
         /\ m \in Messages /\ m \in arrived /\ m.rtype \in {"SYNC", "GENERIC"}
         /\ IsPrior(m) <=> m.rtype = "GENERIC"
         /\ m.slot \in Slot /\ m.slot[1] \in Instance /\ m.slot[2] \in Nat /\ m.slot[2] < MaxView
         /\ m.slot = <<m.slot[1], m.slot[2]>>
         /\ Thread(m.slot[1]) = t /\ m.from \in Node
<1>1. worker[t].msg \in Messages
  BY DEF TypeOK
<1>2. worker[t].msg \in arrived /\ Thread(worker[t].msg.slot[1]) = t
  BY DEF RouteInv
<1>3. QED
  BY <1>1, <1>2, Constants DEF Messages, ArrivedInv, IsPrior, Slot

(* A message handled by an instance thread may end the current view of its *)
(* instance, and then its GENERIC has been received.                       *)
LEMMA ProcessStep ==
  ASSUME TypeOK, Inv, NEW t \in Worker, process(t)
  PROVE  LET m == worker[t].msg
             s == worker[t].msg.slot
         IN
         /\ \/ UNCHANGED <<view, prior_queue, prior_cnt, temp_queue, sems>>
            \/ advance_view(s[1]) /\ view[s[1]] = s[2] /\ generic_received'[s]
         /\ generic_received' = IF IsPrior(m) THEN [generic_received EXCEPT ![s] = TRUE] ELSE generic_received
         /\ \E S \in SUBSET Node : voters' = [voters EXCEPT ![s] = S] /\ voters[s] \subseteq S
                                   /\ (IsPrior(m) => g_node_id \in S)
         /\ \E b \in BOOLEAN : new_viewed' = [new_viewed EXCEPT ![s] = b]
         /\ txn_ready' = [txn_ready EXCEPT ![s] = TRUE]
         /\ worker' = [worker EXCEPT ![t] = [at |-> "idle", msg |-> NoMsg]]
         /\ UNCHANGED <<next_send_view, last_sent_view, incomplete_proposal_cnt, clb_cnt, idx,
                        proposalInstance, expectedInstance, work_queue, proposer, batcher, input,
                        generic_out, arrived>>
<1> DEFINE m == worker[t].msg
           s == worker[t].msg.slot
<1>1. Holds(t) /\ worker[t].at = "process"
  BY DEF process, Holds
<1>2. /\ m.rtype \in {"SYNC", "GENERIC"} /\ (IsPrior(m) <=> m.rtype = "GENERIC")
      /\ s \in Slot /\ s[1] \in Instance /\ s[2] \in Nat /\ s = <<s[1], s[2]>> /\ m.from \in Node
  BY <1>1, HeldMessage DEF Inv
<1>3. view[s[1]] \in Nat /\ generic_received \in [Slot -> BOOLEAN] /\ voters \in [Slot -> SUBSET Node]
      /\ new_viewed \in [Slot -> BOOLEAN] /\ g_node_id \in Node
  <2>1. /\ view \in [Instance -> 0 .. MaxView] /\ generic_received \in [Slot -> BOOLEAN]
        /\ voters \in [Slot -> SUBSET Node] /\ new_viewed \in [Slot -> BOOLEAN]
    BY DEF TypeOK
  <2>2. QED
    BY <1>2, <2>1, Constants
<1>4. /\ txn_ready' = [txn_ready EXCEPT ![s] = TRUE]
      /\ worker' = [worker EXCEPT ![t] = [at |-> "idle", msg |-> NoMsg]]
      /\ UNCHANGED <<next_send_view, last_sent_view, incomplete_proposal_cnt, clb_cnt, idx,
                     proposalInstance, expectedInstance, work_queue, proposer, batcher, input, arrived>>
  BY DEF process, sending
<1>5. CASE m.rtype = "SYNC"
  <2>1. AddVote(s, m.from) /\ UNCHANGED generic_out
    BY <1>5 DEF process
  <2>2. ~IsPrior(m) /\ generic_received' = generic_received
    BY <1>2, <1>5, <2>1 DEF AddVote
  <2>3. \/ UNCHANGED <<view, prior_queue, prior_cnt, temp_queue, sems>>
        \/ advance_view(s[1]) /\ generic_received[s]
    BY <2>1 DEF AddVote, Stay
  <2>4. generic_received[s] => view[s[1]] = s[2]
    BY <1>1, <1>2, <1>3, <2>2 DEF Inv, ViewInv
  <2>5. \E S \in SUBSET Node : voters' = [voters EXCEPT ![s] = S] /\ voters[s] \subseteq S
    <3>1. \/ voters' = voters
          \/ voters' = [voters EXCEPT ![s] = voters[s] \cup {m.from}]
      BY <2>1 DEF AddVote
    <3>2. voters = [voters EXCEPT ![s] = voters[s]] /\ voters[s] \in SUBSET Node
          /\ voters[s] \cup {m.from} \in SUBSET Node
      BY <1>2, <1>3
    <3>3. QED
      BY <3>1, <3>2
  <2>6. \E b \in BOOLEAN : new_viewed' = [new_viewed EXCEPT ![s] = b]
    BY <2>1, Zenon DEF AddVote
  <2>7. QED
    BY <1>4, <2>1, <2>2, <2>3, <2>4, <2>5, <2>6
<1>6. CASE m.rtype = "GENERIC"
  <2>1. Vote(s) /\ UNCHANGED generic_out /\ (advance_view(s[1]) \/ Stay)
    BY <1>6 DEF process
  <2>2. IsPrior(m) /\ generic_received' = [generic_received EXCEPT ![s] = TRUE]
    BY <1>2, <1>6, <2>1 DEF Vote
  <2>3. generic_received'[s]
    BY <1>2, <1>3, <2>2
  <2>4. view[s[1]] = s[2]
    <3>1. ~generic_received[s]
      <4>1. InHand(t, m) /\ m \in Messages
        BY <1>1, <2>2, HeldMessage DEF InHand, Reading, Inv
      <4>2. QED
        BY <4>1 DEF Inv, OnceInv, Once
    <3>2. s[2] <= view[s[1]]
      BY <1>1, <2>2 DEF Inv, ViewInv
    <3>3. ~(s[2] < view[s[1]])
      BY <1>2, <3>1 DEF Inv, ViewInv
    <3>4. QED
      BY <1>2, <1>3, <3>2, <3>3
  <2>5. \E S \in SUBSET Node : voters' = [voters EXCEPT ![s] = S] /\ voters[s] \subseteq S /\ g_node_id \in S
    BY <1>2, <1>3, <2>1, ZenonT(60) DEF Vote
  <2>6. \E b \in BOOLEAN : new_viewed' = [new_viewed EXCEPT ![s] = b]
    BY <2>1, Zenon DEF Vote
  <2>7. QED
    BY <1>4, <2>1, <2>2, <2>3, <2>4, <2>5, <2>6 DEF Stay
<1>7. QED
  BY <1>2, <1>5, <1>6
-----------------------------------------------------------------------------
LEMMA NoMsgType == NoSlot \in Slot /\ NoMsg \in Messages
  BY Constants DEF NoSlot, Slot, NoMsg, Msg, Messages

LEMMA SemType ==
  /\ BatchSem \in 0 .. BatchSem /\ ProposalSem \in 0 .. BatchSem /\ BatchSem # ProposalSem
  /\ \A t \in Worker : t \in 0 .. BatchSem /\ t # BatchSem /\ t # ProposalSem
  BY Constants DEF BatchSem, ProposalSem, Worker

LEMMA InitType == Init => TypeOK
<1> SUFFICES ASSUME Init PROVE TypeOK
  OBVIOUS
<1>1. next_send_view \in [Instance -> Nat]
  <2>1. \A i \in Instance : (NODE_CNT + g_node_id - i) % NODE_CNT \in Nat
    BY FirstLed, Constants
  <2>2. QED
    BY <2>1 DEF Init
<1>2. proposal_semaphore \in Nat
  <2>1. IsFiniteSet(Instance)
    BY Constants, FS_Interval DEF Instance
  <2>2. IsFiniteSet({i \in Instance : Leads(<<i, 0>>)})
    BY <2>1, FS_Subset
  <2>3. QED
    BY <2>2, FS_CardinalityType DEF Init, First
<1>3. /\ prior_queue \in [Worker -> Seq(Messages)] /\ work_queue \in [Worker -> Seq(Messages)]
      /\ temp_queue \in [Instance -> Seq(Messages)]
  BY EmptyQueue DEF Init
<1>4. /\ proposer \in [at : {"idle", "wait", "scan", "take", "fill", "retake", "send", "count"}, slot : Slot]
      /\ batcher \in [at : {"idle", "wait", "scan", "found", "take", "send", "vote"}, slot : Slot]
      /\ worker \in [Worker -> [at : {"idle", "awake", "take", "process"}, msg : Messages]]
      /\ input \in [Input -> [at : {"idle", "push", "count", "post"}, msg : Messages]]
  BY NoMsgType DEF Init
<1>5. view \in [Instance -> 0 .. MaxView]
  BY Constants DEF Init
<1>6. idx \in Instance /\ proposalInstance \in Instance /\ expectedInstance \in Instance
  BY Constants DEF Init
<1>7. /\ last_sent_view \in [Instance -> Nat] /\ incomplete_proposal_cnt \in [Instance -> Nat]
      /\ clb_cnt \in [Instance -> Nat] /\ worker_queue_semaphore \in [0 .. BatchSem -> Nat]
      /\ new_txn_semaphore \in Nat /\ prior_cnt \in [Worker -> Nat]
  BY DEF Init
<1>8. /\ txn_ready \in [Slot -> BOOLEAN] /\ voters \in [Slot -> SUBSET Node]
      /\ generic_received \in [Slot -> BOOLEAN] /\ new_viewed \in [Slot -> BOOLEAN]
      /\ generic_out \subseteq Slot /\ arrived \subseteq Messages
  BY DEF Init
<1>9. QED
  BY <1>1, <1>2, <1>3, <1>4, <1>5, <1>6, <1>7, <1>8 DEF TypeOK

(* What a message is taken from, is put into and leaves behind. *)
LEMMA PushType ==
  ASSUME TypeOK, NEW m \in Messages, push(m)
  PROVE  prior_queue' \in [Worker -> Seq(Messages)] /\ work_queue' \in [Worker -> Seq(Messages)]
<1> DEFINE t == Thread(m.slot[1])
<1>1. prior_queue \in [Worker -> Seq(Messages)] /\ work_queue \in [Worker -> Seq(Messages)]
  BY DEF TypeOK
<1>2. t \in Worker
  BY ThreadWorker DEF Messages, Slot
<1>3. Append(prior_queue[t], m) \in Seq(Messages) /\ Append(work_queue[t], m) \in Seq(Messages)
  BY <1>1, <1>2, Appended
<1>4. QED
  BY <1>1, <1>2, <1>3 DEF push

LEMMA PostType ==
  ASSUME TypeOK, NEW t \in Worker, post(t)
  PROVE  worker_queue_semaphore' \in [0 .. BatchSem -> Nat]
<1>1. worker_queue_semaphore \in [0 .. BatchSem -> Nat]
  BY DEF TypeOK
<1>2. t \in 0 .. BatchSem
  BY SemType
<1>3. QED
  BY <1>1, <1>2 DEF post

LEMMA ReceiverType ==
  ASSUME TypeOK, NEW k \in Input, Receiver(k)
  PROVE  TypeOK'
<1>0. /\ input \in [Input -> [at : {"idle", "push", "count", "post"}, msg : Messages]]
      /\ input[k].msg \in Messages /\ Thread(input[k].msg.slot[1]) \in Worker
      /\ prior_cnt \in [Worker -> Nat] /\ arrived \subseteq Messages
  <2>1. /\ input \in [Input -> [at : {"idle", "push", "count", "post"}, msg : Messages]]
        /\ prior_cnt \in [Worker -> Nat] /\ arrived \subseteq Messages
    BY DEF TypeOK
  <2>2. input[k].msg \in Messages
    BY <2>1
  <2>3. QED
    BY <2>1, <2>2, ThreadWorker DEF Messages, Slot
<1>1. CASE receive(k)
  <2>1. PICK m \in Messages : arrived' = arrived \cup {m} /\ input' = [input EXCEPT ![k] = [at |-> "push", msg |-> m]]
    BY <1>1 DEF receive
  <2>2. input' \in [Input -> [at : {"idle", "push", "count", "post"}, msg : Messages]] /\ arrived' \subseteq Messages
    BY <1>0, <2>1
  <2>3. QED
    BY <1>1, <2>2 DEF receive, TypeOK, sending, sems, queues, manager
<1>2. CASE enqueue_push(k)
  <2>1. prior_queue' \in [Worker -> Seq(Messages)] /\ work_queue' \in [Worker -> Seq(Messages)]
    BY <1>0, <1>2, PushType DEF enqueue_push
  <2>2. input' \in [Input -> [at : {"idle", "push", "count", "post"}, msg : Messages]]
    BY <1>0, <1>2 DEF enqueue_push, AfterPush
  <2>3. QED
    BY <1>2, <2>1, <2>2 DEF enqueue_push, TypeOK, sending, sems, manager, outside
<1>3. CASE enqueue_count(k)
  <2>1. prior_cnt' \in [Worker -> Nat]
    BY <1>0, <1>3 DEF enqueue_count
  <2>2. input' \in [Input -> [at : {"idle", "push", "count", "post"}, msg : Messages]]
    BY <1>0, <1>3 DEF enqueue_count
  <2>3. QED
    BY <1>3, <2>1, <2>2 DEF enqueue_count, TypeOK, sending, sems, manager, outside
<1>4. CASE enqueue_post(k)
  <2>1. worker_queue_semaphore' \in [0 .. BatchSem -> Nat]
    BY <1>0, <1>4, PostType DEF enqueue_post
  <2>2. input' \in [Input -> [at : {"idle", "push", "count", "post"}, msg : Messages]]
    BY <1>0, <1>4, NoMsgType DEF enqueue_post
  <2>3. QED
    BY <1>4, <2>1, <2>2 DEF enqueue_post, TypeOK, sending, queues, manager, outside
<1>5. QED
  BY <1>1, <1>2, <1>3, <1>4 DEF Receiver

LEMMA BatchType ==
  ASSUME TypeOK, enqueue_batch
  PROVE  TypeOK'
<1>0. /\ clb_cnt \in [Instance -> Nat] /\ idx \in Instance
      /\ worker_queue_semaphore \in [0 .. BatchSem -> Nat]
  BY DEF TypeOK
<1>1. shortest(idx) \in Instance
  BY <1>0, ShortestInstance
<1>2. clb_cnt' \in [Instance -> Nat]
  BY <1>0, <1>1 DEF enqueue_batch
<1>3. worker_queue_semaphore' \in [0 .. BatchSem -> Nat]
  BY <1>0, SemType DEF enqueue_batch
<1>4. idx' \in Instance
  <2>1. shortest(idx) + 1 \in Int
    BY <1>1, Constants
  <2>2. (shortest(idx) + 1) % MULTI_INSTANCES \in 0 .. (MULTI_INSTANCES - 1)
    BY <2>1, Remainder, Constants
  <2>3. QED
    BY <2>2 DEF enqueue_batch, Instance
<1>5. QED
  BY <1>2, <1>3, <1>4 DEF enqueue_batch, TypeOK, queues, manager, outside

(* dequeue takes a batch from a queue that has one, for the view to        *)
(* propose in.                                                             *)
LEMMA ProposalStep ==
  ASSUME TypeOK, dequeue_proposal
  PROVE  LET p == proposalInstance IN
         \/ UNCHANGED <<clb_cnt, last_sent_view, next_send_view, proposer>>
         \/ /\ next_send_view[p] <= view[p]
            /\ \E j \in Instance : clb_cnt[j] > 0 /\ clb_cnt' = [clb_cnt EXCEPT ![j] = @ - 1]
            /\ last_sent_view' = [last_sent_view EXCEPT ![p] = next_send_view[p]]
            /\ next_send_view' = [next_send_view EXCEPT ![p] = @ + NODE_CNT]
            /\ proposer' = [at |-> "take", slot |-> <<p, next_send_view[p]>>]
<1> DEFINE p     == proposalInstance
           order == Round(p)
           found == {k \in DOMAIN order : next_send_view[p] <= view[p] /\ Usable(p, order[k])}
<1>1. p \in Instance
  BY DEF TypeOK
<1>2. CASE found = {}
  BY <1>2 DEF dequeue_proposal
<1>3. CASE found # {}
  <2>1. found \in SUBSET Nat
    BY <1>1, RoundAll
  <2>2. Min(found) \in found
    BY <1>3, <2>1, LeastElement
  <2>3. next_send_view[p] <= view[p] /\ order[Min(found)] \in Instance /\ clb_cnt[order[Min(found)]] > 0
    BY <1>1, <2>2, RoundAll DEF Usable
  <2>4. /\ clb_cnt' = [clb_cnt EXCEPT ![order[Min(found)]] = @ - 1]
        /\ last_sent_view' = [last_sent_view EXCEPT ![p] = next_send_view[p]]
        /\ next_send_view' = [next_send_view EXCEPT ![p] = @ + NODE_CNT]
        /\ proposer' = [at |-> "take", slot |-> <<p, next_send_view[p]>>]
    BY <1>3 DEF dequeue_proposal
  <2>5. QED
    BY <2>3, <2>4
<1>4. QED
  BY <1>2, <1>3

LEMMA ProposerType ==
  ASSUME TypeOK, Proposer
  PROVE  TypeOK'
<1>0. /\ proposer \in [at : {"idle", "wait", "scan", "take", "fill", "retake", "send", "count"}, slot : Slot]
      /\ worker_queue_semaphore \in [0 .. BatchSem -> Nat] /\ proposal_semaphore \in Nat
      /\ incomplete_proposal_cnt \in [Instance -> Nat] /\ txn_ready \in [Slot -> BOOLEAN]
      /\ view \in [Instance -> 0 .. MaxView] /\ next_send_view \in [Instance -> Nat]
      /\ last_sent_view \in [Instance -> Nat] /\ clb_cnt \in [Instance -> Nat]
      /\ proposalInstance \in Instance
  BY DEF TypeOK
<1>1. CASE proposer_wait
  <2>1. worker_queue_semaphore' \in [0 .. BatchSem -> Nat]
    BY <1>0, <1>1, SemType DEF proposer_wait
  <2>2. proposer' \in [at : {"idle", "wait", "scan", "take", "fill", "retake", "send", "count"}, slot : Slot]
    BY <1>0, <1>1 DEF proposer_wait
  <2>3. QED
    BY <1>1, <2>1, <2>2 DEF proposer_wait, TypeOK, sending, queues, manager, outside
<1>2. CASE proposer_wait_view
  <2>1. proposal_semaphore' \in Nat
    BY <1>0, <1>2 DEF proposer_wait_view
  <2>2. proposer' \in [at : {"idle", "wait", "scan", "take", "fill", "retake", "send", "count"}, slot : Slot]
    BY <1>0, <1>2 DEF proposer_wait_view
  <2>3. QED
    BY <1>2, <2>1, <2>2 DEF proposer_wait_view, TypeOK, sending, queues, manager, outside
<1>3. CASE dequeue_proposal
  <2>1. proposalInstance' \in Instance
    BY <1>0, <1>3, BeforeInstance DEF dequeue_proposal
  <2>2. /\ clb_cnt' \in [Instance -> Nat] /\ last_sent_view' \in [Instance -> Nat]
        /\ next_send_view' \in [Instance -> Nat]
        /\ proposer' \in [at : {"idle", "wait", "scan", "take", "fill", "retake", "send", "count"}, slot : Slot]
    <3>1. CASE UNCHANGED <<clb_cnt, last_sent_view, next_send_view, proposer>>
      BY <1>0, <3>1
    <3>2. CASE /\ next_send_view[proposalInstance] <= view[proposalInstance]
               /\ \E j \in Instance : clb_cnt[j] > 0 /\ clb_cnt' = [clb_cnt EXCEPT ![j] = @ - 1]
               /\ last_sent_view' = [last_sent_view EXCEPT ![proposalInstance] = next_send_view[proposalInstance]]
               /\ next_send_view' = [next_send_view EXCEPT ![proposalInstance] = @ + NODE_CNT]
               /\ proposer' = [at |-> "take", slot |-> <<proposalInstance, next_send_view[proposalInstance]>>]
      <4>1. clb_cnt' \in [Instance -> Nat]
        BY <1>0, <3>2
      <4>2. last_sent_view' \in [Instance -> Nat] /\ next_send_view' \in [Instance -> Nat]
        <5>1. last_sent_view' \in [Instance -> Nat]
          BY <1>0, <3>2
        <5>2. NODE_CNT \in Nat
          BY Constants
        <5>3. next_send_view' \in [Instance -> Nat]
          BY <1>0, <3>2, <5>2
        <5>4. QED
          BY <5>1, <5>3
      <4>3. <<proposalInstance, next_send_view[proposalInstance]>> \in Slot
        <5>1. next_send_view[proposalInstance] \in Nat /\ view[proposalInstance] \in 0 .. MaxView
          BY <1>0
        <5>2. next_send_view[proposalInstance] \in 0 .. MaxView
          BY <3>2, <5>1, Constants
        <5>3. QED
          BY <1>0, <5>2 DEF Slot
      <4>4. QED
        BY <3>2, <4>1, <4>2, <4>3
    <3>3. QED
      BY <1>3, <3>1, <3>2, ProposalStep
  <2>3. QED
    BY <1>3, <2>1, <2>2 DEF dequeue_proposal, TypeOK, sems, queues, manager, outside
<1>4. CASE proposer_take \/ init_txn_man \/ create_and_send_hotstuff_prepare
  <2>1. proposer.slot \in Slot
    BY <1>0
  <2>2. txn_ready' \in [Slot -> BOOLEAN]
    BY <1>0, <1>4, <2>1 DEF proposer_take, init_txn_man, create_and_send_hotstuff_prepare, unset_ready
  <2>3. proposer' \in [at : {"idle", "wait", "scan", "take", "fill", "retake", "send", "count"}, slot : Slot]
    BY <1>0, <1>4 DEF proposer_take, init_txn_man, create_and_send_hotstuff_prepare
  <2>4. UNCHANGED <<view, sending, sems, queues, voters, generic_received, new_viewed, batcher, worker, input, outside>>
    BY <1>4 DEF proposer_take, init_txn_man, create_and_send_hotstuff_prepare
  <2>5. QED
    BY <2>2, <2>3, <2>4 DEF TypeOK, sending, sems, queues, outside
<1>5. CASE inc_incomplete_proposal_cnt
  <2>1. proposer.slot[1] \in Instance
    BY <1>0 DEF Slot
  <2>2. incomplete_proposal_cnt' \in [Instance -> Nat]
    BY <1>0, <1>5, <2>1 DEF inc_incomplete_proposal_cnt
  <2>3. proposer' \in [at : {"idle", "wait", "scan", "take", "fill", "retake", "send", "count"}, slot : Slot]
    BY <1>5, NoMsgType DEF inc_incomplete_proposal_cnt
  <2>4. QED
    BY <1>5, <2>2, <2>3 DEF inc_incomplete_proposal_cnt, TypeOK, sems, queues, manager, outside
<1>6. QED
  BY <1>1, <1>2, <1>3, <1>4, <1>5 DEF Proposer

(* The batch thread sends for the current view, which is led and proposed  *)
(* in, and no thread has its manager.                                      *)
LEMMA BatchSlot ==
  ASSUME TypeOK, SendInv, NEW i \in Instance, incomplete_proposal_cnt[i] # 0
  PROVE  /\ last_sent_view[i] = view[i] /\ <<i, view[i]>> \in Slot
         /\ incomplete_proposal_cnt[i] = 1 /\ InProposal(i) /\ ~Proposing(i) /\ ~Sending(i) /\ ~Out(i)
<1>1. incomplete_proposal_cnt[i] \in Nat /\ view[i] \in 0 .. MaxView
  <2>1. incomplete_proposal_cnt \in [Instance -> Nat] /\ view \in [Instance -> 0 .. MaxView]
    BY DEF TypeOK
  <2>2. QED
    BY <2>1
<1>2. incomplete_proposal_cnt[i] > 0
  BY <1>1
<1>3. (IF Proposing(i) THEN 1 ELSE 0) + incomplete_proposal_cnt[i]
       + (IF Sending(i) THEN 1 ELSE 0) + (IF Out(i) THEN 1 ELSE 0) = IF InProposal(i) THEN 1 ELSE 0
  BY DEF SendInv
<1>4. incomplete_proposal_cnt[i] = 1 /\ InProposal(i) /\ ~Proposing(i) /\ ~Sending(i) /\ ~Out(i)
  BY <1>1, <1>2, <1>3
<1>5. QED
  BY <1>1, <1>4 DEF SendInv, Slot

LEMMA SlotPair == \A s \in Slot : s[1] \in Instance /\ s[2] \in 0 .. MaxView /\ s[2] \in Nat /\ s = <<s[1], s[2]>>
  BY Constants DEF Slot

(* The slot the batch thread takes is that of the current view.            *)
LEMMA SendingSlot ==
  ASSUME TypeOK, SendInv, NEW i \in Instance, Sending(i)
  PROVE  /\ batcher.slot = <<i, view[i]>> /\ incomplete_proposal_cnt[i] = 0
         /\ InProposal(i) /\ ~Proposing(i) /\ ~Out(i)
<1>1. incomplete_proposal_cnt[i] \in Nat /\ batcher.slot \in Slot
  <2>1. incomplete_proposal_cnt \in [Instance -> Nat]
        /\ batcher \in [at : {"idle", "wait", "scan", "found", "take", "send", "vote"}, slot : Slot]
    BY DEF TypeOK
  <2>2. QED
    BY <2>1
<1>2. (IF Proposing(i) THEN 1 ELSE 0) + incomplete_proposal_cnt[i]
       + (IF Sending(i) THEN 1 ELSE 0) + (IF Out(i) THEN 1 ELSE 0) = IF InProposal(i) THEN 1 ELSE 0
  BY DEF SendInv
<1>3. incomplete_proposal_cnt[i] = 0 /\ InProposal(i) /\ ~Proposing(i) /\ ~Out(i)
  BY <1>1, <1>2
<1>4. batcher.slot[1] = i /\ batcher.slot[2] = view[i]
  BY DEF Sending, SendInv
<1>5. QED
  BY <1>1, <1>3, <1>4, SlotPair

(* A GENERIC_MSG_P finds its manager ready. *)
LEMMA BatcherFinds ==
  ASSUME TypeOK, Inv, batcher.at = "take"
  PROVE  txn_ready[batcher.slot]
<1> DEFINE s == batcher.slot
           i == s[1]
<1>1. s \in Slot
  <2>1. batcher \in [at : {"idle", "wait", "scan", "found", "take", "send", "vote"}, slot : Slot]
    BY DEF TypeOK
  <2>2. QED
    BY <2>1
<1>2. i \in Instance /\ Sending(i)
  BY <1>1, SlotPair DEF Sending
<1>3. s = <<i, view[i]>> /\ InProposal(i) /\ ~Proposing(i) /\ ~Out(i)
  BY <1>2, SendingSlot DEF Inv
<1>4. Leads(s) /\ s \notin generic_out
  BY <1>3 DEF InProposal, Out
<1>5. SUFFICES ASSUME ~txn_ready[s] PROVE FALSE
  OBVIOUS
<1>6. ~ProposerOwns(s) /\ ~BatcherOwns(s)
  BY <1>3 DEF ProposerOwns, BatcherOwns, Proposing
<1>7. PICK t \in Worker : WorkerOwns(t, s)
  BY <1>1, <1>5, <1>6 DEF Inv, OwnerInv
<1>8. Holds(t) /\ worker[t].msg.slot = s
  BY <1>7 DEF WorkerOwns, Holds
<1>9. worker[t].msg \in arrived
  BY <1>8, HeldMessage DEF Inv
<1>10. QED
  BY <1>4, <1>8, <1>9 DEF Inv, ArrivedInv

LEMMA BatcherType ==
  ASSUME TypeOK, Inv, Batcher
  PROVE  TypeOK'
<1>0. /\ batcher \in [at : {"idle", "wait", "scan", "found", "take", "send", "vote"}, slot : Slot]
      /\ worker_queue_semaphore \in [0 .. BatchSem -> Nat] /\ new_txn_semaphore \in Nat
      /\ incomplete_proposal_cnt \in [Instance -> Nat] /\ txn_ready \in [Slot -> BOOLEAN]
      /\ voters \in [Slot -> SUBSET Node] /\ generic_received \in [Slot -> BOOLEAN]
      /\ new_viewed \in [Slot -> BOOLEAN] /\ expectedInstance \in Instance
      /\ generic_out \subseteq Slot
  BY DEF TypeOK
<1>1. batcher.slot \in Slot
  BY <1>0
<1>2. CASE batcher_wait
  <2>1. worker_queue_semaphore' \in [0 .. BatchSem -> Nat]
    BY <1>0, <1>2, SemType DEF batcher_wait
  <2>2. batcher' \in [at : {"idle", "wait", "scan", "found", "take", "send", "vote"}, slot : Slot]
    BY <1>0, <1>2 DEF batcher_wait
  <2>3. QED
    BY <1>2, <2>1, <2>2 DEF batcher_wait, TypeOK, sending, queues, manager, outside
<1>3. CASE batcher_wait_view
  <2>1. new_txn_semaphore' \in Nat
    BY <1>0, <1>3 DEF batcher_wait_view
  <2>2. batcher' \in [at : {"idle", "wait", "scan", "found", "take", "send", "vote"}, slot : Slot]
    BY <1>0, <1>3 DEF batcher_wait_view
  <2>3. QED
    BY <1>3, <2>1, <2>2 DEF batcher_wait_view, TypeOK, sending, queues, manager, outside
<1>4. CASE dequeue_generic
  <2>1. expectedInstance' \in Instance
    BY <1>0, <1>4, BeforeInstance DEF dequeue_generic
  <2>2. batcher' \in [at : {"idle", "wait", "scan", "found", "take", "send", "vote"}, slot : Slot]
    BY <1>0, <1>4 DEF dequeue_generic
  <2>3. QED
    BY <1>4, <2>1, <2>2 DEF dequeue_generic, TypeOK, sems, queues, manager, outside
<1>9. CASE dec_incomplete_proposal_cnt
  <2>1. expectedInstance' \in Instance
    BY <1>0, <1>9, BeforeInstance DEF dec_incomplete_proposal_cnt
  <2>2. /\ last_sent_view[expectedInstance] = view[expectedInstance]
        /\ <<expectedInstance, view[expectedInstance]>> \in Slot
        /\ incomplete_proposal_cnt[expectedInstance] = 1
    BY <1>0, <1>9, BatchSlot DEF dec_incomplete_proposal_cnt, Inv, FoundInv
  <2>3. /\ incomplete_proposal_cnt' = [incomplete_proposal_cnt EXCEPT ![expectedInstance] = 1 - 1]
        /\ batcher' = [at |-> "take", slot |-> <<expectedInstance, view[expectedInstance]>>]
    BY <1>9, <2>2 DEF dec_incomplete_proposal_cnt
  <2>4. /\ incomplete_proposal_cnt' \in [Instance -> Nat]
        /\ batcher' \in [at : {"idle", "wait", "scan", "found", "take", "send", "vote"}, slot : Slot]
    BY <1>0, <2>2, <2>3
  <2>5. QED
    BY <1>9, <2>1, <2>4 DEF dec_incomplete_proposal_cnt, TypeOK, sems, queues, manager, outside
<1>5. CASE batcher_take
  <2>1. txn_ready[batcher.slot]
    BY <1>5, BatcherFinds DEF batcher_take
  <2>2. txn_ready' \in [Slot -> BOOLEAN]
    BY <1>0, <1>1, <1>5, <2>1 DEF batcher_take, unset_ready
  <2>3. batcher' \in [at : {"idle", "wait", "scan", "found", "take", "send", "vote"}, slot : Slot]
    BY <1>0, <1>5, <2>1 DEF batcher_take
  <2>4. UNCHANGED <<work_queue, worker_queue_semaphore>>
    BY <1>5, <2>1 DEF batcher_take
  <2>5. QED
    BY <1>5, <2>2, <2>3, <2>4 DEF batcher_take, TypeOK, sending, outside
<1>6. CASE send_hotstuff_generic
  <2>1. generic_out' \subseteq Slot
    BY <1>0, <1>1, <1>6 DEF send_hotstuff_generic
  <2>2. batcher' \in [at : {"idle", "wait", "scan", "found", "take", "send", "vote"}, slot : Slot]
    BY <1>0, <1>6 DEF send_hotstuff_generic
  <2>3. QED
    BY <1>6, <2>1, <2>2 DEF send_hotstuff_generic, TypeOK, sending, sems, queues, manager
<1>7. CASE process_hotstuff_generic_p
  <2>1. generic_received' \in [Slot -> BOOLEAN]
    BY <1>0, <1>1, <1>7 DEF process_hotstuff_generic_p, Vote
  <2>2. voters' \in [Slot -> SUBSET Node]
    BY <1>0, <1>1, <1>7, Constants DEF process_hotstuff_generic_p, Vote
  <2>3. new_viewed' \in [Slot -> BOOLEAN]
    <3>1. \E b \in BOOLEAN : new_viewed' = [new_viewed EXCEPT ![batcher.slot] = b]
      BY <1>7, Zenon DEF process_hotstuff_generic_p, Vote
    <3>2. QED
      BY <1>0, <1>1, <3>1
  <2>4. txn_ready' \in [Slot -> BOOLEAN]
    BY <1>0, <1>1, <1>7 DEF process_hotstuff_generic_p
  <2>5. batcher' \in [at : {"idle", "wait", "scan", "found", "take", "send", "vote"}, slot : Slot]
    BY <1>7, NoMsgType DEF process_hotstuff_generic_p
  <2>6. UNCHANGED <<view, sending, sems, queues, proposer, worker, input, outside>>
    BY <1>7 DEF process_hotstuff_generic_p
  <2>7. QED
    BY <2>1, <2>2, <2>3, <2>4, <2>5, <2>6 DEF TypeOK, sending, sems, queues, outside
<1>8. QED
  BY <1>2, <1>3, <1>4, <1>5, <1>6, <1>7, <1>9 DEF Batcher

LEMMA GotType ==
  ASSUME TypeOK, NEW t \in Worker, NEW m \in Messages, Got(t, m)
  PROVE  /\ temp_queue' \in [Instance -> Seq(Messages)]
         /\ worker' \in [Worker -> [at : {"idle", "awake", "take", "process"}, msg : Messages]]
         /\ worker_queue_semaphore' = worker_queue_semaphore
<1>1. /\ temp_queue \in [Instance -> Seq(Messages)]
      /\ worker \in [Worker -> [at : {"idle", "awake", "take", "process"}, msg : Messages]]
  BY DEF TypeOK
<1>2. m.slot[1] \in Instance
  BY DEF Messages, Slot
<1>3. Append(temp_queue[m.slot[1]], m) \in Seq(Messages)
  BY <1>1, <1>2, Appended
<1>4. temp_queue' \in [Instance -> Seq(Messages)]
  BY <1>1, <1>2, <1>3 DEF Got
<1>5. worker' \in [Worker -> [at : {"idle", "awake", "take", "process"}, msg : Messages]]
  BY <1>1, NoMsgType DEF Got
<1>6. QED
  BY <1>4, <1>5 DEF Got

LEMMA AdvanceType ==
  ASSUME TypeOK, NEW i \in Instance, advance_view(i), view[i] < MaxView
  PROVE  /\ view' \in [Instance -> 0 .. MaxView] /\ prior_queue' \in [Worker -> Seq(Messages)]
         /\ prior_cnt' \in [Worker -> Nat] /\ temp_queue' \in [Instance -> Seq(Messages)]
         /\ worker_queue_semaphore' \in [0 .. BatchSem -> Nat]
         /\ new_txn_semaphore' \in Nat /\ proposal_semaphore' \in Nat
<1> DEFINE t == Thread(i)
<1>1. /\ view \in [Instance -> 0 .. MaxView] /\ prior_queue \in [Worker -> Seq(Messages)]
      /\ prior_cnt \in [Worker -> Nat] /\ temp_queue \in [Instance -> Seq(Messages)]
      /\ worker_queue_semaphore \in [0 .. BatchSem -> Nat]
      /\ new_txn_semaphore \in Nat /\ proposal_semaphore \in Nat
  BY DEF TypeOK
<1>2. t \in Worker /\ t \in 0 .. BatchSem
  BY ThreadWorker, SemType
<1>3. /\ prior_queue[t] \o temp_queue[i] \in Seq(Messages) /\ Len(temp_queue[i]) \in Nat
      /\ <<>> \in Seq(Messages)
  BY <1>1, <1>2, Joined
<1>4. view' \in [Instance -> 0 .. MaxView]
  <2>1. view[i] + 1 \in 0 .. MaxView
    BY <1>1, Constants
  <2>2. QED
    BY <1>1, <2>1 DEF advance_view
<1>5. prior_queue' \in [Worker -> Seq(Messages)]
  BY <1>1, <1>2, <1>3 DEF advance_view
<1>6. prior_cnt' \in [Worker -> Nat] /\ worker_queue_semaphore' \in [0 .. BatchSem -> Nat]
  BY <1>1, <1>2, <1>3 DEF advance_view
<1>7. temp_queue' \in [Instance -> Seq(Messages)]
  BY <1>1, <1>3 DEF advance_view
<1>8. new_txn_semaphore' \in Nat /\ proposal_semaphore' \in Nat
  BY <1>1 DEF advance_view
<1>9. QED
  BY <1>4, <1>5, <1>6, <1>7, <1>8

LEMMA HandlerType ==
  ASSUME TypeOK, Inv, NEW t \in Worker, Handler(t)
  PROVE  TypeOK'
<1>0. /\ worker \in [Worker -> [at : {"idle", "awake", "take", "process"}, msg : Messages]]
      /\ worker_queue_semaphore \in [0 .. BatchSem -> Nat]
      /\ prior_queue \in [Worker -> Seq(Messages)] /\ work_queue \in [Worker -> Seq(Messages)]
      /\ prior_cnt \in [Worker -> Nat] /\ txn_ready \in [Slot -> BOOLEAN]
      /\ voters \in [Slot -> SUBSET Node] /\ generic_received \in [Slot -> BOOLEAN]
      /\ new_viewed \in [Slot -> BOOLEAN] /\ view \in [Instance -> 0 .. MaxView]
      /\ temp_queue \in [Instance -> Seq(Messages)]
  BY DEF TypeOK
<1>1. t \in 0 .. BatchSem
  BY SemType
<1>2. CASE worker_wait(t)
  <2>1. worker_queue_semaphore' \in [0 .. BatchSem -> Nat]
    BY <1>0, <1>1, <1>2 DEF worker_wait
  <2>2. worker' \in [Worker -> [at : {"idle", "awake", "take", "process"}, msg : Messages]]
    BY <1>0, <1>2 DEF worker_wait
  <2>3. QED
    BY <1>2, <2>1, <2>2 DEF worker_wait, TypeOK, sending, queues, manager, outside
<1>3. CASE dequeue(t)
  <2>1. /\ prior_queue' \in [Worker -> Seq(Messages)] /\ work_queue' \in [Worker -> Seq(Messages)]
        /\ prior_cnt' \in [Worker -> Nat] /\ temp_queue' \in [Instance -> Seq(Messages)]
        /\ worker' \in [Worker -> [at : {"idle", "awake", "take", "process"}, msg : Messages]]
        /\ worker_queue_semaphore' \in [0 .. BatchSem -> Nat]
    <3>1. CASE PriorVisible(t)
      <4>1. /\ Got(t, Head(prior_queue[t])) /\ UNCHANGED work_queue
            /\ prior_queue' = [prior_queue EXCEPT ![t] = Tail(@)] /\ prior_cnt' = [prior_cnt EXCEPT ![t] = @ - 1]
        BY <1>3, <3>1 DEF dequeue
      <4>2. prior_queue[t] # <<>> /\ prior_cnt[t] > 0 /\ prior_queue[t] \in Seq(Messages)
        BY <1>0, <3>1 DEF PriorVisible
      <4>3. Head(prior_queue[t]) \in Messages /\ Tail(prior_queue[t]) \in Seq(Messages)
        BY <4>2, Taken
      <4>4. /\ temp_queue' \in [Instance -> Seq(Messages)]
            /\ worker' \in [Worker -> [at : {"idle", "awake", "take", "process"}, msg : Messages]]
            /\ worker_queue_semaphore' = worker_queue_semaphore
        BY <4>1, <4>3, GotType
      <4>5. prior_queue' \in [Worker -> Seq(Messages)] /\ prior_cnt' \in [Worker -> Nat]
        BY <1>0, <4>1, <4>2, <4>3
      <4>6. QED
        BY <1>0, <4>1, <4>4, <4>5
    <3>2. CASE ~PriorVisible(t) /\ work_queue[t] # <<>>
      <4>1. /\ Got(t, Head(work_queue[t])) /\ UNCHANGED <<prior_queue, prior_cnt>>
            /\ work_queue' = [work_queue EXCEPT ![t] = Tail(@)]
        BY <1>3, <3>2 DEF dequeue
      <4>2. Head(work_queue[t]) \in Messages /\ Tail(work_queue[t]) \in Seq(Messages)
        BY <1>0, <3>2, Taken
      <4>3. /\ temp_queue' \in [Instance -> Seq(Messages)]
            /\ worker' \in [Worker -> [at : {"idle", "awake", "take", "process"}, msg : Messages]]
            /\ worker_queue_semaphore' = worker_queue_semaphore
        BY <4>1, <4>2, GotType
      <4>4. work_queue' \in [Worker -> Seq(Messages)]
        BY <1>0, <4>1, <4>2
      <4>5. QED
        BY <1>0, <4>1, <4>3, <4>4
    <3>3. CASE ~PriorVisible(t) /\ work_queue[t] = <<>>
      <4>1. /\ UNCHANGED <<prior_queue, prior_cnt, work_queue, temp_queue>> /\ post(t)
            /\ worker' = [worker EXCEPT ![t].at = "idle"]
        BY <1>3, <3>3 DEF dequeue
      <4>2. QED
        BY <1>0, <4>1, PostType
    <3>4. QED
      BY <3>1, <3>2, <3>3
  <2>2. QED
    BY <1>3, <2>1 DEF dequeue, TypeOK, sending, manager, outside
<1>4. CASE worker_take(t)
  <2> DEFINE m == worker[t].msg
  <2>1. m \in Messages /\ m.slot \in Slot /\ Thread(m.slot[1]) \in Worker
    BY <1>0, ThreadWorker DEF Messages, Slot
  <2>2. txn_ready' \in [Slot -> BOOLEAN]
    BY <1>0, <1>4, <2>1 DEF worker_take, unset_ready
  <2>3. worker' \in [Worker -> [at : {"idle", "awake", "take", "process"}, msg : Messages]]
    <3>1. \/ worker' = [worker EXCEPT ![t].at = "process"]
          \/ worker' = [worker EXCEPT ![t] = [at |-> "idle", msg |-> NoMsg]]
      BY <1>4 DEF worker_take
    <3>2. worker \in [Worker -> [at : {"idle", "awake", "take", "process"}, msg : Messages]]
      BY <1>0
    <3>3. CASE worker' = [worker EXCEPT ![t].at = "process"]
      BY <3>2, <3>3
    <3>4. CASE worker' = [worker EXCEPT ![t] = [at |-> "idle", msg |-> NoMsg]]
      BY <3>2, <3>4, NoMsgType
    <3>5. QED
      BY <3>1, <3>3, <3>4
  <2>4. /\ prior_queue' \in [Worker -> Seq(Messages)] /\ work_queue' \in [Worker -> Seq(Messages)]
        /\ prior_cnt' \in [Worker -> Nat] /\ worker_queue_semaphore' \in [0 .. BatchSem -> Nat]
    <3>1. CASE txn_ready[m.slot]
      BY <1>0, <1>4, <3>1 DEF worker_take
    <3>2. CASE ~txn_ready[m.slot]
      <4>1. put_back(m)
        BY <1>4, <3>2 DEF worker_take
      <4>2. prior_cnt' \in [Worker -> Nat]
        BY <1>0, <2>1, <4>1 DEF put_back
      <4>3. QED
        BY <2>1, <4>1, <4>2, PushType, PostType DEF put_back
    <3>3. QED
      BY <3>1, <3>2
  <2>5. QED
    BY <1>4, <2>2, <2>3, <2>4 DEF worker_take, TypeOK, sending, outside
<1>5. CASE process(t)
  <2> DEFINE m == worker[t].msg
             s == worker[t].msg.slot
  <2>1. Holds(t)
    BY <1>5 DEF process, Holds
  <2>2. s \in Slot /\ s[1] \in Instance /\ s[2] < MaxView
    BY <2>1, HeldMessage DEF Inv
  <2>3. /\ view' \in [Instance -> 0 .. MaxView] /\ prior_queue' \in [Worker -> Seq(Messages)]
        /\ prior_cnt' \in [Worker -> Nat] /\ temp_queue' \in [Instance -> Seq(Messages)]
        /\ worker_queue_semaphore' \in [0 .. BatchSem -> Nat]
        /\ new_txn_semaphore' \in Nat /\ proposal_semaphore' \in Nat
    <3>1. CASE UNCHANGED <<view, prior_queue, prior_cnt, temp_queue, sems>>
      BY <3>1 DEF TypeOK, sems
    <3>2. CASE advance_view(s[1]) /\ view[s[1]] = s[2]
      BY <2>2, <3>2, AdvanceType
    <3>3. QED
      BY <1>5, <3>1, <3>2, ProcessStep
  <2>4. generic_received' \in [Slot -> BOOLEAN]
    <3>1. generic_received' = IF IsPrior(m) THEN [generic_received EXCEPT ![s] = TRUE] ELSE generic_received
      BY <1>5, ProcessStep
    <3>2. QED
      BY <1>0, <2>2, <3>1
  <2>5. voters' \in [Slot -> SUBSET Node]
    <3>1. \E S \in SUBSET Node : voters' = [voters EXCEPT ![s] = S]
      BY <1>5, ProcessStep
    <3>2. QED
      BY <1>0, <2>2, <3>1
  <2>6. new_viewed' \in [Slot -> BOOLEAN]
    <3>1. \E b \in BOOLEAN : new_viewed' = [new_viewed EXCEPT ![s] = b]
      BY <1>5, ProcessStep
    <3>2. QED
      BY <1>0, <2>2, <3>1
  <2>7. /\ txn_ready' = [txn_ready EXCEPT ![s] = TRUE]
        /\ worker' = [worker EXCEPT ![t] = [at |-> "idle", msg |-> NoMsg]]
        /\ UNCHANGED <<next_send_view, last_sent_view, incomplete_proposal_cnt, clb_cnt, idx,
                       proposalInstance, expectedInstance, work_queue, proposer, batcher, input,
                       generic_out, arrived>>
    BY <1>5, ProcessStep
  <2>8. txn_ready' \in [Slot -> BOOLEAN]
        /\ worker' \in [Worker -> [at : {"idle", "awake", "take", "process"}, msg : Messages]]
    <3>1. txn_ready' \in [Slot -> BOOLEAN]
      BY <1>0, <2>2, <2>7
    <3>2. [at |-> "idle", msg |-> NoMsg] \in [at : {"idle", "awake", "take", "process"}, msg : Messages]
      BY NoMsgType
    <3>3. QED
      BY <1>0, <2>7, <3>1, <3>2
  <2>9. QED
    BY <2>3, <2>4, <2>5, <2>6, <2>7, <2>8 DEF TypeOK
<1>6. QED
  BY <1>2, <1>3, <1>4, <1>5 DEF Handler

LEMMA NextType ==
  ASSUME TypeOK, Inv, [Next]_vars
  PROVE  TypeOK'
<1>1. CASE UNCHANGED vars
  BY <1>1 DEF vars, TypeOK, sending, sems, queues, manager, outside
<1>2. QED
  BY <1>1, BatchType, ProposerType, BatcherType, HandlerType, ReceiverType DEF Next
-----------------------------------------------------------------------------
(* What the steps of a thread leave alone. *)
LEMMA BatchFrame ==
  ASSUME enqueue_batch
  PROVE  UNCHANGED <<view, next_send_view, last_sent_view, incomplete_proposal_cnt, new_txn_semaphore,
                     proposal_semaphore, prior_queue, prior_cnt, work_queue, temp_queue, txn_ready, voters,
                     generic_received, new_viewed, proposer, batcher, worker, input, generic_out, arrived>>
  BY DEF enqueue_batch, queues, manager, outside

LEMMA ProposerFrame ==
  ASSUME Proposer
  PROVE  UNCHANGED <<view, new_txn_semaphore, prior_queue, prior_cnt, work_queue, temp_queue, voters,
                     generic_received, new_viewed, batcher, worker, input, generic_out, arrived>>
<1> USE DEF sending, sems, queues, manager, outside
<1>1. CASE proposer_wait \/ proposer_wait_view \/ dequeue_proposal
  BY <1>1 DEF proposer_wait, proposer_wait_view, dequeue_proposal
<1>2. CASE proposer_take \/ init_txn_man \/ create_and_send_hotstuff_prepare \/ inc_incomplete_proposal_cnt
  BY <1>2 DEF proposer_take, init_txn_man, create_and_send_hotstuff_prepare, inc_incomplete_proposal_cnt
<1>3. QED
  BY <1>1, <1>2 DEF Proposer

LEMMA BatcherFrame ==
  ASSUME TypeOK, Inv, Batcher
  PROVE  UNCHANGED <<view, next_send_view, last_sent_view, clb_cnt, proposal_semaphore, prior_queue, prior_cnt,
                     work_queue, temp_queue, proposer, worker, input, arrived>>
<1> USE DEF sending, sems, queues, manager, outside
<1>1. CASE batcher_wait \/ batcher_wait_view \/ dequeue_generic \/ dec_incomplete_proposal_cnt
  BY <1>1 DEF batcher_wait, batcher_wait_view, dequeue_generic, dec_incomplete_proposal_cnt
<1>2. CASE batcher_take
  <2>1. txn_ready[batcher.slot]
    BY <1>2, BatcherFinds DEF batcher_take
  <2>2. QED
    BY <1>2, <2>1 DEF batcher_take
<1>3. CASE send_hotstuff_generic \/ process_hotstuff_generic_p
  BY <1>3 DEF send_hotstuff_generic, process_hotstuff_generic_p
<1>4. QED
  BY <1>1, <1>2, <1>3 DEF Batcher

LEMMA HandlerFrame ==
  ASSUME TypeOK, Inv, NEW t \in Worker, Handler(t)
  PROVE  UNCHANGED <<next_send_view, last_sent_view, incomplete_proposal_cnt, clb_cnt, proposer, batcher,
                     input, generic_out, arrived>>
<1>1. CASE worker_wait(t) \/ dequeue(t) \/ worker_take(t)
  BY <1>1 DEF worker_wait, dequeue, worker_take, sending, outside
<1>2. CASE process(t)
  BY <1>2, ProcessStep
<1>3. QED
  BY <1>1, <1>2 DEF Handler

LEMMA ReceiverFrame ==
  ASSUME NEW k \in Input, Receiver(k)
  PROVE  UNCHANGED <<view, next_send_view, last_sent_view, incomplete_proposal_cnt, clb_cnt,
                     new_txn_semaphore, proposal_semaphore, temp_queue, txn_ready, voters, generic_received,
                     new_viewed, proposer, batcher, worker, generic_out>>
  BY DEF Receiver, receive, enqueue_push, enqueue_count, enqueue_post, sending, sems, queues, manager, outside

(* A GENERIC sent stays sent. *)
LEMMA OutGrows ==
  ASSUME TypeOK, Inv, Next
  PROVE  generic_out \subseteq generic_out'
<1>1. CASE Batcher
  <2>1. CASE send_hotstuff_generic
    BY <2>1 DEF send_hotstuff_generic
  <2>2. CASE ~send_hotstuff_generic
    BY <1>1, <2>2 DEF Batcher, batcher_wait, batcher_wait_view, dequeue_generic, dec_incomplete_proposal_cnt,
                      batcher_take, process_hotstuff_generic_p, outside
  <2>3. QED
    BY <2>1, <2>2
<1>2. QED
  BY <1>1, BatchFrame, ProposerFrame, HandlerFrame, ReceiverFrame DEF Next

LEMMA ArrivedNext ==
  ASSUME TypeOK, Inv, Next
  PROVE  ArrivedInv'
<1>1. CASE \E k \in Input : receive(k)
  <2>1. PICK k \in Input : receive(k)
    BY <1>1
  <2>2. PICK m \in Messages : Sendable(m) /\ arrived' = arrived \cup {m}
    BY <2>1 DEF receive
  <2>3. generic_out' = generic_out
    BY <2>1 DEF receive
  <2>4. /\ m.slot[2] < MaxView
        /\ \/ /\ m.rtype = "GENERIC" /\ ~Leads(m.slot)
              /\ m.from = get_view_primary(m.slot[2], m.slot[1])
           \/ m.rtype = "SYNC" /\ (Leads(m.slot) => m.slot \in generic_out)
    BY <2>2 DEF Sendable, Messages
  <2>5. QED
    BY <2>2, <2>3, <2>4 DEF Inv, ArrivedInv
<1>2. CASE ~\E k \in Input : receive(k)
  <2>1. arrived' = arrived
    <3>1. ASSUME NEW k \in Input, Receiver(k) PROVE arrived' = arrived
      BY <1>2, <3>1 DEF Receiver, enqueue_push, enqueue_count, enqueue_post, outside
    <3>2. QED
      BY <3>1, BatchFrame, ProposerFrame, BatcherFrame, HandlerFrame DEF Next
  <2>2. QED
    BY <2>1, OutGrows DEF Inv, ArrivedInv
<1>3. QED
  BY <1>1, <1>2
-----------------------------------------------------------------------------
(* What enqueue, dequeue and advance_view do to the queues. *)
PushesOnto(m, t) ==
  /\ IF IsPrior(m) /\ t = Thread(m.slot[1])
     THEN /\ Range(prior_queue'[t]) = Range(prior_queue[t]) \cup {m}
          /\ Len(prior_queue'[t]) = Len(prior_queue[t]) + 1
          /\ Distinct(prior_queue[t]) /\ m \notin Range(prior_queue[t]) => Distinct(prior_queue'[t])
     ELSE prior_queue'[t] = prior_queue[t]
  /\ IF ~IsPrior(m) /\ t = Thread(m.slot[1])
     THEN /\ Range(work_queue'[t]) = Range(work_queue[t]) \cup {m}
          /\ Len(work_queue'[t]) = Len(work_queue[t]) + 1
     ELSE work_queue'[t] = work_queue[t]

LEMMA PushQueues ==
  ASSUME TypeOK, NEW m \in Messages, push(m), NEW t \in Worker
  PROVE  PushesOnto(m, t)
<1> USE DEF PushesOnto
<1>1. /\ prior_queue \in [Worker -> Seq(Messages)] /\ work_queue \in [Worker -> Seq(Messages)]
      /\ prior_queue[t] \in Seq(Messages) /\ work_queue[t] \in Seq(Messages)
  <2>1. prior_queue \in [Worker -> Seq(Messages)] /\ work_queue \in [Worker -> Seq(Messages)]
    BY DEF TypeOK
  <2>2. QED
    BY <2>1
<1>2. Thread(m.slot[1]) \in Worker
  BY ThreadWorker DEF Messages, Slot
<1>3. CASE IsPrior(m)
  <2>1. work_queue' = work_queue
    BY <1>3 DEF push
  <2>2. prior_queue'[t] = IF t = Thread(m.slot[1]) THEN Append(prior_queue[t], m) ELSE prior_queue[t]
    BY <1>1, <1>2, <1>3 DEF push
  <2>3. QED
    BY <1>1, <1>3, <2>1, <2>2, Appended
<1>4. CASE ~IsPrior(m)
  <2>1. prior_queue' = prior_queue
    BY <1>4 DEF push
  <2>2. work_queue'[t] = IF t = Thread(m.slot[1]) THEN Append(work_queue[t], m) ELSE work_queue[t]
    BY <1>1, <1>2, <1>4 DEF push
  <2>3. QED
    BY <1>1, <1>4, <2>1, <2>2, Appended
<1>5. QED
  BY <1>3, <1>4

(* dequeue takes the head m of one of the two queues, and parks it, drops  *)
(* it or hands it on.                                                      *)
LEMMA DequeueQueues ==
  ASSUME TypeOK, NEW t \in Worker, dequeue(t)
  PROVE  \/ /\ UNCHANGED <<prior_queue, prior_cnt, work_queue, temp_queue>> /\ post(t)
            /\ worker' = [worker EXCEPT ![t].at = "idle"] /\ worker[t].at = "awake"
            /\ ~PriorVisible(t) /\ work_queue[t] = <<>>
         \/ \E m \in Messages :
              /\ Got(t, m)
              /\ \/ /\ prior_queue[t] # <<>> /\ m \in Range(prior_queue[t]) /\ prior_cnt[t] > 0
                    /\ prior_queue' = [prior_queue EXCEPT ![t] = Tail(prior_queue[t])]
                    /\ prior_cnt' = [prior_cnt EXCEPT ![t] = prior_cnt[t] - 1]
                    /\ Range(Tail(prior_queue[t])) \subseteq Range(prior_queue[t])
                    /\ Distinct(prior_queue[t]) => Distinct(Tail(prior_queue[t])) /\ m \notin Range(Tail(prior_queue[t]))
                    /\ Len(Tail(prior_queue[t])) = Len(prior_queue[t]) - 1
                    /\ UNCHANGED work_queue
                 \/ /\ work_queue[t] # <<>> /\ m \in Range(work_queue[t])
                    /\ work_queue' = [work_queue EXCEPT ![t] = Tail(work_queue[t])]
                    /\ Range(Tail(work_queue[t])) \subseteq Range(work_queue[t])
                    /\ Len(Tail(work_queue[t])) = Len(work_queue[t]) - 1
                    /\ UNCHANGED <<prior_queue, prior_cnt>>
<1>1. prior_queue[t] \in Seq(Messages) /\ work_queue[t] \in Seq(Messages)
  <2>1. prior_queue \in [Worker -> Seq(Messages)] /\ work_queue \in [Worker -> Seq(Messages)]
    BY DEF TypeOK
  <2>2. QED
    BY <2>1
<1>2. CASE PriorVisible(t)
  <2>1. prior_queue[t] # <<>> /\ prior_cnt[t] > 0
    BY <1>2 DEF PriorVisible
  <2>2. /\ Head(prior_queue[t]) \in Messages /\ Head(prior_queue[t]) \in Range(prior_queue[t])
        /\ Range(Tail(prior_queue[t])) \subseteq Range(prior_queue[t])
        /\ Distinct(prior_queue[t]) => Distinct(Tail(prior_queue[t])) /\ Head(prior_queue[t]) \notin Range(Tail(prior_queue[t]))
        /\ Len(Tail(prior_queue[t])) = Len(prior_queue[t]) - 1
    BY <1>1, <2>1, Taken
  <2>3. /\ Got(t, Head(prior_queue[t]))
        /\ prior_queue' = [prior_queue EXCEPT ![t] = Tail(prior_queue[t])]
        /\ prior_cnt' = [prior_cnt EXCEPT ![t] = prior_cnt[t] - 1]
        /\ UNCHANGED work_queue
    BY <1>2 DEF dequeue
  <2>4. QED
    BY <2>1, <2>2, <2>3
<1>3. CASE ~PriorVisible(t) /\ work_queue[t] # <<>>
  <2>1. /\ Head(work_queue[t]) \in Messages /\ Head(work_queue[t]) \in Range(work_queue[t])
        /\ Range(Tail(work_queue[t])) \subseteq Range(work_queue[t])
        /\ Len(Tail(work_queue[t])) = Len(work_queue[t]) - 1
    BY <1>1, <1>3, Taken
  <2>2. /\ Got(t, Head(work_queue[t])) /\ UNCHANGED <<prior_queue, prior_cnt>>
        /\ work_queue' = [work_queue EXCEPT ![t] = Tail(work_queue[t])]
    BY <1>3 DEF dequeue
  <2>3. QED
    BY <1>3, <2>1, <2>2
<1>4. CASE ~PriorVisible(t) /\ work_queue[t] = <<>>
  BY <1>4 DEF dequeue
<1>5. QED
  BY <1>2, <1>3, <1>4

Unparks(i, t) ==
  IF t = Thread(i)
  THEN /\ Range(prior_queue'[t]) = Range(prior_queue[t]) \cup Range(temp_queue[i])
       /\ Len(prior_queue'[t]) = Len(prior_queue[t]) + Len(temp_queue[i])
       /\ Distinct(prior_queue[t]) /\ Distinct(temp_queue[i])
          /\ Range(prior_queue[t]) \cap Range(temp_queue[i]) = {} => Distinct(prior_queue'[t])
  ELSE prior_queue'[t] = prior_queue[t]
Leaves(i, j) ==
  /\ IF j = i THEN Range(temp_queue'[j]) = {} /\ Distinct(temp_queue'[j])
              ELSE temp_queue'[j] = temp_queue[j]
  /\ view'[j] = IF j = i THEN view[j] + 1 ELSE view[j]

LEMMA AdvanceQueues ==
  ASSUME TypeOK, NEW i \in Instance, advance_view(i)
  PROVE  /\ \A t \in Worker : Unparks(i, t)
         /\ \A j \in Instance : Leaves(i, j)
<1>1. /\ prior_queue \in [Worker -> Seq(Messages)] /\ temp_queue \in [Instance -> Seq(Messages)]
      /\ view \in [Instance -> 0 .. MaxView]
  BY DEF TypeOK
<1>2. ASSUME NEW t \in Worker PROVE Unparks(i, t)
  <2>1. prior_queue'[t] = IF t = Thread(i) THEN prior_queue[t] \o temp_queue[i] ELSE prior_queue[t]
    BY <1>1, ThreadWorker DEF advance_view
  <2>2. prior_queue[t] \in Seq(Messages) /\ temp_queue[i] \in Seq(Messages)
    BY <1>1
  <2>3. QED
    BY <2>1, <2>2, Joined DEF Unparks
<1>3. ASSUME NEW j \in Instance PROVE Leaves(i, j)
  <2>1. temp_queue'[j] = IF j = i THEN <<>> ELSE temp_queue[j]
    BY <1>1 DEF advance_view
  <2>2. view'[j] = IF j = i THEN view[j] + 1 ELSE view[j]
    BY <1>1 DEF advance_view
  <2>3. QED
    BY <2>1, <2>2, EmptyQueue DEF Leaves
<1>4. QED
  BY <1>2, <1>3

GotWorker(t, m, u) ==
  worker'[u] = IF u # t THEN worker[u]
               ELSE IF check_view(m) \/ exception_msg_handling(m)
                    THEN [at |-> "idle", msg |-> NoMsg] ELSE [at |-> "take", msg |-> m]
Parks(m, j) ==
  IF check_view(m) /\ j = m.slot[1]
  THEN /\ Range(temp_queue'[j]) = Range(temp_queue[j]) \cup {m}
       /\ Distinct(temp_queue[j]) /\ m \notin Range(temp_queue[j]) => Distinct(temp_queue'[j])
  ELSE temp_queue'[j] = temp_queue[j]

LEMMA GotQueues ==
  ASSUME TypeOK, NEW t \in Worker, NEW m \in Messages, Got(t, m)
  PROVE  /\ \A u \in Worker : GotWorker(t, m, u)
         /\ \A j \in Instance : Parks(m, j)
<1> USE DEF GotWorker, Parks
<1>1. /\ temp_queue \in [Instance -> Seq(Messages)]
      /\ worker \in [Worker -> [at : {"idle", "awake", "take", "process"}, msg : Messages]]
  BY DEF TypeOK
<1>2. m.slot[1] \in Instance
  BY DEF Messages, Slot
<1>3. ASSUME NEW u \in Worker PROVE GotWorker(t, m, u)
  BY <1>1 DEF Got
<1>4. ASSUME NEW j \in Instance PROVE Parks(m, j)
  <2>1. temp_queue'[j] = IF check_view(m) /\ j = m.slot[1] THEN Append(temp_queue[j], m) ELSE temp_queue[j]
    BY <1>1, <1>2 DEF Got
  <2>2. QED
    BY <1>1, <2>1, Appended
<1>5. QED
  BY <1>3, <1>4

(* What an input or instance thread does with its own state. *)
LEMMA WorkerMoves ==
  ASSUME TypeOK, NEW t \in Worker, NEW l, worker' = [worker EXCEPT ![t].at = l]
  PROVE  /\ worker'[t].at = l /\ worker'[t].msg = worker[t].msg
         /\ \A u \in Worker : u # t => worker'[u] = worker[u]
<1>1. worker \in [Worker -> [at : {"idle", "awake", "take", "process"}, msg : Messages]]
  BY DEF TypeOK
<1>2. QED
  BY <1>1

LEMMA WorkerEnds ==
  ASSUME TypeOK, NEW t \in Worker, worker' = [worker EXCEPT ![t] = [at |-> "idle", msg |-> NoMsg]]
  PROVE  /\ worker'[t].at = "idle" /\ worker'[t].msg = NoMsg
         /\ \A u \in Worker : u # t => worker'[u] = worker[u]
<1>1. worker \in [Worker -> [at : {"idle", "awake", "take", "process"}, msg : Messages]]
  BY DEF TypeOK
<1>2. QED
  BY <1>1

LEMMA InputMoves ==
  ASSUME TypeOK, NEW k \in Input, NEW l, input' = [input EXCEPT ![k].at = l]
  PROVE  /\ input'[k].at = l /\ input'[k].msg = input[k].msg
         /\ \A j \in Input : j # k => input'[j] = input[j]
<1>1. input \in [Input -> [at : {"idle", "push", "count", "post"}, msg : Messages]]
  BY DEF TypeOK
<1>2. QED
  BY <1>1

(* The parts of RouteInv. *)
InputRoute(k) == /\ input[k].at # "idle" => input[k].msg \in arrived
                 /\ input[k].at = "count" => IsPrior(input[k].msg)
PriorRoute(t) == \A m \in Range(prior_queue[t]) : m \in arrived /\ IsPrior(m) /\ Thread(m.slot[1]) = t
WorkRoute(t)  == \A m \in Range(work_queue[t]) : m \in arrived /\ ~IsPrior(m) /\ Thread(m.slot[1]) = t
TempRoute(i)  == \A m \in Range(temp_queue[i]) : m \in arrived /\ IsPrior(m) /\ m.slot[1] = i
HeldRoute(t)  == Holds(t) => worker[t].msg \in arrived /\ Thread(worker[t].msg.slot[1]) = t

LEMMA RouteParts ==
  RouteInv <=> /\ \A k \in Input : InputRoute(k)
               /\ \A t \in Worker : PriorRoute(t) /\ WorkRoute(t) /\ HeldRoute(t)
               /\ \A i \in Instance : TempRoute(i)
  BY DEF RouteInv, InputRoute, PriorRoute, WorkRoute, TempRoute, HeldRoute

LEMMA RouteReceiver ==
  ASSUME TypeOK, Inv, NEW k \in Input, Receiver(k)
  PROVE  RouteInv'
<1>0. /\ input \in [Input -> [at : {"idle", "push", "count", "post"}, msg : Messages]]
      /\ input[k].msg \in Messages /\ temp_queue' = temp_queue /\ worker' = worker
  <2>1. input \in [Input -> [at : {"idle", "push", "count", "post"}, msg : Messages]]
    BY DEF TypeOK
  <2>2. QED
    BY <2>1, ReceiverFrame
<1>1. /\ \A j \in Input : InputRoute(j)
      /\ \A t \in Worker : PriorRoute(t) /\ WorkRoute(t) /\ HeldRoute(t)
      /\ \A i \in Instance : TempRoute(i)
  BY RouteParts DEF Inv
<1>2. arrived \subseteq arrived'
  BY DEF Receiver, receive, enqueue_push, enqueue_count, enqueue_post, outside
<1>3. \A i \in Instance : TempRoute(i)'
  BY <1>0, <1>1, <1>2 DEF TempRoute
<1>4. \A t \in Worker : HeldRoute(t)'
  BY <1>0, <1>1, <1>2 DEF HeldRoute, Holds
<1>5. \A j \in Input : InputRoute(j)'
  <2>1. CASE receive(k)
    <3>1. PICK m \in Messages : arrived' = arrived \cup {m} /\ input' = [input EXCEPT ![k] = [at |-> "push", msg |-> m]]
      BY <2>1 DEF receive
    <3>2. QED
      BY <1>0, <1>1, <3>1 DEF InputRoute
  <2>2. CASE enqueue_push(k)
    BY <1>0, <1>1, <1>2, <2>2 DEF enqueue_push, AfterPush, InputRoute
  <2>3. CASE enqueue_count(k)
    BY <1>0, <1>1, <1>2, <2>3 DEF enqueue_count, InputRoute
  <2>4. CASE enqueue_post(k)
    BY <1>0, <1>1, <1>2, <2>4 DEF enqueue_post, InputRoute
  <2>5. QED
    BY <2>1, <2>2, <2>3, <2>4 DEF Receiver
<1>6. \A t \in Worker : PriorRoute(t)' /\ WorkRoute(t)'
  <2>1. CASE enqueue_push(k)
    <3>1. push(input[k].msg) /\ input[k].msg \in arrived
      BY <1>1, <2>1 DEF enqueue_push, InputRoute
    <3> DEFINE m == input[k].msg
    <3>2. SUFFICES ASSUME NEW t \in Worker PROVE PriorRoute(t)' /\ WorkRoute(t)'
      OBVIOUS
    <3>3. PushesOnto(m, t)
      BY <1>0, <3>1, PushQueues
    <3> HIDE DEF m
    <3>4. QED
      BY <1>1, <1>2, <3>1, <3>3 DEF PriorRoute, WorkRoute, PushesOnto, m
  <2>2. CASE receive(k) \/ enqueue_count(k) \/ enqueue_post(k)
    <3>1. prior_queue' = prior_queue /\ work_queue' = work_queue
      BY <2>2 DEF receive, enqueue_count, enqueue_post, queues
    <3>2. QED
      BY <1>1, <1>2, <3>1 DEF PriorRoute, WorkRoute
  <2>3. QED
    BY <2>1, <2>2 DEF Receiver
<1>7. QED
  BY <1>3, <1>4, <1>5, <1>6 DEF RouteInv, InputRoute, PriorRoute, WorkRoute, TempRoute, HeldRoute

LEMMA RouteHandler ==
  ASSUME TypeOK, Inv, NEW t \in Worker, Handler(t)
  PROVE  RouteInv'
<1>0. /\ worker \in [Worker -> [at : {"idle", "awake", "take", "process"}, msg : Messages]]
      /\ prior_queue \in [Worker -> Seq(Messages)] /\ work_queue \in [Worker -> Seq(Messages)]
  BY DEF TypeOK
<1>1. /\ \A j \in Input : InputRoute(j)
      /\ \A u \in Worker : PriorRoute(u) /\ WorkRoute(u) /\ HeldRoute(u)
      /\ \A i \in Instance : TempRoute(i)
  BY RouteParts DEF Inv
<1>2. arrived' = arrived /\ input' = input
  BY HandlerFrame
<1>3. \A j \in Input : InputRoute(j)'
  BY <1>1, <1>2 DEF InputRoute
<1>4. CASE worker_wait(t)
  <2>1. /\ worker' = [worker EXCEPT ![t].at = "awake"]
        /\ UNCHANGED <<prior_queue, work_queue, temp_queue>>
    BY <1>4 DEF worker_wait, queues
  <2>2. \A u \in Worker : HeldRoute(u)'
    BY <1>0, <1>1, <1>2, <2>1 DEF HeldRoute, Holds
  <2>3. QED
    BY <1>1, <1>2, <1>3, <2>1, <2>2 DEF RouteInv, InputRoute, PriorRoute, WorkRoute, TempRoute, HeldRoute
<1>5. CASE dequeue(t)
  <2>1. CASE UNCHANGED <<prior_queue, work_queue, temp_queue>> /\ worker' = [worker EXCEPT ![t].at = "idle"]
    <3>1. \A u \in Worker : HeldRoute(u)'
      BY <1>0, <1>1, <1>2, <2>1 DEF HeldRoute, Holds
    <3>2. QED
      BY <1>1, <1>2, <1>3, <2>1, <3>1 DEF RouteInv, InputRoute, PriorRoute, WorkRoute, TempRoute, HeldRoute
  <2>2. ASSUME NEW m \in Messages, Got(t, m),
               m \in Range(prior_queue[t]) \/ m \in Range(work_queue[t]),
               \A u \in Worker : /\ Range(prior_queue'[u]) \subseteq Range(prior_queue[u])
                                 /\ Range(work_queue'[u]) \subseteq Range(work_queue[u])
        PROVE  RouteInv'
    <3>1. m \in arrived /\ Thread(m.slot[1]) = t /\ (check_view(m) => IsPrior(m))
      BY <1>1, <2>2 DEF PriorRoute, WorkRoute, check_view, IsPrior
    <3>2. \A u \in Worker : HeldRoute(u)'
      <4>1. \A u \in Worker : GotWorker(t, m, u)
        BY <2>2, GotQueues
      <4>2. QED
        BY <1>1, <1>2, <3>1, <4>1 DEF HeldRoute, Holds, GotWorker
    <3>3. \A i \in Instance : TempRoute(i)'
      <4>1. \A i \in Instance : Parks(m, i)
        BY <2>2, GotQueues
      <4>2. QED
        BY <1>1, <1>2, <3>1, <4>1 DEF TempRoute, Parks
    <3>4. \A u \in Worker : PriorRoute(u)' /\ WorkRoute(u)'
      BY <1>1, <1>2, <2>2 DEF PriorRoute, WorkRoute
    <3>5. QED
      BY <1>3, <3>2, <3>3, <3>4 DEF RouteInv, InputRoute, PriorRoute, WorkRoute, TempRoute, HeldRoute
  <2>3. QED
    <3>1. CASE \E m \in Messages :
                 /\ Got(t, m) /\ m \in Range(prior_queue[t])
                 /\ prior_queue' = [prior_queue EXCEPT ![t] = Tail(prior_queue[t])]
                 /\ Range(Tail(prior_queue[t])) \subseteq Range(prior_queue[t])
                 /\ UNCHANGED work_queue
      BY <1>0, <2>2, <3>1
    <3>2. CASE \E m \in Messages :
                 /\ Got(t, m) /\ m \in Range(work_queue[t])
                 /\ work_queue' = [work_queue EXCEPT ![t] = Tail(work_queue[t])]
                 /\ Range(Tail(work_queue[t])) \subseteq Range(work_queue[t])
                 /\ UNCHANGED prior_queue
      BY <1>0, <2>2, <3>2
    <3>3. QED
      BY <1>5, <2>1, <3>1, <3>2, DequeueQueues
<1>6. CASE worker_take(t)
  <2> DEFINE m == worker[t].msg
  <2>1. Holds(t) /\ m \in Messages /\ m \in arrived /\ Thread(m.slot[1]) = t
    BY <1>0, <1>1, <1>6 DEF worker_take, Holds, HeldRoute
  <2>2. temp_queue' = temp_queue
    BY <1>6 DEF worker_take
  <2>3. \A u \in Worker : HeldRoute(u)'
    <3>1. \/ worker' = [worker EXCEPT ![t].at = "process"]
          \/ worker' = [worker EXCEPT ![t] = [at |-> "idle", msg |-> NoMsg]]
      BY <1>6 DEF worker_take
    <3>2. \A u \in Worker : Holds(u)' => Holds(u) /\ worker'[u].msg = worker[u].msg
      <4>1. CASE worker' = [worker EXCEPT ![t].at = "process"]
        BY <2>1, <4>1, WorkerMoves DEF Holds
      <4>2. CASE worker' = [worker EXCEPT ![t] = [at |-> "idle", msg |-> NoMsg]]
        BY <4>2, WorkerEnds DEF Holds
      <4>3. QED
        BY <3>1, <4>1, <4>2
    <3>3. QED
      BY <1>1, <1>2, <3>2 DEF HeldRoute
  <2>4. \A u \in Worker : PriorRoute(u)' /\ WorkRoute(u)'
    <3>1. CASE UNCHANGED <<prior_queue, work_queue>>
      BY <1>1, <1>2, <3>1 DEF PriorRoute, WorkRoute
    <3>2. CASE push(m)
      <4>1. \A u \in Worker : PushesOnto(m, u)
        BY <2>1, <3>2, PushQueues
      <4> HIDE DEF m
      <4>2. QED
        BY <1>1, <1>2, <2>1, <4>1 DEF PriorRoute, WorkRoute, PushesOnto
    <3>3. QED
      BY <1>6, <3>1, <3>2 DEF worker_take, put_back
  <2>5. QED
    BY <1>1, <1>2, <1>3, <2>2, <2>3, <2>4 DEF RouteInv, InputRoute, PriorRoute, WorkRoute, TempRoute, HeldRoute
<1>7. CASE process(t)
  <2> DEFINE s == worker[t].msg.slot
  <2>1. Holds(t) /\ s[1] \in Instance /\ Thread(s[1]) = t
    <3>1. Holds(t)
      BY <1>7 DEF process, Holds
    <3>2. QED
      BY <3>1, HeldMessage DEF Inv
  <2>2. /\ worker' = [worker EXCEPT ![t] = [at |-> "idle", msg |-> NoMsg]] /\ work_queue' = work_queue
        /\ \/ UNCHANGED <<prior_queue, temp_queue>>
           \/ advance_view(s[1])
    BY <1>7, ProcessStep
  <2>3. \A u \in Worker : HeldRoute(u)' /\ WorkRoute(u)'
    BY <1>0, <1>1, <1>2, <2>2 DEF HeldRoute, Holds, WorkRoute
  <2>4. (\A u \in Worker : PriorRoute(u)') /\ (\A i \in Instance : TempRoute(i)')
    <3>1. CASE UNCHANGED <<prior_queue, temp_queue>>
      BY <1>1, <1>2, <3>1 DEF PriorRoute, TempRoute
    <3>2. CASE advance_view(s[1])
      <4>1. (\A u \in Worker : Unparks(s[1], u)) /\ (\A i \in Instance : Leaves(s[1], i))
        BY <2>1, <3>2, AdvanceQueues
      <4> HIDE DEF s
      <4>2. \A u \in Worker : PriorRoute(u)'
        BY <1>1, <1>2, <2>1, <4>1 DEF PriorRoute, TempRoute, Unparks
      <4>3. \A i \in Instance : TempRoute(i)'
        BY <1>1, <1>2, <2>1, <4>1 DEF TempRoute, Leaves
      <4>4. QED
        BY <4>2, <4>3
    <3>3. QED
      BY <2>2, <3>1, <3>2
  <2>5. QED
    BY <1>3, <2>3, <2>4 DEF RouteInv, InputRoute, PriorRoute, WorkRoute, TempRoute, HeldRoute
<1>8. QED
  BY <1>4, <1>5, <1>6, <1>7 DEF Handler

LEMMA RouteNext ==
  ASSUME TypeOK, Inv, Next
  PROVE  RouteInv'
<1>1. CASE enqueue_batch \/ Proposer \/ Batcher
  <2>1. UNCHANGED <<prior_queue, work_queue, temp_queue, worker, input, arrived>>
    BY <1>1, BatchFrame, ProposerFrame, BatcherFrame
  <2>2. QED
    BY <2>1 DEF Inv, RouteInv, Holds
<1>2. QED
  BY <1>1, RouteHandler, RouteReceiver DEF Next
-----------------------------------------------------------------------------
(* A GENERIC in any place has arrived, and is the only one of its slot.    *)
LEMMA Placed ==
  ASSUME TypeOK, Inv, NEW m \in Messages
  PROVE  /\ \A k \in Input : InInput(k, m) => m \in arrived /\ IsPrior(m)
         /\ \A t \in Worker : InPrior(t, m) => m \in arrived /\ IsPrior(m) /\ Thread(m.slot[1]) = t
         /\ \A i \in Instance : InTemp(i, m) => m \in arrived /\ IsPrior(m) /\ m.slot[1] = i
         /\ \A t \in Worker : InHand(t, m) => m \in arrived /\ IsPrior(m) /\ Thread(m.slot[1]) = t
<1>1. \A k \in Input : InInput(k, m) => m \in arrived /\ IsPrior(m)
  BY DEF Inv, RouteInv, InInput, Pushing
<1>2. \A t \in Worker : InPrior(t, m) => m \in arrived /\ IsPrior(m) /\ Thread(m.slot[1]) = t
  BY DEF Inv, RouteInv, InPrior
<1>3. \A i \in Instance : InTemp(i, m) => m \in arrived /\ IsPrior(m) /\ m.slot[1] = i
  BY DEF Inv, RouteInv, InTemp
<1>4. \A t \in Worker : InHand(t, m) => m \in arrived /\ IsPrior(m) /\ Thread(m.slot[1]) = t
  BY DEF Inv, RouteInv, InHand, Reading
<1>5. QED
  BY <1>1, <1>2, <1>3, <1>4

LEMMA OnePerSlot ==
  ASSUME ArrivedInv, arrived \subseteq Messages, NEW m \in arrived, NEW x \in arrived,
         IsPrior(m), IsPrior(x), m.slot = x.slot
  PROVE  m = x
<1>1. m.rtype = x.rtype /\ m.from = x.from
  BY DEF ArrivedInv, IsPrior
<1>2. QED
  BY <1>1 DEF Messages

(* An input thread moves a GENERIC into the prior queue of its thread.     *)
LEMMA OnceReceiver ==
  ASSUME TypeOK, Inv, NEW k \in Input, Receiver(k)
  PROVE  OnceInv'
<1>0. /\ input \in [Input -> [at : {"idle", "push", "count", "post"}, msg : Messages]]
      /\ arrived \subseteq Messages
  BY DEF TypeOK
<1>1. temp_queue' = temp_queue /\ worker' = worker /\ generic_received' = generic_received
  BY ReceiverFrame
<1>2. /\ \A t \in Worker : Distinct(prior_queue[t])
      /\ \A i \in Instance : Distinct(temp_queue[i])
      /\ \A m \in Messages : Once(m)
  BY DEF Inv, OnceInv
<1>3. \A x \in Messages : /\ \A i \in Instance : InTemp(i, x)' <=> InTemp(i, x)
                          /\ \A t \in Worker : InHand(t, x)' <=> InHand(t, x)
  BY <1>1 DEF InTemp, InHand, Reading, Holds
<1>4. CASE receive(k)
  <2>1. PICK m \in Messages : m \notin arrived /\ Sendable(m)
                              /\ input' = [input EXCEPT ![k] = [at |-> "push", msg |-> m]]
    BY <1>4 DEF receive
  <2>2. input[k].at = "idle" /\ prior_queue' = prior_queue
    BY <1>4 DEF receive, queues
  <2>3. \A x \in Messages, j \in Input : InInput(j, x)' <=> IF j = k THEN x = m /\ IsPrior(m) ELSE InInput(j, x)
    BY <1>0, <2>1 DEF InInput, Pushing
  <2>4. \A j \in Input, x \in Messages : InInput(j, x) => j # k
    BY <2>2 DEF InInput, Pushing
  <2>5. \A x \in Messages, t \in Worker : InPrior(t, x)' <=> InPrior(t, x)
    BY <2>2 DEF InPrior
  <2>6. ASSUME IsPrior(m) PROVE ~generic_received[m.slot]
    <3>1. m.slot \in Slot /\ ~Leads(m.slot) /\ m.from = get_view_primary(m.slot[2], m.slot[1])
      BY <2>1, <2>6 DEF Messages, Sendable, IsPrior
    <3>2. SUFFICES ASSUME generic_received[m.slot] PROVE FALSE
      OBVIOUS
    <3>3. PICK x \in arrived : IsPrior(x) /\ x.slot = m.slot
      BY <3>1, <3>2 DEF Inv, ViewInv
    <3>4. x.from = m.from /\ x.rtype = m.rtype /\ x \in Messages
      BY <1>0, <2>6, <3>1, <3>3 DEF Inv, ArrivedInv, IsPrior
    <3>5. x = m
      BY <3>3, <3>4 DEF Messages
    <3>6. QED
      BY <2>1, <3>5
  <2>7. /\ \A j \in Input : ~InInput(j, m)
        /\ \A t \in Worker : ~InPrior(t, m) /\ ~InHand(t, m)
        /\ \A i \in Instance : ~InTemp(i, m)
    BY <2>1, Placed
  <2>8. \A x \in Messages : Once(x)'
    BY <1>1, <1>2, <1>3, <2>3, <2>5, <2>6, <2>7 DEF Once
  <2>9. QED
    BY <1>1, <1>2, <2>2, <2>8 DEF OnceInv
<1>5. CASE enqueue_push(k)
  <2> DEFINE m == input[k].msg
  <2>1. m \in Messages /\ push(m) /\ input[k].at = "push" /\ input' = [input EXCEPT ![k].at = AfterPush(m)]
    BY <1>0, <1>5 DEF enqueue_push
  <2>2. Thread(m.slot[1]) \in Worker
    BY <2>1, ThreadWorker DEF Messages, Slot
  <2>3. AfterPush(m) \in {"count", "post"}
    BY DEF AfterPush
  <2>4. \A x \in Messages, j \in Input : InInput(j, x)' <=> j # k /\ InInput(j, x)
    BY <1>0, <2>1, <2>3, InputMoves DEF InInput, Pushing
  <2>5. IsPrior(m) <=> InInput(k, m)
    BY <2>1 DEF InInput, Pushing
  <2>6. \A t \in Worker : PushesOnto(m, t)
    BY <2>1, PushQueues
  <2>7. \A x \in Messages, t \in Worker :
          InPrior(t, x)' <=> InPrior(t, x) \/ (x = m /\ IsPrior(m) /\ t = Thread(m.slot[1]))
    BY <2>6 DEF InPrior, PushesOnto
  <2> HIDE DEF m
  <2>8. \A x \in Messages : Once(x)'
    BY <1>1, <1>2, <1>3, <2>1, <2>4, <2>5, <2>7 DEF Once
  <2>9. \A t \in Worker : Distinct(prior_queue'[t])
    <3>1. IsPrior(m) => \A t \in Worker : m \notin Range(prior_queue[t])
      BY <1>2, <2>1, <2>5 DEF Once, InPrior
    <3>2. QED
      BY <1>2, <2>6, <3>1 DEF PushesOnto
  <2>10. QED
    BY <1>1, <1>2, <2>8, <2>9 DEF OnceInv
<1>6. CASE enqueue_count(k) \/ enqueue_post(k)
  <2>1. prior_queue' = prior_queue
    BY <1>6 DEF enqueue_count, enqueue_post, queues
  <2>2. \A x \in Messages, j \in Input : InInput(j, x)' <=> InInput(j, x)
    BY <1>0, <1>6 DEF enqueue_count, enqueue_post, InInput, Pushing
  <2>3. \A x \in Messages, t \in Worker : InPrior(t, x)' <=> InPrior(t, x)
    BY <2>1 DEF InPrior
  <2>4. \A x \in Messages : Once(x)'
    BY <1>1, <1>2, <1>3, <2>2, <2>3 DEF Once
  <2>5. QED
    BY <1>1, <1>2, <2>1, <2>4 DEF OnceInv
<1>7. QED
  BY <1>4, <1>5, <1>6 DEF Receiver

(* An instance thread takes it out of there, parks it, or handles it.      *)
LEMMA OnceHandler ==
  ASSUME TypeOK, Inv, NEW t \in Worker, Handler(t)
  PROVE  OnceInv'
<1>0. /\ worker \in [Worker -> [at : {"idle", "awake", "take", "process"}, msg : Messages]]
      /\ arrived \subseteq Messages /\ generic_received \in [Slot -> BOOLEAN]
      /\ prior_queue \in [Worker -> Seq(Messages)]
  BY DEF TypeOK
<1>1. input' = input
  BY HandlerFrame
<1>2. /\ \A u \in Worker : Distinct(prior_queue[u])
      /\ \A i \in Instance : Distinct(temp_queue[i])
      /\ \A m \in Messages : Once(m)
  BY DEF Inv, OnceInv
<1>3. \A x \in Messages, j \in Input : InInput(j, x)' <=> InInput(j, x)
  BY <1>1 DEF InInput, Pushing
<1>4. CASE worker_wait(t)
  <2>1. /\ worker' = [worker EXCEPT ![t].at = "awake"] /\ worker[t].at = "idle"
        /\ UNCHANGED <<prior_queue, temp_queue, generic_received>>
    BY <1>4 DEF worker_wait, queues, manager
  <2>2. \A x \in Messages, u \in Worker : InHand(u, x)' <=> InHand(u, x)
    BY <2>1, WorkerMoves DEF InHand, Reading, Holds
  <2>3. \A x \in Messages : Once(x)'
    BY <1>2, <1>3, <2>1, <2>2 DEF Once, InPrior, InTemp
  <2>4. QED
    BY <1>2, <2>1, <2>3 DEF OnceInv
<1>5. CASE dequeue(t)
  <2>0. generic_received' = generic_received /\ worker[t].at = "awake"
    BY <1>5 DEF dequeue, manager
  <2>1. CASE UNCHANGED <<prior_queue, temp_queue>> /\ worker' = [worker EXCEPT ![t].at = "idle"]
    <3>1. \A x \in Messages, u \in Worker : InHand(u, x)' <=> InHand(u, x)
      BY <2>0, <2>1, WorkerMoves DEF InHand, Reading, Holds
    <3>2. \A x \in Messages : Once(x)'
      BY <1>2, <1>3, <2>0, <2>1, <3>1 DEF Once, InPrior, InTemp
    <3>3. QED
      BY <1>2, <2>1, <3>2 DEF OnceInv
  <2>2. ASSUME NEW m \in Messages, Got(t, m), m \in Range(prior_queue[t]),
               prior_queue' = [prior_queue EXCEPT ![t] = Tail(prior_queue[t])],
               Range(Tail(prior_queue[t])) \subseteq Range(prior_queue[t]),
               Distinct(prior_queue[t]) => Distinct(Tail(prior_queue[t])) /\ m \notin Range(Tail(prior_queue[t]))
        PROVE  OnceInv'
    <3>1. InPrior(t, m) /\ Thread(m.slot[1]) = t /\ IsPrior(m) /\ m.slot[1] \in Instance
      BY <2>2, Placed DEF InPrior, Messages, Slot
    <3>2. prior_queue'[t] = Tail(prior_queue[t]) /\ \A u \in Worker : u # t => prior_queue'[u] = prior_queue[u]
      BY <1>0, <2>2
    <3>3. \A x \in Messages, u \in Worker : InPrior(u, x)' => InPrior(u, x) /\ x # m
      <4>1. \A u \in Worker : u # t => ~InPrior(u, m)
        BY <3>1, Placed
      <4>2. m \notin Range(Tail(prior_queue[t]))
        BY <1>2, <2>2
      <4>3. QED
        BY <2>2, <3>2, <4>1, <4>2 DEF InPrior
    <3>4. (\A u \in Worker : GotWorker(t, m, u)) /\ (\A j \in Instance : Parks(m, j))
      BY <2>2, GotQueues
    <3>5. \A x \in Messages, j \in Instance :
            InTemp(j, x)' <=> InTemp(j, x) \/ (x = m /\ check_view(m) /\ j = m.slot[1])
      BY <3>4 DEF InTemp, Parks
    <3>6. \A x \in Messages, u \in Worker :
            InHand(u, x)' => (u # t /\ InHand(u, x)) \/ (u = t /\ x = m /\ ~check_view(m))
      BY <3>4 DEF InHand, Reading, Holds, GotWorker
    <3>7. \A x \in Messages : Once(x)'
      BY <1>2, <1>3, <2>0, <3>1, <3>3, <3>5, <3>6 DEF Once
    <3>8. \A u \in Worker : Distinct(prior_queue'[u])
      BY <1>2, <2>2, <3>2
    <3>9. \A j \in Instance : Distinct(temp_queue'[j])
      <4>1. \A j \in Instance : m \notin Range(temp_queue[j])
        BY <1>2, <3>1 DEF Once, InTemp
      <4>2. QED
        BY <1>2, <3>4, <4>1 DEF Parks
    <3>10. QED
      BY <3>7, <3>8, <3>9 DEF OnceInv
  <2>3. ASSUME NEW m \in Messages, Got(t, m), m \in Range(work_queue[t]), UNCHANGED prior_queue
        PROVE  OnceInv'
    <3>1. ~IsPrior(m) /\ ~check_view(m)
      BY <2>3 DEF Inv, RouteInv, check_view, IsPrior
    <3>2. (\A u \in Worker : GotWorker(t, m, u)) /\ (\A j \in Instance : Parks(m, j))
      BY <2>3, GotQueues
    <3>3. \A x \in Messages, j \in Instance : InTemp(j, x)' <=> InTemp(j, x)
      BY <3>1, <3>2 DEF InTemp, Parks
    <3>4. \A x \in Messages, u \in Worker : InHand(u, x)' => InHand(u, x)
      BY <3>1, <3>2 DEF InHand, Reading, Holds, GotWorker
    <3>5. \A x \in Messages : Once(x)'
      BY <1>2, <1>3, <2>0, <2>3, <3>3, <3>4 DEF Once, InPrior
    <3>6. QED
      BY <1>2, <2>3, <3>1, <3>2, <3>5 DEF OnceInv, Parks
  <2>4. QED
    BY <1>5, <2>1, <2>2, <2>3, DequeueQueues
<1>6. CASE worker_take(t)
  <2> DEFINE m == worker[t].msg
  <2>1. /\ m \in Messages /\ worker[t].at = "take" /\ temp_queue' = temp_queue /\ generic_received' = generic_received
    BY <1>0, <1>6 DEF worker_take
  <2>2. CASE worker' = [worker EXCEPT ![t].at = "process"] /\ prior_queue' = prior_queue
    <3>1. \A x \in Messages, u \in Worker : InHand(u, x)' <=> InHand(u, x)
      BY <2>1, <2>2, WorkerMoves DEF InHand, Reading, Holds
    <3>2. \A x \in Messages : Once(x)'
      BY <1>2, <1>3, <2>1, <2>2, <3>1 DEF Once, InPrior, InTemp
    <3>3. QED
      BY <1>2, <2>1, <2>2, <3>2 DEF OnceInv
  <2>3. CASE push(m) /\ worker' = [worker EXCEPT ![t] = [at |-> "idle", msg |-> NoMsg]]
    <3>1. \A u \in Worker : PushesOnto(m, u)
      BY <2>1, <2>3, PushQueues
    <3>2. \A x \in Messages, u \in Worker :
            InPrior(u, x)' <=> InPrior(u, x) \/ (x = m /\ IsPrior(m) /\ u = Thread(m.slot[1]))
      BY <3>1 DEF InPrior, PushesOnto
    <3>3. \A x \in Messages, u \in Worker : InHand(u, x)' => InHand(u, x) /\ u # t
      BY <2>3, WorkerEnds DEF InHand, Reading, Holds
    <3>4. IsPrior(m) <=> InHand(t, m)
      BY <2>1 DEF InHand, Reading, Holds
    <3>5. \A u \in Worker : InHand(u, m) /\ IsPrior(m) => u = t
      BY <2>1, <3>4, Placed
    <3>6. \A x \in Messages, j \in Instance : InTemp(j, x)' <=> InTemp(j, x)
      BY <2>1 DEF InTemp
    <3> HIDE DEF m
    <3>7. \A x \in Messages : Once(x)'
      BY <1>2, <1>3, <2>1, <3>2, <3>3, <3>4, <3>5, <3>6 DEF Once
    <3>8. \A u \in Worker : Distinct(prior_queue'[u])
      <4>1. IsPrior(m) => \A u \in Worker : m \notin Range(prior_queue[u])
        BY <1>2, <2>1, <3>4 DEF Once, InPrior
      <4>2. QED
        BY <1>2, <3>1, <4>1 DEF PushesOnto
    <3>9. QED
      BY <1>2, <2>1, <3>7, <3>8 DEF OnceInv
  <2>4. QED
    BY <1>6, <2>2, <2>3 DEF worker_take, put_back
<1>7. CASE process(t)
  <2> DEFINE m == worker[t].msg
             s == worker[t].msg.slot
  <2>1. Holds(t)
    BY <1>7 DEF process, Holds
  <2>2. m \in Messages /\ m \in arrived /\ s \in Slot /\ s[1] \in Instance /\ Thread(s[1]) = t
    BY <2>1, HeldMessage DEF Inv
  <2>3. /\ worker' = [worker EXCEPT ![t] = [at |-> "idle", msg |-> NoMsg]]
        /\ generic_received' = IF IsPrior(m) THEN [generic_received EXCEPT ![s] = TRUE] ELSE generic_received
        /\ UNCHANGED <<prior_queue, temp_queue>> \/ advance_view(s[1])
    BY <1>7, ProcessStep
  <2>4. \A x \in Messages, u \in Worker : InHand(u, x)' => InHand(u, x) /\ u # t
    BY <2>3, WorkerEnds DEF InHand, Reading, Holds
  <2>5. IsPrior(m) => InHand(t, m)
    BY <2>1 DEF InHand, Reading
  <2>6. \A x \in Messages, u \in Worker : InHand(u, x)' => ~(IsPrior(m) /\ x = m)
    BY <2>2, <2>4, Placed
  <2>7. \A x \in Messages : x \in arrived /\ IsPrior(x) /\ ~(IsPrior(m) /\ x = m) =>
          generic_received'[x.slot] = generic_received[x.slot]
    <3> SUFFICES ASSUME NEW x \in Messages, x \in arrived, IsPrior(x), ~(IsPrior(m) /\ x = m)
                 PROVE  generic_received'[x.slot] = generic_received[x.slot]
      OBVIOUS
    <3>1. x.slot \in Slot
      BY DEF Messages
    <3>2. IsPrior(m) => x.slot # s
      BY <1>0, <2>2, OnePerSlot DEF Inv
    <3>3. QED
      BY <1>0, <2>2, <2>3, <3>1, <3>2
  <2>8. /\ \A x \in Messages, u \in Worker : InPrior(u, x)' =>
             InPrior(u, x) \/ (u = t /\ InTemp(s[1], x) /\ \A j \in Instance : ~InTemp(j, x)')
        /\ \A x \in Messages, j \in Instance : InTemp(j, x)' => InTemp(j, x)
        /\ \A u \in Worker : Distinct(prior_queue'[u])
        /\ \A j \in Instance : Distinct(temp_queue'[j])
    <3>1. CASE UNCHANGED <<prior_queue, temp_queue>>
      BY <1>2, <3>1 DEF InPrior, InTemp
    <3>2. CASE advance_view(s[1])
      <4>1. (\A u \in Worker : Unparks(s[1], u)) /\ (\A j \in Instance : Leaves(s[1], j))
        BY <2>2, <3>2, AdvanceQueues
      <4>2. \A x \in Messages, j \in Instance : InTemp(j, x)' <=> InTemp(j, x) /\ j # s[1]
        BY <4>1 DEF Leaves, InTemp
      <4>3. \A x \in Messages, j \in Instance : InTemp(s[1], x) /\ InTemp(j, x) => j = s[1]
        BY <2>2, Placed
      <4>4. \A x \in Messages, u \in Worker : InPrior(u, x)' => InPrior(u, x) \/ (u = t /\ InTemp(s[1], x))
        BY <2>2, <4>1 DEF Unparks, InPrior, InTemp
      <4>5. \A u \in Worker : Distinct(prior_queue'[u])
        <5>1. Range(prior_queue[t]) \cap Range(temp_queue[s[1]]) = {}
          <6>1. Range(prior_queue[t]) \subseteq Messages
            BY <1>0 DEF Range
          <6>2. QED
            BY <1>2, <2>2, <6>1 DEF Once, InPrior, InTemp
        <5>2. QED
          BY <1>2, <2>2, <4>1, <5>1 DEF Unparks
      <4>6. \A j \in Instance : Distinct(temp_queue'[j])
        BY <1>2, <4>1 DEF Leaves
      <4>7. QED
        BY <4>2, <4>3, <4>4, <4>5, <4>6
    <3>3. QED
      BY <2>3, <3>1, <3>2
  <2>9. \A x \in Messages : Once(x)'
    <3> SUFFICES ASSUME NEW x \in Messages PROVE Once(x)'
      OBVIOUS
    <3>1. ASSUME x \in arrived, IsPrior(x), ~(IsPrior(m) /\ x = m) PROVE Once(x)'
      <4>1. generic_received'[x.slot] = generic_received[x.slot] /\ Once(x)
        BY <1>2, <2>7, <3>1
      <4> HIDE DEF m, s
      <4>2. QED
        BY <1>3, <2>2, <2>4, <2>8, <4>1 DEF Once
    <3>2. ASSUME ~(x \in arrived /\ IsPrior(x)) \/ (IsPrior(m) /\ x = m) PROVE Once(x)'
      <4>1. /\ \A j \in Input : ~InInput(j, x)'
            /\ \A u \in Worker : ~InPrior(u, x)' /\ ~InHand(u, x)'
            /\ \A j \in Instance : ~InTemp(j, x)'
        <5>1. CASE ~(x \in arrived /\ IsPrior(x))
          <6>1. /\ \A j \in Input : ~InInput(j, x)
                /\ \A u \in Worker : ~InPrior(u, x) /\ ~InHand(u, x)
                /\ \A j \in Instance : ~InTemp(j, x)
            BY <5>1, Placed
          <6> HIDE DEF m, s
          <6>2. QED
            BY <1>3, <2>2, <2>4, <2>8, <6>1
        <5>2. CASE IsPrior(m) /\ x = m
          <6>1. /\ \A j \in Input : ~InInput(j, x)
                /\ \A u \in Worker : ~InPrior(u, x)
                /\ \A j \in Instance : ~InTemp(j, x)
            BY <1>2, <2>5, <5>2 DEF Once
          <6> HIDE DEF m, s
          <6>2. QED
            BY <1>3, <2>2, <2>6, <2>8, <5>2, <6>1
        <5>3. QED
          BY <3>2, <5>1, <5>2
      <4>2. QED
        BY <4>1 DEF Once
    <3>3. QED
      BY <3>1, <3>2
  <2>10. QED
    BY <2>8, <2>9 DEF OnceInv
<1>8. QED
  BY <1>4, <1>5, <1>6, <1>7 DEF Handler

(* The vote of the batch thread is for a slot the replica leads, which has *)
(* no GENERIC of another replica.                                          *)
LEMMA OnceNext ==
  ASSUME TypeOK, Inv, Next
  PROVE  OnceInv'
<1>1. CASE enqueue_batch \/ Proposer \/ Batcher
  <2>1. UNCHANGED <<prior_queue, temp_queue, worker, input>>
    BY <1>1, BatchFrame, ProposerFrame, BatcherFrame
  <2>2. \A x \in Messages : x \in arrived /\ IsPrior(x) => generic_received'[x.slot] = generic_received[x.slot]
    <3>1. CASE process_hotstuff_generic_p
      <4>1. /\ generic_received' = [generic_received EXCEPT ![batcher.slot] = TRUE]
            /\ batcher.at = "vote"
        BY <3>1 DEF process_hotstuff_generic_p, Vote
      <4>2. Leads(batcher.slot)
        BY <4>1 DEF Inv, SendInv
      <4>3. \A x \in Messages : x \in arrived /\ IsPrior(x) => x.slot # batcher.slot /\ x.slot \in Slot
        BY <4>2 DEF Inv, ArrivedInv, IsPrior, Messages
      <4>4. generic_received \in [Slot -> BOOLEAN]
        BY DEF TypeOK
      <4>5. QED
        BY <4>1, <4>3, <4>4
    <3>2. CASE ~process_hotstuff_generic_p
      <4>1. generic_received' = generic_received
        BY <1>1, <3>2, BatchFrame, ProposerFrame
           DEF Batcher, batcher_wait, batcher_wait_view, dequeue_generic, dec_incomplete_proposal_cnt,
               batcher_take, send_hotstuff_generic, manager
      <4>2. QED
        BY <4>1
    <3>3. QED
      BY <3>1, <3>2
  <2>3. ASSUME NEW x \in Messages PROVE Once(x)'
    <3>1. /\ \A k \in Input : InInput(k, x)' <=> InInput(k, x)
          /\ \A t \in Worker : (InPrior(t, x)' <=> InPrior(t, x)) /\ (InHand(t, x)' <=> InHand(t, x))
          /\ \A i \in Instance : InTemp(i, x)' <=> InTemp(i, x)
      BY <2>1 DEF InInput, InPrior, InTemp, InHand, Pushing, Reading, Holds
    <3>2. Once(x)
      BY DEF Inv, OnceInv
    <3>3. QED
      BY <2>2, <3>1, <3>2, Placed DEF Once
  <2>4. QED
    BY <2>1, <2>3 DEF Inv, OnceInv
<1>2. QED
  BY <1>1, OnceHandler, OnceReceiver DEF Next
-----------------------------------------------------------------------------
(* The parts of ViewInv. *)
SlotView(s) ==
  /\ generic_received[s] => s[2] <= view[s[1]]
  /\ s[2] < view[s[1]] => generic_received[s]
  /\ generic_received[s] /\ ~Leads(s) => \E m \in arrived : IsPrior(m) /\ m.slot = s
HeldView(m) == IF IsPrior(m) THEN m.slot[2] <= view[m.slot[1]] ELSE m.slot[2] >= view[m.slot[1]]

LEMMA ViewParts ==
  ViewInv <=> /\ \A s \in Slot : SlotView(s)
              /\ \A t \in Worker : Holds(t) => HeldView(worker[t].msg)
  BY DEF ViewInv, SlotView, HeldView

LEMMA ViewHandler ==
  ASSUME TypeOK, Inv, NEW t \in Worker, Handler(t)
  PROVE  ViewInv'
<1>0. /\ worker \in [Worker -> [at : {"idle", "awake", "take", "process"}, msg : Messages]]
      /\ generic_received \in [Slot -> BOOLEAN] /\ view \in [Instance -> 0 .. MaxView]
  BY DEF TypeOK
<1>1. arrived' = arrived
  BY HandlerFrame
<1>2. /\ \A s \in Slot : SlotView(s)
      /\ \A u \in Worker : Holds(u) => HeldView(worker[u].msg)
  BY ViewParts DEF Inv
<1>3. CASE worker_wait(t) \/ dequeue(t) \/ worker_take(t)
  <2>1. view' = view /\ generic_received' = generic_received
    BY <1>3 DEF worker_wait, dequeue, worker_take, manager
  <2>2. \A s \in Slot : SlotView(s)'
    BY <1>1, <1>2, <2>1 DEF SlotView
  <2>3. ASSUME NEW u \in Worker, Holds(u)'
        PROVE  HeldView(worker[u].msg)'
    <3>1. CASE worker_wait(t)
      <4>1. Holds(u) /\ worker'[u].msg = worker[u].msg
        BY <2>3, <3>1, WorkerMoves DEF worker_wait, Holds
      <4>2. QED
        BY <1>2, <2>1, <4>1 DEF HeldView
    <3>2. CASE dequeue(t)
      <4>1. CASE worker' = [worker EXCEPT ![t].at = "idle"]
        <5>1. Holds(u) /\ worker'[u].msg = worker[u].msg
          BY <2>3, <4>1, WorkerMoves DEF Holds
        <5>2. QED
          BY <1>2, <2>1, <5>1 DEF HeldView
      <4>2. ASSUME NEW m \in Messages, Got(t, m),
                   m \in Range(prior_queue[t]) \/ m \in Range(work_queue[t])
            PROVE  HeldView(worker[u].msg)'
        <5>1. GotWorker(t, m, u)
          BY <4>2, GotQueues
        <5>2. CASE u # t
          BY <1>2, <2>1, <2>3, <5>1, <5>2 DEF GotWorker, Holds, HeldView
        <5>3. CASE u = t
          <6>1. worker'[u].msg = m /\ ~check_view(m) /\ ~exception_msg_handling(m)
            BY <2>3, <5>1, <5>3 DEF GotWorker, Holds
          <6>2. m \in arrived
            BY <4>2 DEF Inv, RouteInv
          <6>3. m.slot[1] \in Instance /\ m.slot[2] \in Nat /\ view[m.slot[1]] \in Nat
            BY <1>0, Constants DEF Messages, Slot
          <6>4. HeldView(m)
            BY <6>1, <6>2, <6>3 DEF HeldView, check_view, exception_msg_handling, IsPrior, Inv, ArrivedInv
          <6>5. QED
            BY <2>1, <6>1, <6>4 DEF HeldView
        <5>4. QED
          BY <5>2, <5>3
      <4>3. QED
        BY <3>2, <4>1, <4>2, DequeueQueues
    <3>3. CASE worker_take(t)
      <4>1. Holds(u) /\ worker'[u].msg = worker[u].msg
        <5>1. CASE worker' = [worker EXCEPT ![t].at = "process"] /\ worker[t].at = "take"
          BY <2>3, <5>1, WorkerMoves DEF Holds
        <5>2. CASE worker' = [worker EXCEPT ![t] = [at |-> "idle", msg |-> NoMsg]]
          BY <2>3, <5>2, WorkerEnds DEF Holds
        <5>3. QED
          BY <3>3, <5>1, <5>2 DEF worker_take
      <4>2. QED
        BY <1>2, <2>1, <4>1 DEF HeldView
    <3>4. QED
      BY <1>3, <3>1, <3>2, <3>3
  <2>4. QED
    BY <2>2, <2>3 DEF ViewInv, SlotView, HeldView
<1>4. CASE process(t)
  <2> DEFINE m == worker[t].msg
             s == worker[t].msg.slot
  <2>1. Holds(t)
    BY <1>4 DEF process, Holds
  <2>2. /\ m \in arrived /\ s \in Slot /\ s[1] \in Instance /\ s[2] \in Nat /\ s = <<s[1], s[2]>>
        /\ Thread(s[1]) = t
    BY <2>1, HeldMessage DEF Inv
  <2>3. /\ worker' = [worker EXCEPT ![t] = [at |-> "idle", msg |-> NoMsg]]
        /\ generic_received' = IF IsPrior(m) THEN [generic_received EXCEPT ![s] = TRUE] ELSE generic_received
        /\ \/ view' = view
           \/ advance_view(s[1]) /\ view[s[1]] = s[2] /\ generic_received'[s]
    BY <1>4, ProcessStep
  <2>4. IsPrior(m) => s[2] <= view[s[1]]
    BY <1>2, <2>1 DEF HeldView
  <2>5. \A r \in Slot : r # s \/ ~IsPrior(m) => generic_received'[r] = generic_received[r]
    BY <1>0, <2>2, <2>3
  <2>6. IsPrior(m) => generic_received'[s]
    BY <1>0, <2>2, <2>3
  <2>7. \A i \in Instance : /\ view[i] \in Nat /\ view'[i] \in Nat /\ view'[i] >= view[i]
                            /\ i # s[1] => view'[i] = view[i]
                            /\ view'[i] = view[i] \/ (i = s[1] /\ view'[i] = s[2] + 1 /\ view[i] = s[2] /\ generic_received'[s])
    <3>1. CASE view' = view
      BY <1>0, <3>1, Constants
    <3>2. CASE advance_view(s[1]) /\ view[s[1]] = s[2] /\ generic_received'[s]
      <4>1. \A j \in Instance : Leaves(s[1], j)
        BY <2>2, <3>2, AdvanceQueues
      <4>2. \A i \in Instance : view[i] \in Nat
        BY <1>0, Constants
      <4> HIDE DEF s
      <4>3. QED
        BY <2>2, <3>2, <4>1, <4>2 DEF Leaves
    <3>3. QED
      BY <2>3, <3>1, <3>2
  <2> HIDE DEF m, s
  <2>8. ASSUME NEW r \in Slot PROVE SlotView(r)'
    <3>1. r[1] \in Instance /\ r[2] \in Nat /\ r = <<r[1], r[2]>> /\ SlotView(r)
      BY <1>2, SlotPair
    <3>2. generic_received'[r] => r[2] <= view'[r[1]]
      BY <2>2, <2>4, <2>5, <2>7, <3>1 DEF SlotView
    <3>3. r[2] < view'[r[1]] => generic_received'[r]
      BY <2>2, <2>5, <2>6, <2>7, <3>1 DEF SlotView
    <3>4. generic_received'[r] /\ ~Leads(r) => \E x \in arrived : IsPrior(x) /\ x.slot = r
      BY <2>2, <2>5, <3>1 DEF SlotView, m, s
    <3>5. QED
      BY <1>1, <3>2, <3>3, <3>4 DEF SlotView
  <2>9. ASSUME NEW u \in Worker, Holds(u)' PROVE HeldView(worker[u].msg)'
    <3>1. u # t /\ worker'[u] = worker[u] /\ Holds(u)
      BY <2>3, <2>9, WorkerEnds DEF Holds
    <3>2. worker[u].msg.slot[1] \in Instance /\ Thread(worker[u].msg.slot[1]) = u
      BY <3>1, HeldMessage DEF Inv
    <3>3. view'[worker[u].msg.slot[1]] = view[worker[u].msg.slot[1]]
      BY <2>2, <2>7, <3>1, <3>2
    <3>4. QED
      BY <1>2, <3>1, <3>3 DEF HeldView
  <2>10. QED
    BY <2>8, <2>9 DEF ViewInv, SlotView, HeldView
<1>5. QED
  BY <1>3, <1>4 DEF Handler

LEMMA ViewNext ==
  ASSUME TypeOK, Inv, Next
  PROVE  ViewInv'
<1>1. CASE process_hotstuff_generic_p
  <2> DEFINE s == batcher.slot
  <2>1. /\ generic_received' = [generic_received EXCEPT ![s] = TRUE] /\ batcher.at = "vote"
        /\ UNCHANGED <<view, worker, arrived>>
    BY <1>1 DEF process_hotstuff_generic_p, Vote, outside
  <2>2. Leads(s) /\ s[2] <= view[s[1]]
    BY <2>1 DEF Inv, SendInv
  <2>3. generic_received \in [Slot -> BOOLEAN]
    BY DEF TypeOK
  <2>4. ASSUME NEW r \in Slot PROVE SlotView(r)'
    <3>1. SlotView(r)
      BY ViewParts DEF Inv
    <3>2. generic_received'[r] = IF r = s THEN TRUE ELSE generic_received[r]
      BY <2>1, <2>3
    <3> HIDE DEF s
    <3>3. QED
      BY <2>1, <2>2, <3>1, <3>2 DEF SlotView
  <2>5. QED
    BY <2>1, <2>4 DEF Inv, ViewInv, Holds, SlotView
<1>2. CASE (enqueue_batch \/ Proposer \/ Batcher) /\ ~process_hotstuff_generic_p
  <2>1. generic_received' = generic_received
    BY <1>2, BatchFrame, ProposerFrame
       DEF Batcher, batcher_wait, batcher_wait_view, dequeue_generic, dec_incomplete_proposal_cnt,
           batcher_take, send_hotstuff_generic, manager
  <2>2. UNCHANGED <<view, worker, arrived>>
    BY <1>2, BatchFrame, ProposerFrame, BatcherFrame
  <2>3. QED
    BY <2>1, <2>2 DEF Inv, ViewInv, Holds
<1>3. ASSUME NEW k \in Input, Receiver(k)
      PROVE  ViewInv'
  <2>1. UNCHANGED <<view, worker, generic_received>>
    BY <1>3, ReceiverFrame
  <2>2. arrived \subseteq arrived'
    BY <1>3 DEF Receiver, receive, enqueue_push, enqueue_count, enqueue_post, outside
  <2>3. QED
    BY <2>1, <2>2 DEF Inv, ViewInv, Holds
<1>4. QED
  BY <1>1, <1>2, <1>3, ViewHandler DEF Next
-----------------------------------------------------------------------------
(* Managers are taken when they are ready and given back by their owner.   *)
LEMMA OwnerProposer ==
  ASSUME TypeOK, Inv, Proposer
  PROVE  OwnerInv'
<1>0. /\ proposer \in [at : {"idle", "wait", "scan", "take", "fill", "retake", "send", "count"}, slot : Slot]
      /\ txn_ready \in [Slot -> BOOLEAN] /\ proposer.slot \in Slot
  <2>1. /\ proposer \in [at : {"idle", "wait", "scan", "take", "fill", "retake", "send", "count"}, slot : Slot]
        /\ txn_ready \in [Slot -> BOOLEAN]
    BY DEF TypeOK
  <2>2. QED
    BY <2>1
<1>1. batcher' = batcher /\ worker' = worker
  BY ProposerFrame
<1>2. \A s \in Slot : /\ BatcherOwns(s)' <=> BatcherOwns(s)
                      /\ \A t \in Worker : WorkerOwns(t, s)' <=> WorkerOwns(t, s)
  BY <1>1 DEF BatcherOwns, WorkerOwns
<1>3. CASE proposer_take
  <2>1. /\ txn_ready[proposer.slot] /\ proposer.at \in {"take", "retake"}
        /\ \A s \in Slot : txn_ready'[s] = IF s = proposer.slot THEN FALSE ELSE txn_ready[s]
    BY <1>0, <1>3 DEF proposer_take, unset_ready
  <2>2. proposer'.at \in {"fill", "send"} /\ proposer'.slot = proposer.slot
    BY <1>0, <1>3 DEF proposer_take
  <2>3. \A s \in Slot : /\ ProposerOwns(s)' <=> s = proposer.slot
                        /\ ~ProposerOwns(s)
    BY <2>1, <2>2 DEF ProposerOwns
  <2>4. QED
    BY <1>0, <1>2, <2>1, <2>3, ZenonT(60) DEF Inv, OwnerInv
<1>4. CASE init_txn_man \/ create_and_send_hotstuff_prepare
  <2>1. /\ \A s \in Slot : txn_ready'[s] = IF s = proposer.slot THEN TRUE ELSE txn_ready[s]
        /\ proposer.at \in {"fill", "send"} /\ proposer'.at \in {"retake", "count"}
    BY <1>0, <1>4 DEF init_txn_man, create_and_send_hotstuff_prepare
  <2>2. \A s \in Slot : /\ ~ProposerOwns(s)'
                        /\ ProposerOwns(s) <=> s = proposer.slot
    BY <2>1 DEF ProposerOwns
  <2>3. QED
    BY <1>0, <1>2, <2>1, <2>2 DEF Inv, OwnerInv
<1>5. CASE proposer_wait \/ proposer_wait_view \/ dequeue_proposal \/ inc_incomplete_proposal_cnt
  <2>1. txn_ready' = txn_ready
    BY <1>5 DEF proposer_wait, proposer_wait_view, dequeue_proposal, inc_incomplete_proposal_cnt, manager
  <2>2. proposer.at \in {"idle", "wait", "scan", "count"} /\ proposer'.at \in {"idle", "wait", "scan", "take"}
    <3>1. CASE proposer_wait \/ proposer_wait_view \/ inc_incomplete_proposal_cnt
      BY <1>0, <3>1 DEF proposer_wait, proposer_wait_view, inc_incomplete_proposal_cnt
    <3>2. CASE dequeue_proposal
      BY <3>2, ProposalStep DEF dequeue_proposal
    <3>3. QED
      BY <1>5, <3>1, <3>2
  <2>3. \A s \in Slot : ~ProposerOwns(s)' /\ ~ProposerOwns(s)
    BY <2>2 DEF ProposerOwns
  <2>4. QED
    BY <1>2, <2>1, <2>3 DEF Inv, OwnerInv
<1>6. QED
  BY <1>3, <1>4, <1>5 DEF Proposer

LEMMA OwnerBatcher ==
  ASSUME TypeOK, Inv, Batcher
  PROVE  OwnerInv'
<1>0. /\ batcher \in [at : {"idle", "wait", "scan", "found", "take", "send", "vote"}, slot : Slot]
      /\ txn_ready \in [Slot -> BOOLEAN] /\ batcher.slot \in Slot
  <2>1. /\ batcher \in [at : {"idle", "wait", "scan", "found", "take", "send", "vote"}, slot : Slot]
        /\ txn_ready \in [Slot -> BOOLEAN]
    BY DEF TypeOK
  <2>2. QED
    BY <2>1
<1>1. proposer' = proposer /\ worker' = worker
  BY BatcherFrame
<1>2. \A s \in Slot : /\ ProposerOwns(s)' <=> ProposerOwns(s)
                      /\ \A t \in Worker : WorkerOwns(t, s)' <=> WorkerOwns(t, s)
  BY <1>1 DEF ProposerOwns, WorkerOwns
<1>3. CASE batcher_take
  <2>0. txn_ready[batcher.slot]
    BY <1>3, BatcherFinds DEF batcher_take
  <2>1. /\ batcher.at = "take"
        /\ \A s \in Slot : txn_ready'[s] = IF s = batcher.slot THEN FALSE ELSE txn_ready[s]
    BY <1>0, <1>3, <2>0 DEF batcher_take, unset_ready
  <2>2. batcher'.at = "send" /\ batcher'.slot = batcher.slot
    BY <1>0, <1>3, <2>0 DEF batcher_take
  <2>3. \A s \in Slot : /\ BatcherOwns(s)' <=> s = batcher.slot
                        /\ ~BatcherOwns(s)
    BY <2>1, <2>2 DEF BatcherOwns
  <2>4. QED
    BY <1>0, <1>2, <2>0, <2>1, <2>3, ZenonT(60) DEF Inv, OwnerInv
<1>4. CASE process_hotstuff_generic_p
  <2>1. /\ \A s \in Slot : txn_ready'[s] = IF s = batcher.slot THEN TRUE ELSE txn_ready[s]
        /\ batcher.at = "vote" /\ batcher'.at = "idle"
    BY <1>0, <1>4 DEF process_hotstuff_generic_p
  <2>2. \A s \in Slot : /\ ~BatcherOwns(s)'
                        /\ BatcherOwns(s) <=> s = batcher.slot
    BY <2>1 DEF BatcherOwns
  <2>3. QED
    BY <1>0, <1>2, <2>1, <2>2 DEF Inv, OwnerInv
<1>5. CASE \/ batcher_wait \/ batcher_wait_view \/ dequeue_generic \/ dec_incomplete_proposal_cnt
           \/ send_hotstuff_generic
  <2>1. txn_ready' = txn_ready
    BY <1>5 DEF batcher_wait, batcher_wait_view, dequeue_generic, dec_incomplete_proposal_cnt,
                send_hotstuff_generic, manager
  <2>2. \A s \in Slot : BatcherOwns(s)' <=> BatcherOwns(s)
    BY <1>0, <1>5 DEF batcher_wait, batcher_wait_view, dequeue_generic, dec_incomplete_proposal_cnt,
                      send_hotstuff_generic, BatcherOwns
  <2>3. QED
    BY <1>2, <2>1, <2>2 DEF Inv, OwnerInv
<1>6. QED
  BY <1>3, <1>4, <1>5 DEF Batcher

LEMMA OwnerHandler ==
  ASSUME TypeOK, Inv, NEW t \in Worker, Handler(t)
  PROVE  OwnerInv'
<1>0. /\ worker \in [Worker -> [at : {"idle", "awake", "take", "process"}, msg : Messages]]
      /\ txn_ready \in [Slot -> BOOLEAN] /\ worker[t].msg.slot \in Slot
  <2>1. /\ worker \in [Worker -> [at : {"idle", "awake", "take", "process"}, msg : Messages]]
        /\ txn_ready \in [Slot -> BOOLEAN]
    BY DEF TypeOK
  <2>2. QED
    BY <2>1 DEF Messages
<1>1. proposer' = proposer /\ batcher' = batcher
  BY HandlerFrame
<1>2. \A s \in Slot : /\ ProposerOwns(s)' <=> ProposerOwns(s)
                      /\ BatcherOwns(s)' <=> BatcherOwns(s)
  BY <1>1 DEF ProposerOwns, BatcherOwns
<1>9. PICK s0 \in Slot : s0 = worker[t].msg.slot
  BY <1>0
<1>3. CASE worker_take(t) /\ txn_ready[s0]
  <2>1. /\ worker[t].at = "take" /\ worker' = [worker EXCEPT ![t].at = "process"]
        /\ \A s \in Slot : txn_ready'[s] = IF s = s0 THEN FALSE ELSE txn_ready[s]
    BY <1>0, <1>9, <1>3 DEF worker_take, unset_ready
  <2>2. /\ worker'[t].at = "process" /\ worker'[t].msg = worker[t].msg
        /\ \A u \in Worker : u # t => worker'[u] = worker[u]
    BY <2>1, WorkerMoves
  <2>3. \A s \in Slot, u \in Worker :
          /\ WorkerOwns(u, s)' <=> WorkerOwns(u, s) \/ (u = t /\ s = s0)
          /\ ~WorkerOwns(t, s)
    <3> SUFFICES ASSUME NEW s \in Slot, NEW u \in Worker
                 PROVE  /\ WorkerOwns(u, s)' <=> WorkerOwns(u, s) \/ (u = t /\ s = s0)
                        /\ ~WorkerOwns(t, s)
      OBVIOUS
    <3>1. CASE u = t
      BY <1>9, <2>1, <2>2, <3>1 DEF WorkerOwns
    <3>2. CASE u # t
      BY <1>9, <2>1, <2>2, <3>2 DEF WorkerOwns
    <3>3. QED
      BY <3>1, <3>2
  <2>4. OwnerInv /\ txn_ready[s0] /\ s0 \in Slot
    BY <1>0, <1>3 DEF Inv
  <2>5. ASSUME NEW s \in Slot, s # s0
        PROVE  /\ txn_ready'[s] = txn_ready[s]
               /\ \A u \in Worker : WorkerOwns(u, s)' <=> WorkerOwns(u, s)
    BY <2>1, <2>3, <2>5
  <2>6. /\ ~txn_ready'[s0] /\ ~ProposerOwns(s0) /\ ~BatcherOwns(s0)
        /\ \A u \in Worker : WorkerOwns(u, s0)' <=> u = t
    BY <2>1, <2>3, <2>4 DEF OwnerInv
  <2>7. QED
    BY <1>2, <2>4, <2>5, <2>6 DEF OwnerInv
<1>4. CASE process(t)
  <2>1. /\ \A s \in Slot : txn_ready'[s] = IF s = s0 THEN TRUE ELSE txn_ready[s]
        /\ worker[t].at = "process" /\ worker' = [worker EXCEPT ![t] = [at |-> "idle", msg |-> NoMsg]]
    BY <1>0, <1>9, <1>4 DEF process
  <2>2. \A s \in Slot, u \in Worker :
          /\ WorkerOwns(u, s)' <=> WorkerOwns(u, s) /\ u # t
          /\ WorkerOwns(t, s) <=> s = s0
    BY <1>9, <2>1, WorkerEnds DEF WorkerOwns
  <2>4. OwnerInv /\ s0 \in Slot
    BY <1>0 DEF Inv
  <2>5. ASSUME NEW s \in Slot, s # s0
        PROVE  /\ txn_ready'[s] = txn_ready[s]
               /\ \A u \in Worker : WorkerOwns(u, s)' <=> WorkerOwns(u, s)
    BY <2>1, <2>2, <2>5
  <2>6. /\ txn_ready'[s0] /\ ~ProposerOwns(s0) /\ ~BatcherOwns(s0)
        /\ \A u \in Worker : ~WorkerOwns(u, s0)'
    BY <2>1, <2>2, <2>4 DEF OwnerInv
  <2>7. QED
    BY <1>2, <2>4, <2>5, <2>6 DEF OwnerInv
<1>5. CASE worker_wait(t) \/ dequeue(t) \/ (worker_take(t) /\ ~txn_ready[worker[t].msg.slot])
  <2>1. txn_ready' = txn_ready
    BY <1>5 DEF worker_wait, dequeue, worker_take, manager
  <2>2. \A s \in Slot, u \in Worker : WorkerOwns(u, s)' <=> WorkerOwns(u, s)
    <3>1. CASE worker_wait(t)
      BY <3>1, WorkerMoves DEF worker_wait, WorkerOwns
    <3>2. CASE dequeue(t)
      <4>1. worker[t].at = "awake"
        BY <3>2 DEF dequeue
      <4>2. CASE worker' = [worker EXCEPT ![t].at = "idle"]
        BY <4>1, <4>2, WorkerMoves DEF WorkerOwns
      <4>3. ASSUME NEW m \in Messages, Got(t, m)
            PROVE  \A s \in Slot, u \in Worker : WorkerOwns(u, s)' <=> WorkerOwns(u, s)
        <5>1. \A u \in Worker : GotWorker(t, m, u)
          BY <4>3, GotQueues
        <5>2. QED
          BY <4>1, <5>1 DEF GotWorker, WorkerOwns
      <4>4. QED
        BY <3>2, <4>2, <4>3, DequeueQueues
    <3>3. CASE worker_take(t) /\ ~txn_ready[worker[t].msg.slot]
      <4>1. worker[t].at = "take" /\ worker' = [worker EXCEPT ![t] = [at |-> "idle", msg |-> NoMsg]]
        BY <3>3 DEF worker_take
      <4>2. QED
        BY <4>1, WorkerEnds DEF WorkerOwns
    <3>4. QED
      BY <1>5, <3>1, <3>2, <3>3
  <2>3. QED
    BY <1>2, <2>1, <2>2 DEF Inv, OwnerInv
<1>6. QED
  BY <1>9, <1>3, <1>4, <1>5 DEF Handler

LEMMA OwnerNext ==
  ASSUME TypeOK, Inv, Next
  PROVE  OwnerInv'
<1>1. CASE enqueue_batch \/ \E k \in Input : Receiver(k)
  <2>1. UNCHANGED <<txn_ready, proposer, batcher, worker>>
    BY <1>1, BatchFrame, ReceiverFrame
  <2>2. QED
    BY <2>1 DEF Inv, OwnerInv, ProposerOwns, BatcherOwns, WorkerOwns
<1>2. QED
  BY <1>1, OwnerProposer, OwnerBatcher, OwnerHandler DEF Next
-----------------------------------------------------------------------------
(* The parts of SendInv. *)
SendSum(i) ==
  (IF Proposing(i) THEN 1 ELSE 0) + incomplete_proposal_cnt[i]
  + (IF Sending(i) THEN 1 ELSE 0) + (IF Out(i) THEN 1 ELSE 0) = IF InProposal(i) THEN 1 ELSE 0
SendViews(i) ==
  /\ Leads(<<i, next_send_view[i]>>) /\ view[i] <= next_send_view[i]
  /\ \A u \in 0 .. next_send_view[i] : Leads(<<i, u>>) /\ u < next_send_view[i] => u <= view[i]
  /\ InProposal(i) => last_sent_view[i] = view[i]
SendSlots(i) ==
  /\ Proposing(i) => proposer.slot[2] = view[i]
  /\ Sending(i) => batcher.slot[2] = view[i]
SendOut ==
  /\ batcher.at = "vote" => batcher.slot \in generic_out
  /\ \A s \in generic_out : Leads(s) /\ s[2] <= view[s[1]]
  /\ \A s \in Slot : Leads(s) /\ generic_received[s] => s \in generic_out

LEMMA SendParts ==
  /\ SendInv <=> (\A i \in Instance : SendSum(i) /\ SendViews(i) /\ SendSlots(i)) /\ SendOut
  /\ SendInv' <=> (\A i \in Instance : SendSum(i)' /\ SendViews(i)' /\ SendSlots(i)') /\ SendOut'
<1>1. SendInv <=> (\A i \in Instance : SendSum(i) /\ SendViews(i) /\ SendSlots(i)) /\ SendOut
  BY DEF SendInv, SendSum, SendViews, SendSlots, SendOut
<1>2. SendInv' <=> (\A i \in Instance : SendSum(i)' /\ SendViews(i)' /\ SendSlots(i)') /\ SendOut'
  BY DEF SendInv, SendSum, SendViews, SendSlots, SendOut
<1>3. QED
  BY <1>1, <1>2

LEMMA SendTypes ==
  ASSUME TypeOK
  PROVE  /\ \A i \in Instance : /\ view[i] \in Nat /\ next_send_view[i] \in Nat /\ last_sent_view[i] \in Nat
                                /\ incomplete_proposal_cnt[i] \in Nat
         /\ proposer.slot \in Slot /\ batcher.slot \in Slot /\ generic_out \subseteq Slot
         /\ expectedInstance \in Instance /\ proposalInstance \in Instance
<1>1. /\ view \in [Instance -> 0 .. MaxView] /\ next_send_view \in [Instance -> Nat]
      /\ last_sent_view \in [Instance -> Nat] /\ incomplete_proposal_cnt \in [Instance -> Nat]
      /\ proposer \in [at : {"idle", "wait", "scan", "take", "fill", "retake", "send", "count"}, slot : Slot]
      /\ batcher \in [at : {"idle", "wait", "scan", "found", "take", "send", "vote"}, slot : Slot]
      /\ generic_out \subseteq Slot /\ expectedInstance \in Instance /\ proposalInstance \in Instance
  BY DEF TypeOK
<1>2. QED
  BY <1>1, Constants

(* A step that moves no proposal on. *)
LEMMA SendFrame ==
  ASSUME TypeOK, SendInv,
         UNCHANGED <<view, next_send_view, last_sent_view, incomplete_proposal_cnt, generic_out, generic_received>>,
         \A i \in Instance : /\ Proposing(i)' <=> Proposing(i)
                             /\ Sending(i)' <=> Sending(i)
                             /\ Proposing(i) => proposer'.slot = proposer.slot
                             /\ Sending(i) => batcher'.slot = batcher.slot,
         batcher'.at = "vote" => batcher.at = "vote" /\ batcher'.slot = batcher.slot
  PROVE  SendInv'
<1>1. ASSUME NEW i \in Instance PROVE SendSum(i)' /\ SendViews(i)' /\ SendSlots(i)'
  <2>1. SendSum(i) /\ SendViews(i) /\ SendSlots(i)
    BY SendParts
  <2>2. (Out(i)' <=> Out(i)) /\ (InProposal(i)' <=> InProposal(i))
    BY DEF Out, InProposal
  <2>3. SendSum(i)'
    BY <2>1, <2>2 DEF SendSum
  <2>4. SendViews(i)'
    BY <2>1, <2>2 DEF SendViews
  <2>5. SendSlots(i)'
    BY <2>1 DEF SendSlots
  <2>6. QED
    BY <2>3, <2>4, <2>5
<1>2. SendOut'
  <2>1. SendOut
    BY SendParts
  <2>2. QED
    BY <2>1 DEF SendOut
<1>3. QED
  BY <1>1, <1>2, SendParts

LEMMA SendProposer ==
  ASSUME TypeOK, SendInv, Proposer
  PROVE  SendInv'
<1>0. UNCHANGED <<view, batcher, generic_out, generic_received>>
  BY ProposerFrame
<1>1. proposer \in [at : {"idle", "wait", "scan", "take", "fill", "retake", "send", "count"}, slot : Slot]
  BY DEF TypeOK
<1>2. \A i \in Instance : Sending(i)' <=> Sending(i)
  BY <1>0 DEF Sending
<1>3. SendOut'
  <2>1. SendOut
    BY SendParts
  <2>2. QED
    BY <1>0, <2>1 DEF SendOut
<1>4. CASE \/ proposer_wait \/ proposer_wait_view \/ proposer_take
           \/ init_txn_man \/ create_and_send_hotstuff_prepare
  <2>1. UNCHANGED <<next_send_view, last_sent_view, incomplete_proposal_cnt>>
    BY <1>4 DEF proposer_wait, proposer_wait_view, proposer_take, init_txn_man,
                create_and_send_hotstuff_prepare, sending
  <2>2. /\ proposer'.slot = proposer.slot
        /\ \/ proposer.at \in {"idle", "wait"} /\ proposer'.at \in {"wait", "scan"}
           \/ /\ proposer.at \in {"take", "fill", "retake", "send"}
              /\ proposer'.at \in {"fill", "retake", "send", "count"}
    BY <1>1, <1>4 DEF proposer_wait, proposer_wait_view, proposer_take, init_txn_man,
                      create_and_send_hotstuff_prepare
  <2>3. \A i \in Instance : Proposing(i)' <=> Proposing(i)
    BY <2>2 DEF Proposing
  <2>4. QED
    BY <1>0, <1>2, <2>1, <2>2, <2>3, SendFrame
<1>5. CASE dequeue_proposal
  <2>10. PICK p \in Instance : p = proposalInstance
    BY SendTypes
  <2>11. PICK n \in Nat : n = next_send_view[p]
    BY SendTypes
  <2>1. CASE UNCHANGED <<last_sent_view, next_send_view, proposer>>
    <3>1. incomplete_proposal_cnt' = incomplete_proposal_cnt
      BY <1>5 DEF dequeue_proposal
    <3>2. \A i \in Instance : Proposing(i)' <=> Proposing(i)
      BY <2>1 DEF Proposing
    <3>3. QED
      BY <1>0, <1>2, <2>1, <3>1, <3>2, SendFrame
  <2>2. CASE /\ n <= view[p] /\ last_sent_view' = [last_sent_view EXCEPT ![p] = n]
             /\ next_send_view' = [next_send_view EXCEPT ![p] = @ + NODE_CNT]
             /\ proposer' = [at |-> "take", slot |-> <<p, n>>]
    <3>1. /\ p \in Instance /\ n \in Nat /\ view[p] \in Nat /\ incomplete_proposal_cnt[p] \in Nat
      BY SendTypes
    <3>2. next_send_view \in [Instance -> Nat] /\ last_sent_view \in [Instance -> Nat]
      BY DEF TypeOK
    <3>3. incomplete_proposal_cnt' = incomplete_proposal_cnt /\ proposer.at = "scan"
      BY <1>5 DEF dequeue_proposal
    <3>4. proposer'.at = "take" /\ proposer'.slot[1] = p /\ proposer'.slot[2] = n
      BY <2>2
    <3>5. /\ \A i \in Instance : i # p => next_send_view'[i] = next_send_view[i] /\ last_sent_view'[i] = last_sent_view[i]
          /\ next_send_view'[p] = n + NODE_CNT /\ last_sent_view'[p] = n
      BY <2>2, <2>11, <3>1, <3>2
    <3>6. SendSum(p) /\ SendViews(p)
      BY <3>1, SendParts
    <3>7. n = view[p] /\ Leads(<<p, n>>)
      BY <2>2, <2>11, <3>1, <3>6 DEF SendViews
    <3>8. ~InProposal(p) /\ ~Proposing(p) /\ (Out(p)' <=> Out(p))
      BY <1>0, <2>11, <3>1, <3>3, <3>7 DEF InProposal, Proposing, Out
    <3>9. incomplete_proposal_cnt[p] = 0 /\ ~Sending(p) /\ ~Out(p)
      BY <3>1, <3>6, <3>8 DEF SendSum
    <3>10. ASSUME NEW i \in Instance PROVE SendSum(i)' /\ SendViews(i)' /\ SendSlots(i)'
      <4>1. CASE i = p
        <5>1. view'[i] = n /\ Leads(<<i, n>>) /\ NODE_CNT \in Nat /\ NODE_CNT > 0 /\ n \in Nat
              /\ next_send_view'[i] = n + NODE_CNT /\ last_sent_view'[i] = n /\ i \in Instance
          BY <1>0, <3>1, <3>5, <3>7, <4>1, Constants
        <5>2. InProposal(i)'
          BY <5>1 DEF InProposal, Leads
        <5>3. Proposing(i)' /\ ~Sending(i)' /\ ~Out(i)' /\ incomplete_proposal_cnt'[i] = 0
          BY <1>2, <3>3, <3>4, <3>8, <3>9, <4>1 DEF Proposing
        <5>4. SendSum(i)'
          BY <5>2, <5>3 DEF SendSum
        <5>5. Leads(<<i, n + NODE_CNT>>)
          BY <5>1, LedAgain
        <5>6. \A u \in 0 .. (n + NODE_CNT) : Leads(<<i, u>>) /\ u < n + NODE_CNT => u <= n
          <6> SUFFICES ASSUME NEW u \in 0 .. (n + NODE_CNT), Leads(<<i, u>>), u < n + NODE_CNT, n < u PROVE FALSE
            BY <5>1
          <6>1. u \in Nat
            BY <5>1
          <6>2. n + NODE_CNT <= u
            BY <5>1, <6>1, LedApart
          <6>3. QED
            BY <5>1, <6>1, <6>2
        <5>7. SendViews(i)'
          BY <5>1, <5>5, <5>6 DEF SendViews, Leads
        <5>8. SendSlots(i)'
          BY <3>4, <5>1, <5>3 DEF SendSlots
        <5>9. QED
          BY <5>4, <5>7, <5>8
      <4>2. CASE i # p
        <5>1. SendSum(i) /\ SendViews(i) /\ SendSlots(i)
          BY SendParts
        <5>2. /\ next_send_view'[i] = next_send_view[i] /\ last_sent_view'[i] = last_sent_view[i]
              /\ incomplete_proposal_cnt' = incomplete_proposal_cnt
          BY <3>3, <3>5, <4>2
        <5>3. ~Proposing(i) /\ ~Proposing(i)'
          BY <3>3, <3>4, <4>2 DEF Proposing
        <5>4. (Out(i)' <=> Out(i)) /\ (InProposal(i)' <=> InProposal(i)) /\ (Sending(i)' <=> Sending(i))
          BY <1>0, <1>2, <5>2 DEF Out, InProposal, Leads
        <5>5. SendSum(i)'
          BY <5>1, <5>2, <5>3, <5>4 DEF SendSum
        <5>6. SendViews(i)'
          BY <1>0, <5>1, <5>2, <5>4 DEF SendViews, Leads
        <5>7. SendSlots(i)'
          BY <1>0, <5>1, <5>3, <5>4 DEF SendSlots
        <5>8. QED
          BY <5>5, <5>6, <5>7
      <4>3. QED
        BY <4>1, <4>2
    <3>11. QED
      BY <1>3, <3>10, SendParts
  <2>3. QED
    BY <1>5, <2>1, <2>2, <2>10, <2>11, ProposalStep
<1>6. CASE inc_incomplete_proposal_cnt
  <2> DEFINE p == proposer.slot[1]
  <2>1. /\ proposer.at = "count" /\ proposer'.at = "idle"
        /\ incomplete_proposal_cnt' = [incomplete_proposal_cnt EXCEPT ![p] = @ + 1]
        /\ UNCHANGED <<next_send_view, last_sent_view>>
    BY <1>6 DEF inc_incomplete_proposal_cnt
  <2>2. p \in Instance /\ incomplete_proposal_cnt \in [Instance -> Nat]
    BY <1>1, SlotPair DEF TypeOK
  <2>3. ASSUME NEW i \in Instance PROVE SendSum(i)' /\ SendViews(i)' /\ SendSlots(i)'
    <3>1. SendSum(i) /\ SendViews(i) /\ SendSlots(i)
      BY SendParts
    <3>2. (Out(i)' <=> Out(i)) /\ (InProposal(i)' <=> InProposal(i))
      BY <1>0, <2>1 DEF Out, InProposal
    <3>3. ~Proposing(i)' /\ (Proposing(i) <=> i = p)
      BY <2>1 DEF Proposing
    <3>4. /\ incomplete_proposal_cnt'[i] = IF i = p THEN incomplete_proposal_cnt[i] + 1 ELSE incomplete_proposal_cnt[i]
          /\ incomplete_proposal_cnt[i] \in Nat
      BY <2>1, <2>2
    <3> HIDE DEF p
    <3>5. SendSum(i)'
      BY <1>2, <3>1, <3>2, <3>3, <3>4 DEF SendSum
    <3>6. SendViews(i)'
      BY <1>0, <2>1, <3>1, <3>2 DEF SendViews
    <3>7. SendSlots(i)'
      BY <1>0, <1>2, <3>1, <3>3 DEF SendSlots
    <3>8. QED
      BY <3>5, <3>6, <3>7
  <2>4. QED
    BY <1>3, <2>3, SendParts
<1>7. QED
  BY <1>4, <1>5, <1>6 DEF Proposer

LEMMA SendBatcher ==
  ASSUME TypeOK, Inv, Batcher
  PROVE  SendInv'
<1>0. UNCHANGED <<view, next_send_view, last_sent_view, proposer>>
  BY BatcherFrame
<1>1. batcher \in [at : {"idle", "wait", "scan", "found", "take", "send", "vote"}, slot : Slot]
  BY DEF TypeOK
<1>2. SendInv /\ SendOut
  BY SendParts DEF Inv
<1>3. \A i \in Instance : /\ Proposing(i)' <=> Proposing(i)
                          /\ InProposal(i)' <=> InProposal(i)
  BY <1>0 DEF Proposing, InProposal
<1>4. CASE batcher_wait \/ batcher_wait_view \/ batcher_take
  <2>1. UNCHANGED <<incomplete_proposal_cnt, generic_out, generic_received>>
    BY <1>4 DEF batcher_wait, batcher_wait_view, batcher_take, sending, manager, outside
  <2>2. /\ batcher'.slot = batcher.slot
        /\ \/ batcher.at \in {"idle", "wait"} /\ batcher'.at \in {"wait", "scan"}
           \/ batcher.at = "take" /\ batcher'.at = "send"
    <3>1. CASE batcher_wait \/ batcher_wait_view
      BY <1>1, <3>1 DEF batcher_wait, batcher_wait_view
    <3>2. CASE batcher_take
      <4>1. txn_ready[batcher.slot] /\ batcher.at = "take"
        BY <3>2, BatcherFinds DEF batcher_take
      <4>2. QED
        BY <1>1, <3>2, <4>1 DEF batcher_take
    <3>3. QED
      BY <1>4, <3>1, <3>2
  <2>3. \A i \in Instance : Sending(i)' <=> Sending(i)
    BY <2>2 DEF Sending
  <2>4. QED
    BY <1>0, <1>2, <1>3, <2>1, <2>2, <2>3, SendFrame
<1>5. CASE dequeue_generic
  <2>1. UNCHANGED <<incomplete_proposal_cnt, generic_out, generic_received>>
    BY <1>5 DEF dequeue_generic, manager, outside
  <2>2. batcher.at = "scan" /\ batcher'.at \in {"scan", "found"} /\ batcher'.slot = batcher.slot
    BY <1>1, <1>5 DEF dequeue_generic
  <2>3. \A i \in Instance : Sending(i)' <=> Sending(i)
    BY <2>2 DEF Sending
  <2>4. QED
    BY <1>0, <1>2, <1>3, <2>1, <2>2, <2>3, SendFrame
<1>9. CASE dec_incomplete_proposal_cnt
  <2>10. PICK e \in Instance : e = expectedInstance
    BY SendTypes
  <2>11. batcher.at = "found" /\ UNCHANGED <<generic_out, generic_received>>
    BY <1>9 DEF dec_incomplete_proposal_cnt, manager, outside
  <2>1. /\ incomplete_proposal_cnt' = [incomplete_proposal_cnt EXCEPT ![e] = @ - 1]
        /\ batcher' = [at |-> "take", slot |-> <<e, last_sent_view[e]>>]
    BY <1>9, <2>10 DEF dec_incomplete_proposal_cnt
  <2>2. /\ last_sent_view[e] = view[e] /\ incomplete_proposal_cnt[e] = 1 /\ InProposal(e)
        /\ ~Proposing(e) /\ ~Sending(e) /\ ~Out(e)
    BY <1>2, <1>9, <2>10, BatchSlot DEF dec_incomplete_proposal_cnt, Inv, FoundInv
  <2>3. batcher'.at = "take" /\ batcher'.slot[1] = e /\ batcher'.slot[2] = view[e]
    BY <2>1, <2>2
  <2>4. incomplete_proposal_cnt \in [Instance -> Nat]
    BY DEF TypeOK
  <2>5. ASSUME NEW i \in Instance PROVE SendSum(i)' /\ SendViews(i)' /\ SendSlots(i)'
    <3>1. SendSum(i) /\ SendViews(i) /\ SendSlots(i)
      BY <1>2, SendParts
    <3>2. incomplete_proposal_cnt'[i] = IF i = e THEN 0 ELSE incomplete_proposal_cnt[i]
      BY <2>1, <2>2, <2>4
    <3>3. ~Sending(i) /\ (Sending(i)' <=> i = e) /\ (Out(i)' <=> Out(i))
      BY <1>0, <2>11, <2>3 DEF Sending, Out
    <3>4. SendSum(i)'
      <4>1. CASE i = e
        BY <1>3, <2>2, <3>2, <3>3, <4>1 DEF SendSum
      <4>2. CASE i # e
        BY <1>3, <3>1, <3>2, <3>3, <4>2 DEF SendSum
      <4>3. QED
        BY <4>1, <4>2
    <3>5. SendViews(i)'
      BY <1>0, <1>3, <3>1 DEF SendViews
    <3>6. SendSlots(i)'
      BY <1>0, <1>3, <2>3, <3>1, <3>3 DEF SendSlots
    <3>7. QED
      BY <3>4, <3>5, <3>6
  <2>6. SendOut'
    BY <1>0, <1>2, <2>11, <2>3 DEF SendOut
  <2>7. QED
    BY <2>5, <2>6, SendParts
<1>6. CASE send_hotstuff_generic
  <2>10. PICK z \in Slot : z = batcher.slot
    BY SendTypes
  <2>11. PICK e \in Instance : e = z[1]
    BY SlotPair
  <2>1. /\ batcher.at = "send" /\ generic_out' = generic_out \cup {z}
        /\ batcher'.at = "vote" /\ batcher'.slot = z
        /\ UNCHANGED <<incomplete_proposal_cnt, generic_received>>
    BY <1>1, <1>6, <2>10 DEF send_hotstuff_generic, sending, manager
  <2>2. Sending(e)
    BY <2>1, <2>10, <2>11 DEF Sending
  <2>3. z = <<e, view[e]>> /\ incomplete_proposal_cnt[e] = 0 /\ InProposal(e) /\ ~Proposing(e) /\ ~Out(e)
    BY <1>2, <2>2, <2>10, SendingSlot
  <2>4. ASSUME NEW i \in Instance PROVE SendSum(i)' /\ SendViews(i)' /\ SendSlots(i)'
    <3>1. SendSum(i) /\ SendViews(i) /\ SendSlots(i)
      BY <1>2, SendParts
    <3>2. ~Sending(i)' /\ (Sending(i) <=> i = e)
      BY <2>1, <2>10, <2>11 DEF Sending
    <3>3. SendSum(i)'
      <4>1. CASE i = e
        <5>1. Out(i)'
          BY <1>0, <2>1, <2>3, <4>1 DEF Out, InProposal, Leads
        <5>2. QED
          BY <1>3, <2>1, <2>3, <3>2, <4>1, <5>1 DEF SendSum
      <4>2. CASE i # e
        <5>1. Out(i)' <=> Out(i)
          BY <1>0, <2>1, <2>3, <4>2 DEF Out, Leads
        <5>2. QED
          BY <1>3, <2>1, <3>1, <3>2, <4>2, <5>1 DEF SendSum
      <4>3. QED
        BY <4>1, <4>2
    <3>4. SendViews(i)'
      BY <1>0, <1>3, <3>1 DEF SendViews
    <3>5. SendSlots(i)'
      BY <1>0, <1>3, <3>1, <3>2 DEF SendSlots
    <3>6. QED
      BY <3>3, <3>4, <3>5
  <2>5. SendOut'
    <3>1. Leads(z) /\ z[2] <= view[z[1]]
      BY <2>3, SendTypes DEF InProposal
    <3>2. QED
      BY <1>0, <1>2, <2>1, <3>1 DEF SendOut, Leads
  <2>6. QED
    BY <2>4, <2>5, SendParts
<1>7. CASE process_hotstuff_generic_p
  <2>1. /\ batcher.at = "vote" /\ batcher'.at = "idle" /\ UNCHANGED <<incomplete_proposal_cnt, generic_out>>
        /\ generic_received' = [generic_received EXCEPT ![batcher.slot] = TRUE]
    BY <1>7 DEF process_hotstuff_generic_p, Vote, sending, outside
  <2>2. \A i \in Instance : ~Sending(i) /\ ~Sending(i)' /\ (Out(i)' <=> Out(i))
    BY <1>0, <2>1 DEF Sending, Out
  <2>3. ASSUME NEW i \in Instance PROVE SendSum(i)' /\ SendViews(i)' /\ SendSlots(i)'
    <3>1. SendSum(i) /\ SendViews(i) /\ SendSlots(i)
      BY <1>2, SendParts
    <3>2. SendSum(i)'
      BY <1>3, <2>1, <2>2, <3>1 DEF SendSum
    <3>3. SendViews(i)'
      BY <1>0, <1>3, <3>1 DEF SendViews
    <3>4. SendSlots(i)'
      BY <1>0, <1>3, <2>2, <3>1 DEF SendSlots
    <3>5. QED
      BY <3>2, <3>3, <3>4
  <2>4. SendOut'
    <3>1. generic_received \in [Slot -> BOOLEAN]
      BY DEF TypeOK
    <3>2. \A s \in Slot : s # batcher.slot => generic_received'[s] = generic_received[s]
      BY <2>1, <3>1
    <3>3. QED
      BY <1>0, <1>2, <2>1, <3>2 DEF SendOut, Leads
  <2>5. QED
    BY <2>3, <2>4, SendParts
<1>8. QED
  BY <1>4, <1>5, <1>6, <1>7, <1>9 DEF Batcher

(* A view that ends was either not led or has its GENERIC out, and there   *)
(* is no proposal for it on the way; the next one is still to be proposed  *)
(* in.                                                                     *)
LEMMA ViewDone ==
  ASSUME TypeOK, SendInv, NEW e \in Instance, Leads(<<e, view[e]>>) => <<e, view[e]>> \in generic_out
  PROVE  /\ ~Proposing(e) /\ ~Sending(e) /\ incomplete_proposal_cnt[e] = 0 /\ view[e] < next_send_view[e]
         /\ Leads(<<e, view[e] + 1>>) => next_send_view[e] = view[e] + 1
         /\ <<e, view[e] + 1>> \notin generic_out
<1>1. view[e] \in Nat /\ next_send_view[e] \in Nat /\ incomplete_proposal_cnt[e] \in Nat
  BY SendTypes
<1>2. SendSum(e) /\ SendViews(e) /\ SendOut
  BY SendParts
<1>3. ~Proposing(e) /\ ~Sending(e) /\ incomplete_proposal_cnt[e] = 0 /\ view[e] < next_send_view[e]
  <2>1. CASE Leads(<<e, view[e]>>)
    <3>1. Out(e)
      BY <2>1 DEF Out
    <3>2. InProposal(e) /\ ~Proposing(e) /\ ~Sending(e) /\ incomplete_proposal_cnt[e] = 0
      BY <1>1, <1>2, <3>1 DEF SendSum
    <3>3. QED
      BY <3>2 DEF InProposal
  <2>2. CASE ~Leads(<<e, view[e]>>)
    <3>1. ~InProposal(e) /\ ~Out(e) /\ view[e] # next_send_view[e]
      BY <1>2, <2>2 DEF InProposal, Out, SendViews
    <3>2. ~Proposing(e) /\ ~Sending(e) /\ incomplete_proposal_cnt[e] = 0
      BY <1>1, <1>2, <3>1 DEF SendSum
    <3>3. QED
      BY <1>1, <1>2, <3>1, <3>2 DEF SendViews
  <2>3. QED
    BY <2>1, <2>2
<1>4. ASSUME Leads(<<e, view[e] + 1>>) PROVE next_send_view[e] = view[e] + 1
  <2>1. SUFFICES ASSUME view[e] + 1 < next_send_view[e] PROVE FALSE
    BY <1>1, <1>3
  <2>2. view[e] + 1 \in 0 .. next_send_view[e]
    BY <1>1, <2>1
  <2>3. view[e] + 1 <= view[e]
    BY <1>2, <1>4, <2>1, <2>2 DEF SendViews
  <2>4. QED
    BY <1>1, <2>3
<1>5. ASSUME <<e, view[e] + 1>> \in generic_out PROVE FALSE
  <2>1. view[e] + 1 <= view[e]
    BY <1>2, <1>5 DEF SendOut
  <2>2. QED
    BY <1>1, <2>1
<1>6. QED
  BY <1>3, <1>4, <1>5

LEMMA SendHandler ==
  ASSUME TypeOK, Inv, NEW t \in Worker, Handler(t)
  PROVE  SendInv'
<1>0. UNCHANGED <<next_send_view, last_sent_view, incomplete_proposal_cnt, proposer, batcher, generic_out>>
  BY HandlerFrame
<1>1. SendInv /\ SendOut
  BY SendParts DEF Inv
<1>2. \A i \in Instance : /\ Proposing(i)' <=> Proposing(i)
                          /\ Sending(i)' <=> Sending(i)
  BY <1>0 DEF Proposing, Sending
<1>3. CASE worker_wait(t) \/ dequeue(t) \/ worker_take(t)
  <2>1. UNCHANGED <<view, generic_received>>
    BY <1>3 DEF worker_wait, dequeue, worker_take, manager
  <2>2. QED
    BY <1>0, <1>1, <1>2, <2>1, SendFrame
<1>4. CASE process(t)
  <2> DEFINE m == worker[t].msg
             s == worker[t].msg.slot
  <2>1. Holds(t)
    BY <1>4 DEF process, Holds
  <2>2. /\ m \in arrived /\ s \in Slot /\ s[1] \in Instance /\ s[2] \in Nat /\ s = <<s[1], s[2]>>
        /\ IsPrior(m) <=> m.rtype = "GENERIC"
    BY <2>1, HeldMessage DEF Inv
  <2>3. /\ generic_received' = IF IsPrior(m) THEN [generic_received EXCEPT ![s] = TRUE] ELSE generic_received
        /\ \/ view' = view
           \/ advance_view(s[1]) /\ view[s[1]] = s[2] /\ generic_received'[s]
    BY <1>4, ProcessStep
  <2>4. IsPrior(m) => ~Leads(s)
    BY <2>2 DEF Inv, ArrivedInv
  <2>5. \A r \in Slot : Leads(r) => generic_received'[r] = generic_received[r]
    <3>1. generic_received \in [Slot -> BOOLEAN]
      BY DEF TypeOK
    <3>2. QED
      BY <2>3, <2>4, <3>1
  <2>10. PICK z \in Slot : z = s
    BY <2>2
  <2>11. PICK e \in Instance : e = z[1]
    BY <2>2, <2>10
  <2>6. CASE view' = view
    <3>1. ASSUME NEW i \in Instance PROVE SendSum(i)' /\ SendViews(i)' /\ SendSlots(i)'
      <4>1. SendSum(i) /\ SendViews(i) /\ SendSlots(i)
        BY <1>1, SendParts
      <4>2. (Out(i)' <=> Out(i)) /\ (InProposal(i)' <=> InProposal(i))
        BY <1>0, <2>6 DEF Out, InProposal
      <4>3. SendSum(i)'
        BY <1>0, <1>2, <4>1, <4>2 DEF SendSum
      <4>4. SendViews(i)'
        BY <1>0, <2>6, <4>1, <4>2 DEF SendViews
      <4>5. SendSlots(i)'
        BY <1>0, <1>2, <2>6, <4>1 DEF SendSlots
      <4>6. QED
        BY <4>3, <4>4, <4>5
    <3>2. SendOut'
      BY <1>0, <1>1, <2>5, <2>6 DEF SendOut
    <3>3. QED
      BY <3>1, <3>2, SendParts
  <2>7. CASE advance_view(e) /\ view[e] = z[2] /\ generic_received'[z]
    <3>1. /\ view'[e] = view[e] + 1 /\ \A i \in Instance : i # e => view'[i] = view[i]
      BY <2>7, AdvanceQueues DEF Leaves
    <3>2. \A i \in Instance : /\ view[i] \in Nat /\ view'[i] >= view[i]
                              /\ incomplete_proposal_cnt[i] \in Nat /\ next_send_view[i] \in Nat
      <4>1. \A i \in Instance : view[i] \in Nat
        BY SendTypes
      <4>2. QED
        BY <3>1, <4>1, SendTypes
    <3>3. z = <<e, view[e]>>
      BY <2>2, <2>7, <2>10, <2>11
    <3>4. Leads(z) => z \in generic_out
      BY <1>1, <2>5, <2>7 DEF SendOut
    <3>5. /\ ~Proposing(e) /\ ~Sending(e) /\ incomplete_proposal_cnt[e] = 0 /\ view[e] < next_send_view[e]
          /\ Leads(<<e, view[e] + 1>>) => next_send_view[e] = view[e] + 1
          /\ <<e, view[e] + 1>> \notin generic_out
      BY <1>1, <3>3, <3>4, ViewDone
    <3>6. ~InProposal(e)'
      BY <1>0, <3>1, <3>2, <3>5 DEF InProposal, Leads
    <3>7. ~Out(e)'
      BY <1>0, <3>1, <3>5 DEF Out
    <3>8. ASSUME NEW i \in Instance PROVE SendSum(i)' /\ SendViews(i)' /\ SendSlots(i)'
      <4>1. SendSum(i) /\ SendViews(i) /\ SendSlots(i)
        BY <1>1, SendParts
      <4>2. CASE i = e
        <5>1. SendSum(i)'
          BY <1>0, <1>2, <3>5, <3>6, <3>7, <4>2 DEF SendSum
        <5>2. SendViews(i)'
          <6>1. view[i] + 1 <= next_send_view[i] /\ view'[i] = view[i] + 1 /\ ~InProposal(i)' /\ view[i] \in Nat
                /\ next_send_view' = next_send_view
            BY <1>0, <3>1, <3>2, <3>5, <3>6, <4>2
          <6>2. \A u \in 0 .. next_send_view[i] : Leads(<<i, u>>) /\ u < next_send_view[i] => u <= view[i] + 1
            BY <4>1, <6>1 DEF SendViews
          <6>3. QED
            BY <4>1, <6>1, <6>2 DEF SendViews, Leads
        <5>3. SendSlots(i)'
          BY <1>2, <3>5, <4>2 DEF SendSlots
        <5>4. QED
          BY <5>1, <5>2, <5>3
      <4>3. CASE i # e
        <5>1. view'[i] = view[i]
          BY <3>1, <4>3
        <5>2. (Out(i)' <=> Out(i)) /\ (InProposal(i)' <=> InProposal(i))
          BY <1>0, <5>1 DEF Out, InProposal, Leads
        <5>3. SendSum(i)'
          BY <1>0, <1>2, <4>1, <5>2 DEF SendSum
        <5>4. SendViews(i)'
          BY <1>0, <4>1, <5>1, <5>2 DEF SendViews, Leads
        <5>5. SendSlots(i)'
          BY <1>0, <1>2, <4>1, <5>1 DEF SendSlots
        <5>6. QED
          BY <5>3, <5>4, <5>5
      <4>4. QED
        BY <4>2, <4>3
    <3>9. SendOut'
      <4>1. ASSUME NEW r \in generic_out PROVE Leads(r) /\ r[2] <= view'[r[1]]
        <5>1. r \in Slot
          BY SendTypes
        <5>2. r[1] \in Instance /\ r[2] \in Nat
          BY <5>1, SlotPair
        <5>3. Leads(r) /\ r[2] <= view[r[1]]
          BY <1>1 DEF SendOut
        <5>4. view[r[1]] \in Nat /\ view'[r[1]] \in Nat /\ view'[r[1]] >= view[r[1]]
          BY <3>1, <3>2, <5>2
        <5>5. QED
          BY <5>2, <5>3, <5>4
      <4>2. QED
        BY <1>0, <1>1, <2>5, <4>1 DEF SendOut, Leads
    <3>10. QED
      BY <3>8, <3>9, SendParts
  <2>8. QED
    BY <2>3, <2>6, <2>7, <2>10, <2>11
<1>5. QED
  BY <1>3, <1>4 DEF Handler

LEMMA SendNext ==
  ASSUME TypeOK, Inv, Next
  PROVE  SendInv'
<1>0. SendInv
  BY DEF Inv
<1>1. CASE enqueue_batch \/ \E k \in Input : Receiver(k)
  <2>1. UNCHANGED <<view, next_send_view, last_sent_view, incomplete_proposal_cnt, generic_out, generic_received,
                    proposer, batcher>>
    BY <1>1, BatchFrame, ReceiverFrame
  <2>2. \A i \in Instance : (Proposing(i)' <=> Proposing(i)) /\ (Sending(i)' <=> Sending(i))
    BY <2>1 DEF Proposing, Sending
  <2>3. QED
    BY <1>0, <2>1, <2>2, SendFrame
<1>2. QED
  BY <1>0, <1>1, SendProposer, SendBatcher, SendHandler DEF Next
-----------------------------------------------------------------------------
LEMMA FoundNext ==
  ASSUME TypeOK, Inv, Next
  PROVE  FoundInv'
<1>0. FoundInv /\ incomplete_proposal_cnt \in [Instance -> Nat]
  BY DEF Inv, TypeOK
<1>1. CASE UNCHANGED <<incomplete_proposal_cnt, batcher, expectedInstance>>
  BY <1>0, <1>1 DEF FoundInv
<1>2. CASE enqueue_batch \/ \E k \in Input : Receiver(k)
  BY <1>1, <1>2 DEF enqueue_batch, Receiver, receive, enqueue_push, enqueue_count, enqueue_post, sending
<1>3. CASE \E t \in Worker : Handler(t)
  BY <1>1, <1>3 DEF Handler, worker_wait, dequeue, worker_take, process, sending
<1>4. CASE inc_incomplete_proposal_cnt
  <2>1. proposer.slot[1] \in Instance
    BY SendTypes, SlotPair
  <2>2. \A i \in Instance : incomplete_proposal_cnt[i] # 0 => incomplete_proposal_cnt'[i] # 0
    BY <1>0, <1>4, <2>1 DEF inc_incomplete_proposal_cnt
  <2>3. expectedInstance \in Instance /\ UNCHANGED <<batcher, expectedInstance>>
    BY <1>4 DEF inc_incomplete_proposal_cnt, TypeOK
  <2>4. QED
    BY <1>0, <2>2, <2>3 DEF FoundInv
<1>5. CASE Proposer /\ ~inc_incomplete_proposal_cnt
  BY <1>1, <1>5 DEF Proposer, proposer_wait, proposer_wait_view, dequeue_proposal, proposer_take,
                    init_txn_man, create_and_send_hotstuff_prepare, sending
<1>6. CASE dequeue_generic
  <2>1. CASE Proposed(expectedInstance)
    BY <1>6, <2>1 DEF dequeue_generic, Proposed, FoundInv
  <2>2. CASE ~Proposed(expectedInstance)
    BY <1>6, <2>2 DEF dequeue_generic, FoundInv
  <2>3. QED
    BY <2>1, <2>2
<1>7. CASE Batcher /\ ~dequeue_generic
  <2>1. batcher \in [at : {"idle", "wait", "scan", "found", "take", "send", "vote"}, slot : Slot]
    BY DEF TypeOK
  <2>2. batcher'.at # "found"
    BY <1>7, <2>1 DEF Batcher, batcher_wait, batcher_wait_view, dec_incomplete_proposal_cnt, batcher_take,
                      send_hotstuff_generic, process_hotstuff_generic_p
  <2>3. QED
    BY <2>2 DEF FoundInv
<1>8. QED
  BY <1>2, <1>3, <1>4, <1>5, <1>6, <1>7 DEF Next
-----------------------------------------------------------------------------
(* Whoever votes in a led view finds the own vote: it is given before the  *)
(* manager is.                                                             *)
LEMMA VoteBatcher ==
  ASSUME TypeOK, Inv, Batcher
  PROVE  VoteInv'
<1>0. /\ batcher \in [at : {"idle", "wait", "scan", "found", "take", "send", "vote"}, slot : Slot]
      /\ voters \in [Slot -> SUBSET Node] /\ generic_out \subseteq Slot
  BY DEF TypeOK
<1>1. VoteInv
  BY DEF Inv
<1>2. CASE batcher_wait \/ batcher_wait_view \/ dequeue_generic \/ dec_incomplete_proposal_cnt \/ batcher_take
  <2>1. UNCHANGED <<voters, generic_out>> /\ batcher.at # "vote"
    BY <1>2 DEF batcher_wait, batcher_wait_view, dequeue_generic, dec_incomplete_proposal_cnt, batcher_take,
                manager, outside
  <2>2. QED
    BY <1>1, <2>1 DEF VoteInv, OwnVoteFirst, Leads
<1>3. CASE send_hotstuff_generic
  <2>1. /\ batcher.at = "send" /\ generic_out' = generic_out \cup {batcher.slot} /\ voters' = voters
        /\ batcher'.at = "vote" /\ batcher'.slot = batcher.slot
    BY <1>0, <1>3 DEF send_hotstuff_generic, manager
  <2>2. QED
    BY <1>1, <2>1 DEF VoteInv, OwnVoteFirst, Leads
<1>4. CASE process_hotstuff_generic_p
  <2>1. /\ batcher.at = "vote" /\ generic_out' = generic_out
        /\ voters' = [voters EXCEPT ![batcher.slot] = voters[batcher.slot] \cup {g_node_id}]
    BY <1>4 DEF process_hotstuff_generic_p, Vote, outside
  <2>2. \A s \in Slot : voters'[s] = IF s = batcher.slot THEN voters[s] \cup {g_node_id} ELSE voters[s]
    BY <1>0, <2>1
  <2>3. QED
    BY <1>0, <1>1, <2>1, <2>2 DEF VoteInv, OwnVoteFirst, Leads
<1>5. QED
  BY <1>2, <1>3, <1>4 DEF Batcher

LEMMA VoteHandler ==
  ASSUME TypeOK, Inv, NEW t \in Worker, Handler(t)
  PROVE  VoteInv'
<1>0. batcher' = batcher /\ generic_out' = generic_out
  BY HandlerFrame
<1>1. VoteInv
  BY DEF Inv
<1>2. CASE worker_wait(t) \/ dequeue(t) \/ worker_take(t)
  <2>1. voters' = voters
    BY <1>2 DEF worker_wait, dequeue, worker_take, manager
  <2>2. QED
    BY <1>0, <1>1, <2>1 DEF VoteInv, OwnVoteFirst, Leads
<1>3. CASE process(t)
  <2>1. Holds(t) /\ worker[t].at = "process"
    BY <1>3 DEF process, Holds
  <2>2. PICK m \in Messages, s \in Slot :
          /\ m = worker[t].msg /\ s = worker[t].msg.slot /\ m \in arrived /\ m.slot = s
    BY <2>1, HeldMessage DEF Inv
  <2>3. PICK S \in SUBSET Node : /\ voters' = [voters EXCEPT ![s] = S] /\ voters[s] \subseteq S
                                 /\ IsPrior(m) => g_node_id \in S
    BY <1>3, <2>2, ProcessStep
  <2>4. \A r \in Slot : voters'[r] = IF r = s THEN S ELSE voters[r]
    <3>1. voters \in [Slot -> SUBSET Node]
      BY DEF TypeOK
    <3>2. QED
      BY <2>3, <3>1
  <2>5. Leads(s) => g_node_id \in voters[s]
    <3>1. SUFFICES ASSUME Leads(s) PROVE g_node_id \in voters[s]
      OBVIOUS
    <3>2. s \in generic_out
      BY <2>2, <3>1 DEF Inv, ArrivedInv
    <3>3. WorkerOwns(t, s)
      BY <2>1, <2>2 DEF WorkerOwns
    <3>4. ~BatcherOwns(s)
      BY <3>3 DEF Inv, OwnerInv
    <3>5. QED
      BY <1>1, <3>2, <3>4 DEF VoteInv, BatcherOwns
  <2>6. generic_out \subseteq Slot
    BY DEF TypeOK
  <2>7. QED
    BY <1>0, <1>1, <2>3, <2>4, <2>5, <2>6 DEF VoteInv, OwnVoteFirst, Leads
<1>4. QED
  BY <1>2, <1>3 DEF Handler

LEMMA VoteNext ==
  ASSUME TypeOK, Inv, Next
  PROVE  VoteInv'
<1>1. CASE enqueue_batch \/ Proposer \/ \E k \in Input : Receiver(k)
  <2>1. UNCHANGED <<generic_out, voters, batcher>>
    BY <1>1, BatchFrame, ProposerFrame, ReceiverFrame
  <2>2. QED
    BY <2>1 DEF Inv, VoteInv, OwnVoteFirst, Leads
<1>2. QED
  BY <1>1, VoteBatcher, VoteHandler DEF Next
-----------------------------------------------------------------------------
LEMMA InitInv == Init => Inv
<1> SUFFICES ASSUME Init PROVE Inv
  OBVIOUS
<1>0. TypeOK
  BY InitType
<1>1. ArrivedInv
  BY DEF Init, ArrivedInv
<1>2. /\ \A k \in Input : input[k].at = "idle"
      /\ \A t \in Worker : worker[t].at = "idle"
      /\ \A t \in Worker : prior_queue[t] = <<>> /\ work_queue[t] = <<>>
      /\ \A i \in Instance : temp_queue[i] = <<>>
  BY DEF Init
<1>3. /\ \A t \in Worker : Range(prior_queue[t]) = {} /\ Range(work_queue[t]) = {} /\ Distinct(prior_queue[t])
      /\ \A i \in Instance : Range(temp_queue[i]) = {} /\ Distinct(temp_queue[i])
  BY <1>2, EmptyQueue
<1>4. RouteInv
  BY <1>2, <1>3 DEF RouteInv, Holds
<1>5. OnceInv
  BY <1>2, <1>3 DEF OnceInv, Once, InInput, InPrior, InTemp, InHand, Pushing, Reading, Holds
<1>6. \A s \in Slot : /\ view[s[1]] = 0 /\ s[2] \in Nat /\ generic_received[s] = FALSE
                      /\ txn_ready[s] = TRUE /\ voters[s] = {}
  BY SlotPair DEF Init
<1>7. ViewInv
  BY <1>2, <1>6 DEF ViewInv, Holds
<1>8. OwnerInv
  <2>1. proposer.at = "idle" /\ batcher.at = "idle"
    BY DEF Init
  <2>2. QED
    BY <1>2, <1>6, <2>1 DEF OwnerInv, ProposerOwns, BatcherOwns, WorkerOwns
<1>9. SendInv
  <2>1. proposer.at = "idle" /\ batcher.at = "idle" /\ generic_out = {}
    BY DEF Init
  <2>2. ASSUME NEW i \in Instance PROVE SendSum(i) /\ SendViews(i) /\ SendSlots(i)
    <3>1. PICK n \in 0 .. (NODE_CNT - 1) : next_send_view[i] = n /\ Leads(<<i, n>>)
      BY FirstLed DEF Init
    <3>2. view[i] = 0 /\ incomplete_proposal_cnt[i] = 0 /\ last_sent_view[i] = 0
      BY DEF Init
    <3>3. n \in Nat /\ n < NODE_CNT
      BY Constants
    <3>4. \A u \in 0 .. n : Leads(<<i, u>>) => u = n
      <4> SUFFICES ASSUME NEW u \in 0 .. n, Leads(<<i, u>>), u < n PROVE FALSE
        BY <3>3
      <4>1. u \in Nat
        BY <3>3
      <4>2. u + NODE_CNT <= n
        BY <3>1, <3>3, <4>1, LedApart
      <4>3. QED
        BY <3>3, <4>1, <4>2, Constants
    <3>5. ~InProposal(i)
      <4>1. SUFFICES ASSUME Leads(<<i, 0>>), 0 < n PROVE FALSE
        BY <3>1, <3>2 DEF InProposal
      <4>2. QED
        BY <3>3, <3>4, <4>1
    <3>6. ~Proposing(i) /\ ~Sending(i) /\ ~Out(i)
      BY <2>1 DEF Proposing, Sending, Out
    <3>7. QED
      BY <3>1, <3>2, <3>3, <3>4, <3>5, <3>6 DEF SendSum, SendViews, SendSlots
  <2>3. SendOut
    BY <1>6, <2>1 DEF SendOut
  <2>4. QED
    BY <2>2, <2>3, SendParts
<1>10. VoteInv
  BY <1>6 DEF VoteInv, OwnVoteFirst, Init
<1>11. FoundInv
  BY DEF FoundInv, Init
<1>12. QED
  BY <1>1, <1>4, <1>5, <1>7, <1>8, <1>9, <1>10, <1>11 DEF Inv

LEMMA NextInv ==
  ASSUME TypeOK, Inv, [Next]_vars
  PROVE  Inv'
<1>1. CASE Next
  BY <1>1, ArrivedNext, RouteNext, OnceNext, ViewNext, OwnerNext, SendNext, FoundNext, VoteNext DEF Inv
<1>2. CASE UNCHANGED vars
  <2>1. UNCHANGED <<view, next_send_view, last_sent_view, incomplete_proposal_cnt, prior_queue, work_queue,
                    temp_queue, txn_ready, voters, generic_received, proposer, batcher, worker, input,
                    generic_out, arrived, expectedInstance>>
    BY <1>2 DEF vars, sending, queues, manager, outside
  <2>2. ArrivedInv' /\ RouteInv'
    BY <2>1 DEF Inv, ArrivedInv, RouteInv, Holds
  <2>3. OnceInv'
    BY <2>1 DEF Inv, OnceInv, Once, InInput, InPrior, InTemp, InHand, Pushing, Reading, Holds
  <2>4. ViewInv' /\ OwnerInv'
    BY <2>1 DEF Inv, ViewInv, Holds, OwnerInv, ProposerOwns, BatcherOwns, WorkerOwns
  <2>5. SendInv'
    BY <2>1 DEF Inv, SendInv, Proposing, Sending, InProposal, Out
  <2>6. FoundInv' /\ VoteInv'
    BY <2>1 DEF Inv, FoundInv, VoteInv, OwnVoteFirst
  <2>7. QED
    BY <2>2, <2>3, <2>4, <2>5, <2>6 DEF Inv
<1>3. QED
  BY <1>1, <1>2

LEMMA InvHolds == Spec => [](TypeOK /\ Inv)
<1>1. Init => TypeOK /\ Inv
  BY InitType, InitInv
<1>2. (TypeOK /\ Inv) /\ [Next]_vars => (TypeOK /\ Inv)'
  BY NextType, NextInv
<1>3. QED
  BY <1>1, <1>2, PTL DEF Spec
-----------------------------------------------------------------------------
(* Every variable keeps its type: no semaphore and no counter is taken     *)
(* below zero, no view goes beyond the last, for any number of threads     *)
(* and instances.                                                          *)
THEOREM TypeCorrect == Spec => []TypeOK
<1>1. TypeOK /\ Inv => TypeOK
  OBVIOUS
<1>2. QED
  BY InvHolds, <1>1, PTL

(* A GENERIC_MSG_P never finds its manager taken: only a thread that works *)
(* on a message of its slot could have it, and there is none before the    *)
(* GENERIC is out.                                                         *)
THEOREM GenericNeverQueued == Spec => []GenericStays
<1>1. TypeOK /\ Inv => GenericStays
  <2> SUFFICES ASSUME Inv, NEW t \in Worker, NEW m \in Range(work_queue[t]) PROVE m.rtype # "GENERIC_P"
    BY DEF GenericStays
  <2>1. m \in arrived
    BY DEF Inv, RouteInv
  <2>2. QED
    BY <2>1 DEF Inv, ArrivedInv
<1>2. QED
  BY InvHolds, <1>1, PTL

(* In a led view no vote is counted before the replica's own: the manager  *)
(* of the slot is kept from before the GENERIC is sent until the vote of   *)
(* the batch thread is counted.                                            *)
THEOREM OwnVoteIsFirst == Spec => []OwnVoteFirst
<1>1. TypeOK /\ Inv => OwnVoteFirst
  BY DEF Inv, VoteInv
<1>2. QED
  BY InvHolds, <1>1, PTL

(* The GENERIC the batch thread builds from its separate reads is that of  *)
(* the view the instance is in: a proposal counted for it keeps the view   *)
(* and last_sent_view where they are until its GENERIC is out.             *)
THEOREM GenericForItsView == Spec => []GenericOfView
<1>1. TypeOK /\ Inv => GenericOfView
  <2> SUFFICES ASSUME TypeOK, Inv, batcher.at \in {"take", "send"}
               PROVE  LET s == batcher.slot IN Leads(s) /\ s[2] = view[s[1]] /\ s \notin generic_out
    BY DEF GenericOfView
  <2>1. PICK i \in Instance : i = batcher.slot[1]
    BY SendTypes, SlotPair
  <2>2. Sending(i)
    BY <2>1 DEF Sending
  <2>3. batcher.slot = <<i, view[i]>> /\ InProposal(i) /\ ~Out(i)
    BY <2>2, SendingSlot DEF Inv
  <2>4. QED
    BY <2>3 DEF InProposal, Out
<1>2. QED
  BY InvHolds, <1>1, PTL
-----------------------------------------------------------------------------
(* The tokens of the instance threads. *)
LEMMA TokenTypes ==
  ASSUME TypeOK, NEW t \in Worker
  PROVE  /\ worker_queue_semaphore[t] \in Nat /\ prior_cnt[t] \in Nat
         /\ PriorLen(t) \in Nat /\ WorkLen(t) \in Nat
         /\ Awake(t) \in {0, 1}
         /\ IsFiniteSet(Posting(t)) /\ Posts(t) \in Nat
         /\ IsFiniteSet(Counting(t)) /\ Uncounted(t) \in Nat
<1>1. /\ worker_queue_semaphore \in [0 .. BatchSem -> Nat] /\ prior_cnt \in [Worker -> Nat]
      /\ prior_queue \in [Worker -> Seq(Messages)] /\ work_queue \in [Worker -> Seq(Messages)]
  BY DEF TypeOK
<1>2. Posting(t) \in SUBSET Input /\ Counting(t) \in SUBSET Input
  BY DEF Posting, Counting
<1>3. IsFiniteSet(Posting(t)) /\ IsFiniteSet(Counting(t))
  BY <1>2, Constants, FS_Subset
<1>4. Posts(t) \in Nat /\ Uncounted(t) \in Nat
  BY <1>3, FS_CardinalityType DEF Posts, Uncounted
<1>5. QED
  BY <1>1, <1>3, <1>4, SemType DEF Awake, In, PriorLen, WorkLen

LEMMA PostTokens ==
  ASSUME TypeOK, NEW t \in Worker, post(t), NEW u \in Worker
  PROVE  worker_queue_semaphore'[u] = IF u = t THEN worker_queue_semaphore[u] + 1 ELSE worker_queue_semaphore[u]
<1>1. worker_queue_semaphore \in [0 .. BatchSem -> Nat]
  BY DEF TypeOK
<1>2. QED
  BY <1>1, SemType DEF post

LEMMA CountTokens ==
  ASSUME TypeOK, NEW t \in Worker, NEW n, prior_cnt' = [prior_cnt EXCEPT ![t] = n], NEW u \in Worker
  PROVE  prior_cnt'[u] = IF u = t THEN n ELSE prior_cnt[u]
<1>1. prior_cnt \in [Worker -> Nat]
  BY DEF TypeOK
<1>2. QED
  BY <1>1

LEMMA TokenReceiver ==
  ASSUME TypeOK, Inv, TokenInv, NEW k \in Input, Receiver(k), NEW t \in Worker
  PROVE  Tokens(t)' /\ Counts(t)'
<1>0. /\ Tokens(t) /\ Counts(t) /\ worker' = worker
      /\ Awake(t)' = Awake(t)
  BY ReceiverFrame DEF TokenInv, Awake
<1>9. /\ worker_queue_semaphore[t] \in Nat /\ prior_cnt[t] \in Nat
      /\ PriorLen(t) \in Nat /\ WorkLen(t) \in Nat
      /\ Awake(t) \in {0, 1}
      /\ Posts(t) \in Nat /\ Uncounted(t) \in Nat
  BY TokenTypes
<1>1. input \in [Input -> [at : {"idle", "push", "count", "post"}, msg : Messages]]
  BY DEF TypeOK
<1>2. PICK m \in Messages : m = input[k].msg
  BY <1>1
<1>3. PICK w \in Worker : w = Thread(m.slot[1])
  BY ThreadWorker DEF Messages, Slot
<1>4. CASE receive(k)
  <2>1. UNCHANGED <<worker_queue_semaphore, prior_queue, prior_cnt, work_queue>>
    BY <1>4 DEF receive, sems, queues
  <2>2. \A j \in Input : input'[j] = input[j] \/ (input'[j].at = "push" /\ input[j].at = "idle")
    <3>1. PICK x \in Messages : input' = [input EXCEPT ![k] = [at |-> "push", msg |-> x]]
      BY <1>4 DEF receive
    <3>2. input'[k].at = "push" /\ input[k].at = "idle" /\ \A j \in Input : j # k => input'[j] = input[j]
      BY <1>1, <1>4, <3>1 DEF receive
    <3>3. QED
      BY <3>2
  <2>3. Posting(t)' = Posting(t) /\ Counting(t)' = Counting(t)
    BY <2>2 DEF Posting, Counting
  <2>4. UNCHANGED <<Posts(t), Uncounted(t), PriorLen(t), WorkLen(t)>>
    BY <2>1, <2>3 DEF Posts, Uncounted, PriorLen, WorkLen
  <2>5. QED
    BY <1>0, <2>1, <2>4 DEF Tokens, Counts
<1>5. CASE enqueue_push(k)
  <2>1. UNCHANGED <<worker_queue_semaphore, prior_cnt>> /\ input[k].at = "push" /\ push(m)
        /\ input' = [input EXCEPT ![k].at = AfterPush(m)]
    BY <1>2, <1>5 DEF enqueue_push, sems
  <2>2. /\ input'[k].at = AfterPush(m) /\ input'[k].msg = m
        /\ \A j \in Input : j # k => input'[j] = input[j]
    BY <1>2, <2>1, InputMoves
  <2>3. PushesOnto(m, t)
    BY <2>1, PushQueues
  <2>4. Posting(t)' = IF t = w THEN Posting(t) \cup {k} ELSE Posting(t)
    BY <1>3, <2>1, <2>2 DEF Posting, AfterPush
  <2>5. Counting(t)' = IF t = w /\ IsPrior(m) THEN Counting(t) \cup {k} ELSE Counting(t)
    BY <1>3, <2>1, <2>2 DEF Counting, AfterPush
  <2>6. k \notin Posting(t) /\ k \notin Counting(t)
    BY <2>1 DEF Posting, Counting
  <2>7. /\ Cardinality(Posting(t) \cup {k}) = Posts(t) + 1
        /\ Cardinality(Counting(t) \cup {k}) = Uncounted(t) + 1
    BY <2>6, TokenTypes, FS_AddElement DEF Posts, Uncounted
  <2>8. /\ PriorLen(t)' = IF t = w /\ IsPrior(m) THEN PriorLen(t) + 1 ELSE PriorLen(t)
        /\ WorkLen(t)' = IF t = w /\ ~IsPrior(m) THEN WorkLen(t) + 1 ELSE WorkLen(t)
    BY <1>3, <2>3 DEF PushesOnto, PriorLen, WorkLen
  <2>9. /\ Posts(t)' = IF t = w THEN Posts(t) + 1 ELSE Posts(t)
        /\ Uncounted(t)' = IF t = w /\ IsPrior(m) THEN Uncounted(t) + 1 ELSE Uncounted(t)
    BY <2>4, <2>5, <2>7 DEF Posts, Uncounted
  <2>10. QED
    BY <1>0, <2>1, <2>8, <2>9, <1>9 DEF Tokens, Counts
<1>6. CASE enqueue_count(k)
  <2>1. /\ input[k].at = "count" /\ prior_cnt' = [prior_cnt EXCEPT ![w] = prior_cnt[w] + 1]
        /\ input' = [input EXCEPT ![k].at = "post"]
        /\ UNCHANGED <<worker_queue_semaphore, prior_queue, work_queue>>
    BY <1>2, <1>3, <1>6 DEF enqueue_count, sems
  <2>2. /\ input'[k].at = "post" /\ input'[k].msg = m
        /\ \A j \in Input : j # k => input'[j] = input[j]
    BY <1>2, <2>1, InputMoves
  <2>3. Posting(t)' = Posting(t) /\ Counting(t)' = IF t = w THEN Counting(t) \ {k} ELSE Counting(t)
    BY <1>2, <1>3, <2>1, <2>2 DEF Posting, Counting
  <2>4. t = w => k \in Counting(t)
    BY <1>2, <1>3, <2>1 DEF Counting
  <2>5. Uncounted(t)' = IF t = w THEN Uncounted(t) - 1 ELSE Uncounted(t)
    BY <2>3, <2>4, TokenTypes, FS_RemoveElement DEF Uncounted
  <2>8. UNCHANGED <<Posts(t), PriorLen(t), WorkLen(t)>>
    BY <2>1, <2>3 DEF Posts, PriorLen, WorkLen
  <2>6. prior_cnt'[t] = IF t = w THEN prior_cnt[t] + 1 ELSE prior_cnt[t]
    BY <2>1, CountTokens, ZenonT(60)
  <2>7. QED
    BY <1>0, <1>9, <2>1, <2>5, <2>6, <2>8 DEF Tokens, Counts
<1>7. CASE enqueue_post(k)
  <2>1. /\ input[k].at = "post" /\ post(w)
        /\ input' = [input EXCEPT ![k].at = "idle", ![k].msg = NoMsg]
        /\ UNCHANGED <<prior_cnt, prior_queue, work_queue>>
    BY <1>2, <1>3, <1>7 DEF enqueue_post, queues
  <2>2. input'[k].at = "idle" /\ \A j \in Input : j # k => input'[j] = input[j]
    BY <1>1, <2>1
  <2>3. Counting(t)' = Counting(t) /\ Posting(t)' = IF t = w THEN Posting(t) \ {k} ELSE Posting(t)
    BY <1>2, <1>3, <2>1, <2>2 DEF Posting, Counting
  <2>4. t = w => k \in Posting(t)
    BY <1>2, <1>3, <2>1 DEF Posting
  <2>5. Posts(t)' = IF t = w THEN Posts(t) - 1 ELSE Posts(t)
    BY <2>3, <2>4, TokenTypes, FS_RemoveElement DEF Posts
  <2>8. UNCHANGED <<Uncounted(t), PriorLen(t), WorkLen(t)>>
    BY <2>1, <2>3 DEF Uncounted, PriorLen, WorkLen
  <2>6. worker_queue_semaphore'[t] = IF t = w THEN worker_queue_semaphore[t] + 1 ELSE worker_queue_semaphore[t]
    BY <2>1, PostTokens
  <2>7. QED
    BY <1>0, <1>9, <2>1, <2>5, <2>6, <2>8 DEF Tokens, Counts
<1>8. QED
  BY <1>4, <1>5, <1>6, <1>7 DEF Receiver

LEMMA TokenHandler ==
  ASSUME TypeOK, Inv, TokenInv, NEW t \in Worker, Handler(t), NEW u \in Worker
  PROVE  Tokens(u)' /\ Counts(u)'
<1>0. /\ Tokens(u) /\ Counts(u)
      /\ Posts(u)' = Posts(u) /\ Uncounted(u)' = Uncounted(u)
  BY HandlerFrame DEF TokenInv, Posts, Uncounted, Posting, Counting
<1>1. worker_queue_semaphore \in [0 .. BatchSem -> Nat] /\ prior_cnt \in [Worker -> Nat]
      /\ prior_queue \in [Worker -> Seq(Messages)] /\ work_queue \in [Worker -> Seq(Messages)]
      /\ temp_queue \in [Instance -> Seq(Messages)]
      /\ worker \in [Worker -> [at : {"idle", "awake", "take", "process"}, msg : Messages]]
  BY DEF TypeOK
<1>9. /\ worker_queue_semaphore[u] \in Nat /\ prior_cnt[u] \in Nat
      /\ PriorLen(u) \in Nat /\ WorkLen(u) \in Nat
      /\ Awake(u) \in {0, 1}
      /\ Posts(u) \in Nat /\ Uncounted(u) \in Nat
  BY TokenTypes
<1>2. CASE worker_wait(t)
  <2>1. /\ worker[t].at = "idle" /\ worker' = [worker EXCEPT ![t].at = "awake"]
        /\ worker_queue_semaphore' = [worker_queue_semaphore EXCEPT ![t] = @ - 1]
        /\ UNCHANGED <<prior_queue, prior_cnt, work_queue>>
    BY <1>2 DEF worker_wait, queues
  <2>2. worker_queue_semaphore'[u] = IF u = t THEN worker_queue_semaphore[u] - 1 ELSE worker_queue_semaphore[u]
    BY <1>1, <2>1, SemType
  <2>3. /\ u = t => Awake(u) = 0 /\ Awake(u)' = 1
        /\ u # t => Awake(u)' = Awake(u)
    BY <2>1, WorkerMoves DEF Awake, In
  <2>4. UNCHANGED <<PriorLen(u), WorkLen(u)>>
    BY <2>1 DEF PriorLen, WorkLen
  <2>5. QED
    BY <1>0, <1>9, <2>1, <2>2, <2>3, <2>4 DEF Tokens, Counts
<1>3. CASE dequeue(t)
  <2>0. worker[t].at = "awake"
    BY <1>3 DEF dequeue
  <2>1. CASE /\ UNCHANGED <<prior_queue, prior_cnt, work_queue>> /\ post(t)
             /\ worker' = [worker EXCEPT ![t].at = "idle"]
    <3>1. worker_queue_semaphore'[u] = IF u = t THEN worker_queue_semaphore[u] + 1 ELSE worker_queue_semaphore[u]
      BY <2>1, PostTokens
    <3>2. /\ u = t => Awake(u) = 1 /\ Awake(u)' = 0
          /\ u # t => Awake(u)' = Awake(u)
      BY <2>0, <2>1, WorkerMoves DEF Awake, In
    <3>3. UNCHANGED <<PriorLen(u), WorkLen(u)>>
      BY <2>1 DEF PriorLen, WorkLen
    <3>4. QED
      BY <1>0, <1>9, <2>1, <3>1, <3>2, <3>3 DEF Tokens, Counts
  <2>2. ASSUME NEW m \in Messages, Got(t, m),
               \/ /\ prior_queue' = [prior_queue EXCEPT ![t] = Tail(prior_queue[t])]
                  /\ prior_cnt' = [prior_cnt EXCEPT ![t] = prior_cnt[t] - 1]
                  /\ Len(Tail(prior_queue[t])) = Len(prior_queue[t]) - 1
                  /\ UNCHANGED work_queue
               \/ /\ work_queue' = [work_queue EXCEPT ![t] = Tail(work_queue[t])]
                  /\ Len(Tail(work_queue[t])) = Len(work_queue[t]) - 1
                  /\ UNCHANGED <<prior_queue, prior_cnt>>
        PROVE  Tokens(u)' /\ Counts(u)'
    <3>1. worker_queue_semaphore' = worker_queue_semaphore
      BY <2>2 DEF Got
    <3>2. GotWorker(t, m, u)
      BY <2>2, GotQueues
    <3>3. /\ u = t => Awake(u) = 1 /\ Awake(u)' = 0
          /\ u # t => Awake(u)' = Awake(u)
      BY <2>0, <3>2 DEF GotWorker, Awake, In
    <3>4. CASE /\ prior_queue' = [prior_queue EXCEPT ![t] = Tail(prior_queue[t])]
               /\ prior_cnt' = [prior_cnt EXCEPT ![t] = prior_cnt[t] - 1]
               /\ Len(Tail(prior_queue[t])) = Len(prior_queue[t]) - 1
               /\ UNCHANGED work_queue
      <4>1. /\ prior_cnt'[u] = IF u = t THEN prior_cnt[u] - 1 ELSE prior_cnt[u]
            /\ PriorLen(u)' = IF u = t THEN PriorLen(u) - 1 ELSE PriorLen(u)
            /\ WorkLen(u)' = WorkLen(u)
        BY <1>1, <3>4 DEF PriorLen, WorkLen
      <4>2. QED
        BY <1>0, <1>9, <3>1, <3>3, <4>1 DEF Tokens, Counts
    <3>5. CASE /\ work_queue' = [work_queue EXCEPT ![t] = Tail(work_queue[t])]
               /\ Len(Tail(work_queue[t])) = Len(work_queue[t]) - 1
               /\ UNCHANGED <<prior_queue, prior_cnt>>
      <4>1. /\ WorkLen(u)' = IF u = t THEN WorkLen(u) - 1 ELSE WorkLen(u)
            /\ PriorLen(u)' = PriorLen(u) /\ prior_cnt'[u] = prior_cnt[u]
        BY <1>1, <3>5 DEF PriorLen, WorkLen
      <4>2. QED
        BY <1>0, <1>9, <3>1, <3>3, <4>1 DEF Tokens, Counts
    <3>6. QED
      BY <2>2, <3>4, <3>5
  <2>3. QED
    BY <1>3, <2>1, <2>2, DequeueQueues
<1>4. CASE worker_take(t) /\ txn_ready[worker[t].msg.slot]
  <2>1. /\ worker[t].at = "take" /\ worker' = [worker EXCEPT ![t].at = "process"]
        /\ UNCHANGED <<prior_queue, prior_cnt, work_queue, worker_queue_semaphore>>
    BY <1>4 DEF worker_take
  <2>2. Awake(u)' = Awake(u)
    BY <2>1, WorkerMoves DEF Awake, In
  <2>3. UNCHANGED <<PriorLen(u), WorkLen(u)>>
    BY <2>1 DEF PriorLen, WorkLen
  <2>4. QED
    BY <1>0, <2>1, <2>2, <2>3 DEF Tokens, Counts
<1>5. CASE worker_take(t) /\ ~txn_ready[worker[t].msg.slot]
  <2>1. PICK m \in Messages : m = worker[t].msg
    BY <1>1
  <2>2. PICK w \in Worker : w = Thread(m.slot[1])
    BY ThreadWorker DEF Messages, Slot
  <2>3. /\ worker[t].at = "take" /\ worker' = [worker EXCEPT ![t] = [at |-> "idle", msg |-> NoMsg]]
        /\ push(m) /\ post(w)
        /\ prior_cnt' = IF IsPrior(m) THEN [prior_cnt EXCEPT ![w] = prior_cnt[w] + 1] ELSE prior_cnt
    BY <1>5, <2>1, <2>2 DEF worker_take, put_back
  <2>4. Awake(u)' = Awake(u)
    BY <2>3, WorkerEnds DEF Awake, In
  <2>5. worker_queue_semaphore'[u] = IF u = w THEN worker_queue_semaphore[u] + 1 ELSE worker_queue_semaphore[u]
    BY <2>3, PostTokens
  <2>6. prior_cnt'[u] = IF u = w /\ IsPrior(m) THEN prior_cnt[u] + 1 ELSE prior_cnt[u]
    BY <1>1, <2>3
  <2>7. PushesOnto(m, u)
    BY <2>3, PushQueues
  <2>8. /\ PriorLen(u)' = IF u = w /\ IsPrior(m) THEN PriorLen(u) + 1 ELSE PriorLen(u)
        /\ WorkLen(u)' = IF u = w /\ ~IsPrior(m) THEN WorkLen(u) + 1 ELSE WorkLen(u)
    BY <2>2, <2>7 DEF PushesOnto, PriorLen, WorkLen
  <2>9. QED
    BY <1>0, <2>4, <2>5, <2>6, <2>8, <1>9 DEF Tokens, Counts
<1>6. CASE process(t)
  <2>1. PICK e \in Instance : e = worker[t].msg.slot[1]
    BY <1>1 DEF Messages, Slot
  <2>2. /\ UNCHANGED <<prior_queue, prior_cnt, worker_queue_semaphore>> \/ advance_view(e)
        /\ worker' = [worker EXCEPT ![t] = [at |-> "idle", msg |-> NoMsg]] /\ work_queue' = work_queue
    BY <1>6, <2>1, ProcessStep DEF sems
  <2>3. worker[t].at = "process"
    BY <1>6 DEF process
  <2>4. Awake(u)' = Awake(u)
    BY <2>2, <2>3, WorkerEnds DEF Awake, In
  <2>5. CASE UNCHANGED <<prior_queue, prior_cnt, worker_queue_semaphore>>
    BY <1>0, <2>2, <2>4, <2>5 DEF Tokens, Counts, PriorLen, WorkLen
  <2>6. CASE advance_view(e)
    <3>1. PICK w \in Worker : w = Thread(e)
      BY ThreadWorker
    <3>2. PICK n \in Nat : n = Len(temp_queue[e])
      BY <1>1
    <3>3. /\ prior_cnt' = [prior_cnt EXCEPT ![w] = prior_cnt[w] + n]
          /\ worker_queue_semaphore' = [worker_queue_semaphore EXCEPT ![w] = worker_queue_semaphore[w] + n]
      BY <2>6, <3>1, <3>2 DEF advance_view
    <3>4. /\ prior_cnt'[u] = IF u = w THEN prior_cnt[u] + n ELSE prior_cnt[u]
          /\ worker_queue_semaphore'[u] = IF u = w THEN worker_queue_semaphore[u] + n ELSE worker_queue_semaphore[u]
      BY <1>1, <3>3, SemType
    <3>5. Unparks(e, u)
      BY <2>6, AdvanceQueues
    <3>6. PriorLen(u)' = IF u = w THEN PriorLen(u) + n ELSE PriorLen(u)
      BY <3>1, <3>2, <3>5 DEF Unparks, PriorLen
    <3>7. WorkLen(u)' = WorkLen(u)
      BY <2>2 DEF WorkLen
    <3>8. QED
      BY <1>0, <1>9, <2>4, <3>4, <3>6, <3>7 DEF Tokens, Counts
  <2>7. QED
    BY <2>2, <2>5, <2>6
<1>7. QED
  BY <1>2, <1>3, <1>4, <1>5, <1>6 DEF Handler

LEMMA TokenNext ==
  ASSUME TypeOK, Inv, TokenInv, [Next]_vars
  PROVE  TokenInv'
<1> SUFFICES ASSUME NEW t \in Worker PROVE Tokens(t)' /\ Counts(t)'
  BY DEF TokenInv
<1>0. Tokens(t) /\ Counts(t)
  BY DEF TokenInv
<1>1. CASE enqueue_batch \/ Proposer \/ Batcher \/ UNCHANGED vars
  <2>1. UNCHANGED <<prior_queue, prior_cnt, work_queue, worker, input>>
    BY <1>1, BatchFrame, ProposerFrame, BatcherFrame DEF vars, queues
  <2>2. worker_queue_semaphore'[t] = worker_queue_semaphore[t]
    <3>1. worker_queue_semaphore \in [0 .. BatchSem -> Nat]
      BY DEF TypeOK
    <3>2. CASE enqueue_batch \/ proposer_wait \/ batcher_wait
      BY <3>1, <3>2, SemType DEF enqueue_batch, proposer_wait, batcher_wait
    <3>3. CASE batcher_take
      <4>1. txn_ready[batcher.slot]
        BY <3>3, BatcherFinds DEF batcher_take
      <4>2. QED
        BY <3>3, <4>1 DEF batcher_take
    <3>4. CASE \/ proposer_wait_view \/ dequeue_proposal \/ proposer_take \/ init_txn_man
               \/ create_and_send_hotstuff_prepare \/ inc_incomplete_proposal_cnt
      BY <3>4 DEF proposer_wait_view, dequeue_proposal, proposer_take, init_txn_man,
                  create_and_send_hotstuff_prepare, inc_incomplete_proposal_cnt, sems
    <3>5. CASE \/ batcher_wait_view \/ dequeue_generic \/ dec_incomplete_proposal_cnt
               \/ send_hotstuff_generic \/ process_hotstuff_generic_p \/ UNCHANGED vars
      BY <3>5 DEF batcher_wait_view, dequeue_generic, dec_incomplete_proposal_cnt, send_hotstuff_generic,
                  process_hotstuff_generic_p, sems, vars
    <3>6. QED
      BY <1>1, <3>2, <3>3, <3>4, <3>5 DEF Proposer, Batcher
  <2>3. UNCHANGED <<Posts(t), Uncounted(t), Awake(t), PriorLen(t), WorkLen(t)>>
    BY <2>1 DEF Posts, Uncounted, Posting, Counting, Awake, PriorLen, WorkLen
  <2>4. QED
    BY <1>0, <2>1, <2>2, <2>3 DEF Tokens, Counts
<1>2. QED
  BY <1>1, TokenReceiver, TokenHandler DEF Next

LEMMA InitToken == Init => TokenInv
<1> SUFFICES ASSUME Init, NEW t \in Worker PROVE Tokens(t) /\ Counts(t)
  BY DEF TokenInv
<1>1. /\ worker_queue_semaphore[t] = 0 /\ prior_cnt[t] = 0 /\ worker[t].at = "idle"
      /\ prior_queue[t] = <<>> /\ work_queue[t] = <<>>
  BY SemType DEF Init
<1>2. Posting(t) = {} /\ Counting(t) = {}
  BY DEF Init, Posting, Counting
<1>3. Awake(t) = 0
  BY <1>1 DEF Awake, In
<1>4. QED
  BY <1>1, <1>2, <1>3, FS_EmptySet DEF Tokens, Counts, Posts, Uncounted, PriorLen, WorkLen

(* A thread that is awake finds a message: a token was left by whoever put *)
(* one in, after it and after its count, so the messages that are not      *)
(* counted yet do not make up for one that was taken.                      *)
THEOREM AwakeFindsMessage == Spec => []TokenFindsMessage
<1>1. Init => TypeOK /\ Inv /\ TokenInv
  BY InitType, InitInv, InitToken
<1>2. (TypeOK /\ Inv /\ TokenInv) /\ [Next]_vars => (TypeOK /\ Inv /\ TokenInv)'
  BY NextType, NextInv, TokenNext
<1>3. TypeOK /\ Inv /\ TokenInv => TokenFindsMessage
  <2> SUFFICES ASSUME TypeOK, Inv, TokenInv, NEW t \in Worker, worker[t].at = "awake", ~PriorVisible(t)
               PROVE  work_queue[t] # <<>>
    BY DEF TokenFindsMessage
  <2>1. Tokens(t) /\ Counts(t)
    BY DEF TokenInv
  <2>9. /\ worker_queue_semaphore[t] \in Nat /\ prior_cnt[t] \in Nat
        /\ PriorLen(t) \in Nat /\ WorkLen(t) \in Nat
        /\ Awake(t) \in {0, 1}
        /\ Posts(t) \in Nat /\ Uncounted(t) \in Nat
    BY TokenTypes
  <2>2. Awake(t) = 1
    BY DEF Awake, In
  <2>3. Counting(t) \in SUBSET Posting(t)
    BY DEF Counting, Posting
  <2>4. Uncounted(t) <= Posts(t)
    BY <2>3, TokenTypes, FS_Subset DEF Posts, Uncounted
  <2>5. prior_cnt[t] = 0 \/ prior_queue[t] = <<>>
    BY TokenTypes DEF PriorVisible
  <2>6. PriorLen(t) <= Posts(t)
    <3>1. prior_queue[t] = <<>> => PriorLen(t) = 0
      BY DEF PriorLen
    <3>2. QED
      BY <2>1, <2>4, <2>5, <3>1, <2>9 DEF Counts
  <2>7. WorkLen(t) > 0
    BY <2>1, <2>2, <2>6, <2>9 DEF Tokens
  <2>8. QED
    BY <2>7 DEF WorkLen
<1>4. QED
  BY <1>1, <1>2, <1>3, PTL DEF Spec
-----------------------------------------------------------------------------
(* The tokens of the sending threads. *)
ToPropose  == {i \in Instance : Leads(<<i, view[i]>>) /\ next_send_view[i] <= view[i]}
ToSend     == {i \in Instance : Leads(<<i, view[i]>>) /\ <<i, view[i]>> \notin generic_out}
Batches    == Total(clb_cnt)
Views      == Cardinality(ToPropose)
Generics   == Cardinality(ToSend)
BatchTaken == In(proposer, {"wait", "scan"})
ViewTaken  == In(proposer, {"scan"})
NewTaken   == In(batcher, {"scan", "found"})
InBatcher  == In(batcher, {"take", "send"})
ProposalTokens == worker_queue_semaphore[ProposalSem]

LEMMA SendingParts ==
  /\ SendingTokens <=> /\ ProposalTokens + BatchTaken = Batches
                       /\ proposal_semaphore + ViewTaken = Views
                       /\ new_txn_semaphore + NewTaken = Generics - InBatcher
  /\ SendingTokens' <=> /\ ProposalTokens' + BatchTaken' = Batches'
                        /\ proposal_semaphore' + ViewTaken' = Views'
                        /\ new_txn_semaphore' + NewTaken' = Generics' - InBatcher'
<1>1. /\ {i \in Led : next_send_view[i] <= view[i]} = ToPropose
      /\ {i \in Led : <<i, view[i]>> \notin generic_out} = ToSend
  BY DEF Led, ToPropose, ToSend
<1>2. /\ {i \in Led : next_send_view[i] <= view[i]}' = ToPropose'
      /\ {i \in Led : <<i, view[i]>> \notin generic_out}' = ToSend'
  BY DEF Led, ToPropose, ToSend
<1>3. QED
  BY <1>1, <1>2 DEF SendingTokens, ProposalTokens, BatchTaken, Batches, ViewTaken, Views, NewTaken, Generics, InBatcher

LEMMA SendingTypes ==
  ASSUME TypeOK
  PROVE  /\ IsFiniteSet(ToPropose) /\ IsFiniteSet(ToSend)
         /\ Batches \in Nat /\ Views \in Nat /\ Generics \in Nat
         /\ ProposalTokens \in Nat /\ proposal_semaphore \in Nat /\ new_txn_semaphore \in Nat
         /\ BatchTaken \in {0, 1} /\ ViewTaken \in {0, 1} /\ NewTaken \in {0, 1} /\ InBatcher \in {0, 1}
<1>1. IsFiniteSet(Instance)
  BY Constants, FS_Interval DEF Instance
<1>2. ToPropose \in SUBSET Instance /\ ToSend \in SUBSET Instance
  BY DEF ToPropose, ToSend
<1>3. IsFiniteSet(ToPropose) /\ IsFiniteSet(ToSend)
  BY <1>1, <1>2, FS_Subset
<1>4. Batches \in Nat /\ Views \in Nat /\ Generics \in Nat
  <2>1. clb_cnt \in [Instance -> Nat]
    BY DEF TypeOK
  <2>2. QED
    BY <1>1, <1>3, <2>1, UnitsFinite, FS_CardinalityType DEF Batches, Views, Generics
<1>5. /\ worker_queue_semaphore \in [0 .. BatchSem -> Nat]
      /\ new_txn_semaphore \in Nat /\ proposal_semaphore \in Nat
  BY DEF TypeOK
<1>6. QED
  BY <1>3, <1>4, <1>5, SemType DEF ProposalTokens, BatchTaken, ViewTaken, NewTaken, InBatcher, In

(* A batch that is added to a queue, one that is taken from it. *)
LEMMA BatchQueues ==
  ASSUME TypeOK
  PROVE  clb_cnt \in [Instance -> Nat] /\ IsFiniteSet(Instance)
<1>1. IsFiniteSet(Instance)
  BY Constants, FS_Interval DEF Instance
<1>2. QED
  BY <1>1 DEF TypeOK

LEMMA QueuedMore ==
  ASSUME TypeOK, NEW q \in Instance, clb_cnt' = [clb_cnt EXCEPT ![q] = clb_cnt[q] + 1]
  PROVE  Batches' = Batches + 1
<1>1. clb_cnt \in [Instance -> Nat] /\ IsFiniteSet(Instance)
  BY BatchQueues
<1>2. QED
  BY <1>1, TotalMore DEF Batches

LEMMA QueuedLess ==
  ASSUME TypeOK, NEW q \in Instance, clb_cnt[q] > 0, clb_cnt' = [clb_cnt EXCEPT ![q] = clb_cnt[q] - 1]
  PROVE  Batches' = Batches - 1
<1>1. clb_cnt \in [Instance -> Nat] /\ IsFiniteSet(Instance)
  BY BatchQueues
<1>2. QED
  BY <1>1, TotalLess DEF Batches

(* The tokens at the start: one for each instance whose first view is led, *)
(* and that is the one numbered like the replica.                          *)
LEMMA InitSending == Init => SendingTokens
<1> SUFFICES ASSUME Init PROVE SendingTokens
  OBVIOUS
<1>1. ProposalTokens = 0 /\ BatchTaken = 0 /\ ViewTaken = 0 /\ NewTaken = 0 /\ InBatcher = 0
  BY SemType DEF Init, ProposalTokens, BatchTaken, ViewTaken, NewTaken, InBatcher, In
<1>2. Total(clb_cnt) = 0
  <2>1. clb_cnt \in [Instance -> Nat] /\ (\A i \in Instance : clb_cnt[i] = 0)
    BY DEF Init
  <2>2. IsFiniteSet(Instance)
    BY Constants, FS_Interval DEF Instance
  <2>3. QED
    BY <2>1, <2>2, TotalZero
<1>3. ToPropose = {i \in Instance : Leads(<<i, 0>>)}
  <2> SUFFICES ASSUME NEW i \in Instance, Leads(<<i, 0>>) PROVE next_send_view[i] <= 0
    BY DEF ToPropose, Init
  <2>1. PICK n \in 0 .. (NODE_CNT - 1) : next_send_view[i] = n /\ Leads(<<i, n>>)
    BY FirstLed DEF Init
  <2>2. n \in Nat /\ n < NODE_CNT
    BY Constants
  <2>3. 0 < n => 0 + NODE_CNT <= n
    BY <2>1, <2>2, LedApart
  <2>4. QED
    BY <2>1, <2>2, <2>3, Constants
<1>4. ToSend = {i \in Instance : Leads(<<i, 0>>)}
  BY DEF ToSend, Init
<1>5. {i \in Instance : Leads(<<i, 0>>)} = {i \in Instance : i = g_node_id}
  <2> SUFFICES ASSUME NEW i \in Instance PROVE Leads(<<i, 0>>) <=> i = g_node_id
    OBVIOUS
  <2>1. i \in 0 .. (NODE_CNT - 1) /\ i \in Int /\ i = NODE_CNT * 0 + i
    BY Constants
  <2>2. i % NODE_CNT = i
    BY <2>1, Constants, IsRemainder
  <2>3. 0 + i = i
    BY <2>1
  <2>4. QED
    BY <2>2, <2>3 DEF Leads, get_view_primary
<1>6. Generics = IF g_node_id < MULTI_INSTANCES THEN 1 ELSE 0
  <2>1. CASE g_node_id < MULTI_INSTANCES
    <3>1. ToSend = {g_node_id}
      BY <1>4, <1>5, <2>1, Constants DEF Instance
    <3>2. QED
      BY <2>1, <3>1, FS_Singleton DEF Generics
  <2>2. CASE ~(g_node_id < MULTI_INSTANCES)
    <3>1. ToSend = {}
      BY <1>4, <1>5, <2>2, Constants DEF Instance
    <3>2. QED
      BY <2>2, <3>1, FS_EmptySet DEF Generics
  <2>3. QED
    BY <2>1, <2>2
<1>7. Batches = 0 /\ Views = First
  BY <1>2, <1>3 DEF Batches, Views, First
<1>8. /\ proposal_semaphore = First /\ new_txn_semaphore = (IF g_node_id < MULTI_INSTANCES THEN 1 ELSE 0)
      /\ First \in Nat
  <2>1. TypeOK
    BY InitType
  <2>2. QED
    BY <1>7, <2>1, SendingTypes DEF Init
<1>9. QED
  BY <1>1, <1>6, <1>7, <1>8, SendingParts

(* No thread but the proposal thread and the clients changes its tokens.   *)
LEMMA ProposalTokensKept ==
  ASSUME TypeOK, Inv, Batcher \/ (\E t \in Worker : Handler(t)) \/ (\E k \in Input : Receiver(k))
  PROVE  ProposalTokens' = ProposalTokens
<1>0. worker_queue_semaphore \in [0 .. BatchSem -> Nat]
  BY DEF TypeOK
<1>1. \A t \in Worker : post(t) => ProposalTokens' = ProposalTokens
  BY <1>0, SemType DEF post, ProposalTokens
<1>2. CASE Batcher
  <2>1. CASE batcher_take
    <3>1. txn_ready[batcher.slot]
      BY <2>1, BatcherFinds DEF batcher_take
    <3>2. QED
      BY <2>1, <3>1 DEF batcher_take, ProposalTokens
  <2>2. CASE batcher_wait
    BY <1>0, <2>2, SemType DEF batcher_wait, ProposalTokens
  <2>3. CASE \/ batcher_wait_view \/ dequeue_generic \/ dec_incomplete_proposal_cnt
             \/ send_hotstuff_generic \/ process_hotstuff_generic_p
    BY <2>3 DEF batcher_wait_view, dequeue_generic, dec_incomplete_proposal_cnt, send_hotstuff_generic,
                process_hotstuff_generic_p, sems, ProposalTokens
  <2>4. QED
    BY <1>2, <2>1, <2>2, <2>3 DEF Batcher
<1>3. ASSUME NEW t \in Worker, Handler(t) PROVE ProposalTokens' = ProposalTokens
  <2>0. worker[t].msg \in Messages
    BY DEF TypeOK
  <2>1. Thread(worker[t].msg.slot[1]) \in Worker /\ worker[t].msg.slot[1] \in Instance
    BY <2>0, ThreadWorker DEF Messages, Slot
  <2>2. CASE worker_wait(t)
    BY <1>0, <2>2, SemType DEF worker_wait, ProposalTokens
  <2>3. CASE dequeue(t)
    <3>1. post(t) \/ worker_queue_semaphore' = worker_queue_semaphore
      BY <2>3 DEF dequeue, Got
    <3>2. QED
      BY <1>1, <3>1 DEF ProposalTokens
  <2>4. CASE worker_take(t)
    <3>1. post(Thread(worker[t].msg.slot[1])) \/ worker_queue_semaphore' = worker_queue_semaphore
      BY <2>4 DEF worker_take, put_back
    <3>2. QED
      BY <1>1, <2>1, <3>1 DEF ProposalTokens
  <2>5. CASE process(t)
    <3>1. worker_queue_semaphore' = worker_queue_semaphore \/ advance_view(worker[t].msg.slot[1])
      BY <2>5, ProcessStep DEF sems
    <3>2. PICK w \in Worker : w = Thread(worker[t].msg.slot[1])
      BY <2>1
    <3>3. \/ worker_queue_semaphore' = worker_queue_semaphore
          \/ \E n : worker_queue_semaphore' = [worker_queue_semaphore EXCEPT ![w] = n]
      BY <3>1, <3>2 DEF advance_view
    <3>4. QED
      BY <1>0, <3>3, SemType DEF ProposalTokens
  <2>6. QED
    BY <1>3, <2>2, <2>3, <2>4, <2>5 DEF Handler
<1>4. ASSUME NEW k \in Input, Receiver(k) PROVE ProposalTokens' = ProposalTokens
  <2>0. input[k].msg \in Messages
    BY DEF TypeOK
  <2>1. Thread(input[k].msg.slot[1]) \in Worker
    BY <2>0, ThreadWorker DEF Messages, Slot
  <2>2. post(Thread(input[k].msg.slot[1])) \/ worker_queue_semaphore' = worker_queue_semaphore
    BY <1>4 DEF Receiver, receive, enqueue_push, enqueue_count, enqueue_post, sems
  <2>3. QED
    BY <1>1, <2>1, <2>2 DEF ProposalTokens
<1>5. QED
  BY <1>2, <1>3, <1>4

LEMMA SendingProposer ==
  ASSUME TypeOK, Inv, SendingTokens, Proposer
  PROVE  SendingTokens'
<1>0. /\ ProposalTokens + BatchTaken = Batches /\ proposal_semaphore + ViewTaken = Views
      /\ new_txn_semaphore + NewTaken = Generics - InBatcher
  BY SendingParts
<1>1. /\ Batches \in Nat /\ Views \in Nat /\ ProposalTokens \in Nat /\ proposal_semaphore \in Nat
      /\ IsFiniteSet(ToPropose)
  BY SendingTypes
<1>2. /\ proposer \in [at : {"idle", "wait", "scan", "take", "fill", "retake", "send", "count"}, slot : Slot]
      /\ worker_queue_semaphore \in [0 .. BatchSem -> Nat]
  BY DEF TypeOK
<1>3. UNCHANGED <<view, new_txn_semaphore, batcher, generic_out>>
  BY ProposerFrame
<1>4. UNCHANGED <<new_txn_semaphore, NewTaken, InBatcher, Generics>>
  BY <1>3 DEF NewTaken, InBatcher, In, Generics, ToSend
<1>5. CASE dequeue_proposal
  <2>1. proposer.at = "scan" /\ UNCHANGED <<worker_queue_semaphore, proposal_semaphore>>
    BY <1>5 DEF dequeue_proposal, sems
  <2>2. CASE UNCHANGED <<clb_cnt, next_send_view, proposer>>
    <3>1. UNCHANGED <<ProposalTokens, BatchTaken, Batches, ViewTaken, Views>>
      BY <1>3, <2>1, <2>2 DEF ProposalTokens, BatchTaken, Batches, ViewTaken, In, Views, ToPropose
    <3>2. QED
      BY <1>0, <1>4, <2>1, <3>1, SendingParts
  <2>3. CASE /\ next_send_view[proposalInstance] <= view[proposalInstance]
             /\ \E j \in Instance : clb_cnt[j] > 0 /\ clb_cnt' = [clb_cnt EXCEPT ![j] = @ - 1]
             /\ next_send_view' = [next_send_view EXCEPT ![proposalInstance] = @ + NODE_CNT]
             /\ proposer' = [at |-> "take", slot |-> <<proposalInstance, next_send_view[proposalInstance]>>]
    <3>1. PICK p \in Instance : p = proposalInstance
      BY SendTypes
    <3>2. next_send_view \in [Instance -> Nat] /\ view[p] \in Nat /\ next_send_view[p] \in Nat
      BY SendTypes DEF TypeOK
    <3>3. Batches' = Batches - 1
      BY <2>3, QueuedLess
    <3>4. SendViews(p)
      BY SendParts DEF Inv
    <3>5. next_send_view[p] = view[p] /\ Leads(<<p, view[p]>>)
      BY <2>3, <3>1, <3>2, <3>4 DEF SendViews
    <3>6. \A i \in Instance : next_send_view'[i] = IF i = p THEN view[p] + NODE_CNT ELSE next_send_view[i]
      BY <2>3, <3>1, <3>2, <3>5
    <3>7. ToPropose' = ToPropose \ {p} /\ p \in ToPropose
      <4>1. ~(view[p] + NODE_CNT <= view[p])
        BY <3>2, Constants
      <4>2. ToPropose' = ToPropose \ {p}
        BY <1>3, <3>6, <4>1 DEF ToPropose, Leads
      <4>3. p \in ToPropose
        BY <3>2, <3>5 DEF ToPropose
      <4>4. QED
        BY <4>2, <4>3
    <3>8. Views' = Views - 1
      BY <1>1, <3>7, FS_RemoveElement DEF Views
    <3>9. BatchTaken = 1 /\ BatchTaken' = 0 /\ ViewTaken = 1 /\ ViewTaken' = 0 /\ ProposalTokens' = ProposalTokens
      BY <2>1, <2>3 DEF BatchTaken, ViewTaken, In, ProposalTokens
    <3>10. proposal_semaphore' = proposal_semaphore
      BY <2>1
    <3>11. QED
      BY <1>0, <1>1, <1>4, <3>3, <3>8, <3>9, <3>10, SendingParts
  <2>4. QED
    BY <1>5, <2>2, <2>3, ProposalStep
<1>6. CASE ~dequeue_proposal
  <2>1. UNCHANGED <<clb_cnt, next_send_view>>
    BY <1>6 DEF Proposer, proposer_wait, proposer_wait_view, proposer_take, init_txn_man,
                create_and_send_hotstuff_prepare, inc_incomplete_proposal_cnt, sending
  <2>2. UNCHANGED <<Batches, Views>>
    BY <1>3, <2>1 DEF Batches, Views, ToPropose
  <2>3. CASE proposer_wait
    <3>1. ProposalTokens' = ProposalTokens - 1 /\ proposal_semaphore' = proposal_semaphore
      BY <1>2, <2>3, SemType DEF proposer_wait, ProposalTokens
    <3>2. BatchTaken = 0 /\ BatchTaken' = 1 /\ ViewTaken = 0 /\ ViewTaken' = 0
      BY <1>2, <2>3 DEF proposer_wait, BatchTaken, ViewTaken, In
    <3>3. QED
      BY <1>0, <1>1, <1>4, <2>2, <3>1, <3>2, SendingParts
  <2>4. CASE proposer_wait_view
    <3>1. ProposalTokens' = ProposalTokens /\ proposal_semaphore' = proposal_semaphore - 1
      BY <2>4 DEF proposer_wait_view, ProposalTokens
    <3>2. BatchTaken = 1 /\ BatchTaken' = 1 /\ ViewTaken = 0 /\ ViewTaken' = 1
      BY <1>2, <2>4 DEF proposer_wait_view, BatchTaken, ViewTaken, In
    <3>3. QED
      BY <1>0, <1>1, <1>4, <2>2, <3>1, <3>2, SendingParts
  <2>5. CASE proposer_take \/ init_txn_man \/ create_and_send_hotstuff_prepare \/ inc_incomplete_proposal_cnt
    <3>1. ProposalTokens' = ProposalTokens /\ proposal_semaphore' = proposal_semaphore
      BY <2>5 DEF proposer_take, init_txn_man, create_and_send_hotstuff_prepare, inc_incomplete_proposal_cnt,
                  sems, ProposalTokens
    <3>2. BatchTaken = 0 /\ BatchTaken' = 0 /\ ViewTaken = 0 /\ ViewTaken' = 0
      BY <1>2, <2>5 DEF proposer_take, init_txn_man, create_and_send_hotstuff_prepare,
                        inc_incomplete_proposal_cnt, BatchTaken, ViewTaken, In
    <3>3. QED
      BY <1>0, <1>4, <2>2, <3>1, <3>2, SendingParts
  <2>6. QED
    BY <1>6, <2>3, <2>4, <2>5 DEF Proposer
<1>7. QED
  BY <1>5, <1>6

LEMMA SendingBatcher ==
  ASSUME TypeOK, Inv, SendingTokens, Batcher
  PROVE  SendingTokens'
<1>0. /\ ProposalTokens + BatchTaken = Batches /\ proposal_semaphore + ViewTaken = Views
      /\ new_txn_semaphore + NewTaken = Generics - InBatcher
  BY SendingParts
<1>1. new_txn_semaphore \in Nat /\ Generics \in Nat /\ IsFiniteSet(ToSend)
  BY SendingTypes
<1>2. batcher \in [at : {"idle", "wait", "scan", "found", "take", "send", "vote"}, slot : Slot]
  BY DEF TypeOK
<1>3. UNCHANGED <<view, next_send_view, clb_cnt, proposal_semaphore, proposer>>
  BY BatcherFrame
<1>4. UNCHANGED <<proposal_semaphore, BatchTaken, ViewTaken, Batches, Views>>
  BY <1>3 DEF BatchTaken, ViewTaken, In, Batches, Views, ToPropose
<1>5. ProposalTokens' = ProposalTokens
  BY ProposalTokensKept
<1>6. SUFFICES new_txn_semaphore' + NewTaken' = Generics' - InBatcher'
  BY <1>0, <1>4, <1>5, SendingParts
<1>7. CASE send_hotstuff_generic
  <2>1. PICK e \in Instance : e = batcher.slot[1]
    BY SendTypes, SlotPair
  <2>2. /\ batcher.at = "send" /\ batcher'.at = "vote" /\ new_txn_semaphore' = new_txn_semaphore
        /\ generic_out' = generic_out \cup {batcher.slot}
    BY <1>2, <1>7 DEF send_hotstuff_generic, sems
  <2>3. Sending(e)
    BY <2>1, <2>2 DEF Sending
  <2>4. batcher.slot = <<e, view[e]>> /\ InProposal(e) /\ ~Out(e)
    BY <2>3, SendingSlot DEF Inv
  <2>5. ToSend' = ToSend \ {e} /\ e \in ToSend
    <3>1. ToSend' = ToSend \ {e}
      BY <1>3, <2>2, <2>4 DEF ToSend, Leads
    <3>2. e \in ToSend
      BY <2>4 DEF ToSend, InProposal, Out
    <3>3. QED
      BY <3>1, <3>2
  <2>6. Generics' = Generics - 1
    BY <1>1, <2>5, FS_RemoveElement DEF Generics
  <2>7. NewTaken = 0 /\ NewTaken' = 0 /\ InBatcher = 1 /\ InBatcher' = 0
    BY <2>2 DEF NewTaken, InBatcher, In
  <2>8. new_txn_semaphore' = new_txn_semaphore
    BY <2>2
  <2>9. QED
    BY <1>0, <1>1, <2>6, <2>7, <2>8
<1>8. CASE ~send_hotstuff_generic
  <2>1. generic_out' = generic_out
    BY <1>8 DEF Batcher, batcher_wait, batcher_wait_view, dequeue_generic, dec_incomplete_proposal_cnt,
                batcher_take, process_hotstuff_generic_p, outside
  <2>2. Generics' = Generics
    BY <1>3, <2>1 DEF Generics, ToSend
  <2>3. CASE batcher_wait \/ process_hotstuff_generic_p
    <3>1. new_txn_semaphore' = new_txn_semaphore
      BY <2>3 DEF batcher_wait, process_hotstuff_generic_p, sems
    <3>2. NewTaken = 0 /\ NewTaken' = 0 /\ InBatcher = 0 /\ InBatcher' = 0
      BY <1>2, <2>3 DEF batcher_wait, process_hotstuff_generic_p, NewTaken, InBatcher, In
    <3>3. QED
      BY <1>0, <1>1, <2>2, <3>1, <3>2
  <2>4. CASE batcher_wait_view
    <3>1. new_txn_semaphore' = new_txn_semaphore - 1
      BY <2>4 DEF batcher_wait_view
    <3>2. NewTaken = 0 /\ NewTaken' = 1 /\ InBatcher = 0 /\ InBatcher' = 0
      BY <1>2, <2>4 DEF batcher_wait_view, NewTaken, InBatcher, In
    <3>3. QED
      BY <1>0, <1>1, <2>2, <3>1, <3>2
  <2>5. CASE dequeue_generic \/ dec_incomplete_proposal_cnt
    <3>1. new_txn_semaphore' = new_txn_semaphore
      BY <2>5 DEF dequeue_generic, dec_incomplete_proposal_cnt, sems
    <3>2. /\ NewTaken = 1 /\ InBatcher = 0
          /\ (NewTaken' = 0 /\ InBatcher' = 1) \/ (NewTaken' = 1 /\ InBatcher' = 0)
      <4>1. batcher.at \in {"scan", "found"} /\ batcher'.at \in {"scan", "found", "take"}
        BY <1>2, <2>5 DEF dequeue_generic, dec_incomplete_proposal_cnt
      <4>2. QED
        BY <4>1 DEF NewTaken, InBatcher, In
    <3>3. QED
      BY <1>0, <1>1, <2>2, <3>1, <3>2
  <2>6. CASE batcher_take
    <3>1. batcher.at = "take" /\ txn_ready[batcher.slot]
      BY <2>6, BatcherFinds DEF batcher_take
    <3>2. new_txn_semaphore' = new_txn_semaphore /\ batcher'.at = "send"
      BY <1>2, <2>6, <3>1 DEF batcher_take
    <3>3. NewTaken = 0 /\ NewTaken' = 0 /\ InBatcher = 1 /\ InBatcher' = 1
      BY <3>1, <3>2 DEF NewTaken, InBatcher, In
    <3>4. new_txn_semaphore' = new_txn_semaphore
      BY <3>2
    <3>5. QED
      BY <1>0, <1>1, <2>2, <3>3, <3>4
  <2>7. QED
    BY <1>8, <2>3, <2>4, <2>5, <2>6 DEF Batcher
<1>9. QED
  BY <1>7, <1>8

LEMMA SendingHandler ==
  ASSUME TypeOK, Inv, SendingTokens, NEW t \in Worker, Handler(t)
  PROVE  SendingTokens'
<1>0. /\ ProposalTokens + BatchTaken = Batches /\ proposal_semaphore + ViewTaken = Views
      /\ new_txn_semaphore + NewTaken = Generics - InBatcher
  BY SendingParts
<1>1. /\ new_txn_semaphore \in Nat /\ Generics \in Nat /\ IsFiniteSet(ToSend)
      /\ proposal_semaphore \in Nat /\ Views \in Nat /\ IsFiniteSet(ToPropose)
      /\ ViewTaken \in {0, 1} /\ NewTaken \in {0, 1} /\ InBatcher \in {0, 1}
  BY SendingTypes
<1>2. UNCHANGED <<next_send_view, clb_cnt, proposer, batcher, generic_out>>
  BY HandlerFrame
<1>3. UNCHANGED <<BatchTaken, ViewTaken, NewTaken, InBatcher, Batches>>
  BY <1>2 DEF BatchTaken, ViewTaken, NewTaken, InBatcher, In, Batches
<1>4. ProposalTokens' = ProposalTokens
  BY ProposalTokensKept
<1>5. CASE UNCHANGED <<view, proposal_semaphore, new_txn_semaphore>>
  <2>1. UNCHANGED <<Views, Generics>>
    BY <1>2, <1>5 DEF Views, Generics, ToPropose, ToSend
  <2>2. QED
    BY <1>0, <1>3, <1>4, <1>5, <2>1, SendingParts
<1>6. CASE process(t)
  <2>1. PICK z \in Slot : z = worker[t].msg.slot
    BY <1>6, HeldMessage DEF process, Holds, Inv
  <2>2. PICK e \in Instance : e = z[1]
    BY SlotPair
  <2>3. \/ UNCHANGED <<view, proposal_semaphore, new_txn_semaphore>>
        \/ advance_view(e) /\ view[e] = z[2] /\ generic_received'[z]
    BY <1>6, <2>1, <2>2, ProcessStep DEF sems
  <2>4. CASE advance_view(e) /\ view[e] = z[2] /\ generic_received'[z]
    <3>1. z = <<e, view[e]>>
      BY <2>2, <2>4, SlotPair
    <3>2. SendOut' /\ z \in Slot
      BY <1>6, SendHandler, SendParts DEF Handler
    <3>3. Leads(z) => z \in generic_out
      BY <1>2, <2>4, <3>2 DEF SendOut, Leads
    <3>4. /\ view[e] < next_send_view[e] /\ <<e, view[e] + 1>> \notin generic_out
          /\ Leads(<<e, view[e] + 1>>) => next_send_view[e] = view[e] + 1
      BY <3>1, <3>3, ViewDone DEF Inv
    <3>5. view'[e] = view[e] + 1 /\ \A i \in Instance : i # e => view'[i] = view[i]
      BY <2>4, AdvanceQueues DEF Leaves
    <3>6. view[e] \in Nat /\ next_send_view[e] \in Nat
      BY SendTypes
    <3>7. e \notin ToPropose /\ e \notin ToSend
      BY <3>1, <3>3, <3>4, <3>6 DEF ToPropose, ToSend
    <3>8. ToPropose' = IF LeadsNext(e) THEN ToPropose \cup {e} ELSE ToPropose
      <4>1. ASSUME NEW i \in Instance PROVE i \in ToPropose' <=> (i \in ToPropose \/ (i = e /\ LeadsNext(e)))
        <5>1. CASE i = e
          BY <1>2, <3>4, <3>5, <3>6, <3>7, <5>1 DEF ToPropose, LeadsNext, Leads
        <5>2. CASE i # e
          BY <1>2, <3>5, <5>2 DEF ToPropose, Leads
        <5>3. QED
          BY <5>1, <5>2
      <4>2. ToPropose \subseteq Instance /\ ToPropose' \subseteq Instance
        BY DEF ToPropose
      <4>3. QED
        BY <4>1, <4>2
    <3>9. ToSend' = IF LeadsNext(e) THEN ToSend \cup {e} ELSE ToSend
      <4>1. ASSUME NEW i \in Instance PROVE i \in ToSend' <=> (i \in ToSend \/ (i = e /\ LeadsNext(e)))
        <5>1. CASE i = e
          BY <1>2, <3>4, <3>5, <3>6, <3>7, <5>1 DEF ToSend, LeadsNext, Leads
        <5>2. CASE i # e
          BY <1>2, <3>5, <5>2 DEF ToSend, Leads
        <5>3. QED
          BY <5>1, <5>2
      <4>2. ToSend \subseteq Instance /\ ToSend' \subseteq Instance
        BY DEF ToSend
      <4>3. QED
        BY <4>1, <4>2
    <3>10. /\ Views' = IF LeadsNext(e) THEN Views + 1 ELSE Views
           /\ Generics' = IF LeadsNext(e) THEN Generics + 1 ELSE Generics
      BY <1>1, <3>7, <3>8, <3>9, FS_AddElement DEF Views, Generics
    <3>11. /\ proposal_semaphore' = IF LeadsNext(e) THEN proposal_semaphore + 1 ELSE proposal_semaphore
           /\ new_txn_semaphore' = IF LeadsNext(e) THEN new_txn_semaphore + 1 ELSE new_txn_semaphore
      BY <1>1, <2>4 DEF advance_view
    <3>12. QED
      BY <1>0, <1>1, <1>3, <1>4, <3>10, <3>11, SendingParts
  <2>5. QED
    BY <1>5, <2>3, <2>4
<1>7. CASE worker_wait(t) \/ dequeue(t) \/ worker_take(t)
  BY <1>5, <1>7 DEF worker_wait, dequeue, worker_take
<1>8. QED
  BY <1>6, <1>7 DEF Handler

LEMMA SendingNext ==
  ASSUME TypeOK, Inv, SendingTokens, [Next]_vars
  PROVE  SendingTokens'
<1>0. /\ ProposalTokens + BatchTaken = Batches /\ proposal_semaphore + ViewTaken = Views
      /\ new_txn_semaphore + NewTaken = Generics - InBatcher
  BY SendingParts
<1>1. CASE enqueue_batch
  <2>1. UNCHANGED <<view, next_send_view, proposal_semaphore, new_txn_semaphore, proposer, batcher, generic_out>>
    BY <1>1, BatchFrame
  <2>2. UNCHANGED <<proposal_semaphore, new_txn_semaphore, BatchTaken, ViewTaken, NewTaken, InBatcher, Views, Generics>>
    BY <2>1 DEF BatchTaken, ViewTaken, NewTaken, InBatcher, In, Views, Generics, ToPropose, ToSend
  <2>3. PICK q \in Instance : clb_cnt' = [clb_cnt EXCEPT ![q] = clb_cnt[q] + 1]
    BY <1>1, ShortestInstance DEF enqueue_batch, TypeOK
  <2>4. Batches' = Batches + 1
    BY <2>3, QueuedMore
  <2>5. ProposalTokens' = ProposalTokens + 1
    <3>1. worker_queue_semaphore \in [0 .. BatchSem -> Nat]
      BY DEF TypeOK
    <3>2. QED
      BY <1>1, <3>1, SemType DEF enqueue_batch, ProposalTokens
  <2>6. ProposalTokens \in Nat /\ Batches \in Nat /\ BatchTaken \in {0, 1}
    BY SendingTypes
  <2>7. QED
    BY <1>0, <2>2, <2>4, <2>5, <2>6, SendingParts
<1>2. ASSUME NEW k \in Input, Receiver(k) PROVE SendingTokens'
  <2>1. UNCHANGED <<view, next_send_view, clb_cnt, proposal_semaphore, new_txn_semaphore, proposer, batcher, generic_out>>
    BY <1>2, ReceiverFrame
  <2>2. UNCHANGED <<proposal_semaphore, new_txn_semaphore, BatchTaken, ViewTaken, NewTaken, InBatcher, Views, Generics, Batches>>
    BY <2>1 DEF BatchTaken, ViewTaken, NewTaken, InBatcher, In, Views, Generics, ToPropose, ToSend, Batches
  <2>3. ProposalTokens' = ProposalTokens
    BY <1>2, ProposalTokensKept
  <2>4. QED
    BY <1>0, <2>2, <2>3, SendingParts
<1>3. CASE UNCHANGED vars
  <2>1. UNCHANGED <<view, next_send_view, clb_cnt, worker_queue_semaphore, proposal_semaphore, new_txn_semaphore,
                    proposer, batcher, generic_out>>
    BY <1>3 DEF vars, sending, sems, outside
  <2>2. UNCHANGED <<proposal_semaphore, new_txn_semaphore, BatchTaken, ViewTaken, NewTaken, InBatcher, Views,
                    Generics, Batches, ProposalTokens>>
    BY <2>1 DEF BatchTaken, ViewTaken, NewTaken, InBatcher, In, Views, Generics, ToPropose, ToSend, Batches,
                ProposalTokens
  <2>3. QED
    BY <1>0, <2>2, SendingParts
<1>4. QED
  BY <1>1, <1>2, <1>3, SendingProposer, SendingBatcher, SendingHandler DEF Next

(* The tokens of the sending threads are the work there is for them, for   *)
(* any number of instances: no token is lost when views change under the   *)
(* threads, and none is left over.                                         *)
THEOREM SendingTokensExact == Spec => []SendingTokens
<1>1. Init => TypeOK /\ Inv /\ SendingTokens
  BY InitType, InitInv, InitSending
<1>2. (TypeOK /\ Inv /\ SendingTokens) /\ [Next]_vars => (TypeOK /\ Inv /\ SendingTokens)'
  BY NextType, NextInv, SendingNext
<1>3. QED
  BY <1>1, <1>2, PTL DEF Spec
=============================================================================

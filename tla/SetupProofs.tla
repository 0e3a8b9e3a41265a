---------------------------- MODULE SetupProofs -----------------------------
(***************************************************************************)
(* Proofs about Setup, for any number of replicas, output threads, input   *)
(* threads of the client and places in a buffer, whenever the warm-up      *)
(* ends.                                                                   *)
(*                                                                         *)
(* A key of n for d is nowhere before n has started, and then in one place *)
(* only: the queue of the output thread of d, the buffer for d, the queue  *)
(* of d's instance threads or what d has stored.  So it is counted once.   *)
(* With one instance thread a replica looks for missing keys for the last  *)
(* time when none is missing, and says READY once, behind its own keys for *)
(* the client.                                                             *)
(***************************************************************************)
EXTENDS Setup, TallyProofs

(* No member of s outside E comes twice. *)
NoRepeat(s, E) == \A i, j \in 1 .. Len(s) : s[i] = s[j] /\ s[i] \notin E => i = j

(* What of n is on its way to d: in the queue, in the buffer. *)
Queue(n, d)    == m_queue[n][d % SEND_THREAD_CNT]
Queued(n, d)   == {k \in Kind : To(k, d) \in Range(Queue(n, d))}
Buffered(n, d) == Range(mbuf[n][d])
First(n, d)    == {"INIT_DONE"} \cup Range(Kinds(n, d))

(* The first round is sent by a node that has started, and each message of *)
(* it is in one place.                                                     *)
Expected(n, d) == (IF n = d \/ n \notin up THEN {} ELSE First(n, d)) \cup (IF d = Client THEN {"READY"} ELSE {})

QueueInv ==
  \A n \in Replica, o \in Output :
    /\ NoRepeat(m_queue[n][o], {To("READY", Client)})
    /\ \A i \in 1 .. Len(m_queue[n][o]) : m_queue[n][o][i].dest % SEND_THREAD_CNT = o
    /\ n \notin up => m_queue[n][o] = <<>>

WayInv ==
  \A n \in Replica, d \in Node :
    /\ NoRepeat(mbuf[n][d], {"READY"})
    /\ Queued(n, d) \subseteq Expected(n, d) /\ Buffered(n, d) \subseteq Expected(n, d)
    /\ Queued(n, d) \cap Buffered(n, d) \subseteq {"READY"}

(* A key on its way has not arrived, one that waits is not stored. *)
KeyInv ==
  /\ \A n \in Replica, d \in Node, k \in Key :
       k \in Queued(n, d) \cup Buffered(n, d)
         => <<n, k>> \notin keys[d] /\ (d \in Replica => <<n, k>> \notin Range(keyex[d]))
  /\ \A s \in Replica : /\ NoRepeat(keyex[s], {}) /\ Range(keyex[s]) \cap keys[s] = {}
                        /\ \A x \in Range(keyex[s]) : x[1] \in up
  /\ \A d \in Node : \A x \in keys[d] : x[1] \in up /\ (d # Client => d \in up)

(* The nodes whose INIT_DONE a node waits for. *)
Silent(d) ==
  {n \in Node \ {d} : n \notin up \/ (n \in Replica /\ "INIT_DONE" \in Queued(n, d) \cup Buffered(n, d))}

BarrierInv ==
  /\ \A d \in Node : rsp_cnt[d] = Cardinality(Silent(d))
  /\ \A n \in Replica : rsp_cnt[n] > 0 => setup_done_barrier[n] = 0

SendInv ==
  \A n \in Replica, o \in Output : output[n][o] = "send" => init_msg_sent[n][o] > 0

(* The counter of keys is never below what is missing, although it is      *)
(* changed in two steps.                                                   *)
Missing(s, n) == {k \in Counted : n # s /\ <<n, k>> \notin keys[s]}

CountInv ==
  \A s \in Replica :
    /\ \A n \in Node : receivedKeys[s][n] >= Cardinality(Missing(s, n))
    /\ \A w \in Worker : worker[s][w].pc # "idle" => s \in up
    /\ \A w \in Worker, n \in Node :
         worker[s][w].pc = "store" /\ worker[s][w].from = n => worker[s][w].read > Cardinality(Missing(s, n))

Inv == TypeOK /\ QueueInv /\ WayInv /\ KeyInv /\ BarrierInv /\ SendInv /\ CountInv
-----------------------------------------------------------------------------
(* What the assumptions say. *)
LEMMA Constants ==
  /\ Node \subseteq Nat /\ IsFiniteSet(Node) /\ Replica \subseteq Node /\ Client \in Node
  /\ Client \notin Replica /\ IsFiniteSet(Replica)
  /\ SEND_THREAD_CNT \in Nat /\ SEND_THREAD_CNT > 0 /\ MESSAGE_PER_BUFFER \in Nat /\ MESSAGE_PER_BUFFER > 0
  /\ \A d \in Node : d % SEND_THREAD_CNT \in Output
<1>1. IsFiniteSet({Client}) /\ IsFiniteSet(Replica)
  BY ConstantsAssumption, FS_Singleton
<1>2. IsFiniteSet(Node)
  BY <1>1, FS_Union DEF Node
<1>3. SEND_THREAD_CNT \in Nat /\ SEND_THREAD_CNT > 0 /\ Node \subseteq Nat
  BY ConstantsAssumption
<1>4. ASSUME NEW d \in Node PROVE d % SEND_THREAD_CNT \in Output
  <2>1. d \in Int
    BY <1>3
  <2>2. QED
    BY <1>3, <2>1 DEF Output
<1>5. QED
  BY <1>1, <1>2, <1>3, <1>4, ConstantsAssumption DEF Node

(* The kinds of keys. *)
LEMMA KindFacts ==
  /\ \A n, d : Range(Kinds(n, d)) = IF Client \in {n, d} THEN Counted ELSE Key
  /\ \A n, d : \A i, j \in DOMAIN Kinds(n, d) : Kinds(n, d)[i] = Kinds(n, d)[j] => i = j
  /\ \A n, d : DOMAIN Kinds(n, d) = 1 .. Len(Kinds(n, d)) /\ Len(Kinds(n, d)) \in Nat
  /\ Counted \subseteq Key /\ "INIT_DONE" \notin Key /\ "READY" \notin Key /\ Key \subseteq Kind
<1>1. ASSUME NEW n, NEW d, NEW K, K = Kinds(n, d)
      PROVE  /\ Range(K) = IF Client \in {n, d} THEN Counted ELSE Key
             /\ \A i, j \in DOMAIN K : K[i] = K[j] => i = j
             /\ DOMAIN K = 1 .. Len(K) /\ Len(K) \in Nat
  <2>1. CASE Client \in {n, d}
    <3>1. K = <<"ED2", "CMA">>
      BY <1>1, <2>1 DEF Kinds
    <3>2. DOMAIN K = {1, 2} /\ K[1] = "ED2" /\ K[2] = "CMA" /\ Len(K) = 2
      BY <3>1
    <3>3. QED
      BY <2>1, <3>2 DEF Range, Counted
  <2>2. CASE Client \notin {n, d}
    <3>1. K = <<"ED2", "CMA", "SECP">>
      BY <1>1, <2>2 DEF Kinds
    <3>2. DOMAIN K = {1, 2, 3} /\ K[1] = "ED2" /\ K[2] = "CMA" /\ K[3] = "SECP" /\ Len(K) = 3
      BY <3>1
    <3>3. QED
      BY <2>2, <3>2 DEF Range, Key
  <2>3. QED
    BY <2>1, <2>2
<1>2. QED
  BY <1>1 DEF Counted, Key, Kind

(* The keys n sends to d, and the ones d is sent. *)
IsKey(x, n, d) == \E k \in Range(Kinds(n, d)) : x = <<n, k>>

LEMMA KeysOf ==
  \A n, d : /\ Keys(n, d) \in Seq({n} \X Key) /\ NoRepeat(Keys(n, d), {})
            /\ \A x : x \in Range(Keys(n, d)) <=> IsKey(x, n, d)
<1> SUFFICES ASSUME NEW n, NEW d
             PROVE  /\ Keys(n, d) \in Seq({n} \X Key) /\ NoRepeat(Keys(n, d), {})
                    /\ \A x : x \in Range(Keys(n, d)) <=> IsKey(x, n, d)
  OBVIOUS
<1>1. PICK K : K = Kinds(n, d)
  OBVIOUS
<1>2. /\ DOMAIN K = 1 .. Len(K) /\ Len(K) \in Nat /\ \A i \in DOMAIN K : K[i] \in Key
      /\ \A i, j \in DOMAIN K : K[i] = K[j] => i = j
  BY <1>1, KindFacts DEF Range
<1>3. Keys(n, d) = [i \in DOMAIN K |-> <<n, K[i]>>]
  BY <1>1 DEF Keys
<1>4. Keys(n, d) \in Seq({n} \X Key) /\ Len(Keys(n, d)) = Len(K)
  BY <1>2, <1>3
<1>5. NoRepeat(Keys(n, d), {})
  BY <1>2, <1>3, <1>4 DEF NoRepeat
<1>6. \A x : x \in Range(Keys(n, d)) <=> \E k \in Range(K) : x = <<n, k>>
  BY <1>3 DEF Range
<1>7. \A x : x \in Range(Keys(n, d)) <=> IsKey(x, n, d)
  BY <1>1, <1>6 DEF IsKey
<1>8. QED
  BY <1>4, <1>5, <1>7

LEMMA KeyFacts ==
  /\ \A n, d, k : <<n, k>> \in AllKeys(d) <=> n \in Node \ {d} /\ k \in Range(Kinds(n, d))
  /\ \A d : AllKeys(d) \subseteq Node \X Key
<1>1. \A d, x : x \in AllKeys(d) <=> \E m \in Node \ {d} : IsKey(x, m, d)
  <2> SUFFICES ASSUME NEW d, NEW x
               PROVE  x \in AllKeys(d) <=> \E m \in Node \ {d} : IsKey(x, m, d)
    OBVIOUS
  <2>1. x \in AllKeys(d) <=> \E m \in Node \ {d} : x \in Range(Keys(m, d))
    BY DEF AllKeys
  <2>2. QED
    BY <2>1, KeysOf
<1>2. ASSUME NEW n, NEW d, NEW k
      PROVE  <<n, k>> \in AllKeys(d) <=> n \in Node \ {d} /\ k \in Range(Kinds(n, d))
  <2>1. <<n, k>> \in AllKeys(d) <=> \E m \in Node \ {d} : IsKey(<<n, k>>, m, d)
    BY <1>1
  <2>2. QED
    BY <2>1 DEF IsKey
<1>3. ASSUME NEW d, NEW x \in AllKeys(d) PROVE x \in Node \X Key
  <2>1. PICK m \in Node \ {d} : IsKey(x, m, d)
    BY <1>1
  <2>2. PICK k \in Range(Kinds(m, d)) : x = <<m, k>>
    BY <2>1 DEF IsKey
  <2>3. k \in Key
    BY <2>2, KindFacts
  <2>4. QED
    BY <2>2, <2>3
<1>4. QED
  BY <1>2, <1>3
-----------------------------------------------------------------------------
(* What the operations on sequences do to the set of members. *)
LEMMA AppendFacts ==
  ASSUME NEW S, NEW s \in Seq(S), NEW e \in S, NEW E
  PROVE  /\ Append(s, e) \in Seq(S) /\ Len(Append(s, e)) = Len(s) + 1
         /\ Range(Append(s, e)) = Range(s) \cup {e}
         /\ NoRepeat(s, E) /\ (e \in E \/ e \notin Range(s)) => NoRepeat(Append(s, e), E)
<1>1. PICK t : t = Append(s, e)
  OBVIOUS
<1>2. /\ t \in Seq(S) /\ Len(s) \in Nat /\ Len(t) = Len(s) + 1 /\ t[Len(s) + 1] = e
      /\ \A i \in 1 .. Len(s) : t[i] = s[i] /\ s[i] \in Range(s)
      /\ DOMAIN t = 1 .. Len(t) /\ DOMAIN s = 1 .. Len(s)
  BY <1>1 DEF Range
<1>3. 1 .. Len(t) = (1 .. Len(s)) \cup {Len(s) + 1}
  BY <1>2
<1>4. Range(t) = Range(s) \cup {e}
  BY <1>2, <1>3, SMTT(30) DEF Range
<1>5. ASSUME NoRepeat(s, E), e \in E \/ e \notin Range(s)
      PROVE  NoRepeat(t, E)
  BY <1>2, <1>3, <1>5 DEF NoRepeat
<1>6. QED
  BY <1>1, <1>2, <1>4, <1>5

LEMMA TailFacts ==
  ASSUME NEW S, NEW s \in Seq(S), s # <<>>, NEW E
  PROVE  /\ Tail(s) \in Seq(S) /\ Head(s) \in S /\ Len(Tail(s)) = Len(s) - 1
         /\ \A i \in 1 .. Len(Tail(s)) : Tail(s)[i] = s[i + 1]
         /\ Range(s) = {Head(s)} \cup Range(Tail(s)) /\ Head(s) = s[1] /\ Len(s) > 0
         /\ NoRepeat(s, E) => NoRepeat(Tail(s), E) /\ (Head(s) \in E \/ Head(s) \notin Range(Tail(s)))
<1>1. PICK t : t = Tail(s)
  OBVIOUS
<1>2. /\ t \in Seq(S) /\ Len(s) \in Nat /\ Len(s) > 0 /\ Len(t) = Len(s) - 1 /\ Head(s) = s[1] /\ s[1] \in S
      /\ \A i \in 1 .. Len(t) : t[i] = s[i + 1]
      /\ DOMAIN t = 1 .. Len(t) /\ DOMAIN s = 1 .. Len(s)
  BY <1>1
<1>3. /\ \A i \in 1 .. Len(s) : i = 1 \/ (i - 1 \in 1 .. Len(t) /\ s[i] = t[i - 1])
      /\ 1 \in 1 .. Len(s) /\ \A i \in 1 .. Len(t) : i + 1 \in 1 .. Len(s) /\ i + 1 # 1
      /\ \A i, j \in 1 .. Len(t) : i + 1 = j + 1 => i = j
  BY <1>2
<1>4. Range(s) = {Head(s)} \cup Range(t)
  <2>1. ASSUME NEW x \in Range(s) PROVE x \in {Head(s)} \cup Range(t)
    BY <1>2, <1>3 DEF Range
  <2>2. Head(s) \in Range(s)
    BY <1>2, <1>3 DEF Range
  <2>3. ASSUME NEW x \in Range(t) PROVE x \in Range(s)
    BY <1>2, <1>3, SMTT(30) DEF Range
  <2>4. QED
    BY <2>1, <2>2, <2>3
<1>5. ASSUME NoRepeat(s, E)
      PROVE  NoRepeat(t, E) /\ (Head(s) \in E \/ Head(s) \notin Range(t))
  <2>1. NoRepeat(t, E)
    BY <1>2, <1>3, <1>5 DEF NoRepeat
  <2>2. ASSUME Head(s) \notin E, Head(s) \in Range(t) PROVE FALSE
    <3>1. PICK i \in 1 .. Len(t) : t[i] = s[1]
      BY <1>2, <2>2 DEF Range
    <3>2. s[i + 1] = s[1] /\ i + 1 \in 1 .. Len(s) /\ i + 1 # 1 /\ 1 \in 1 .. Len(s)
      BY <1>2, <1>3, <3>1
    <3>3. QED
      BY <1>2, <1>5, <2>2, <3>2 DEF NoRepeat
  <2>3. QED
    BY <2>1, <2>2
<1>6. QED
  BY <1>1, <1>2, <1>4, <1>5

LEMMA ConcatFacts ==
  ASSUME NEW S, NEW s \in Seq(S), NEW t \in Seq(S), NEW E
  PROVE  /\ s \o t \in Seq(S) /\ Range(s \o t) = Range(s) \cup Range(t)
         /\ NoRepeat(s, E) /\ NoRepeat(t, E) /\ Range(s) \cap Range(t) \subseteq E => NoRepeat(s \o t, E)
<1>1. PICK u : u = s \o t
  OBVIOUS
<1>2. PICK m \in Nat : m = Len(s)
  OBVIOUS
<1>3. PICK n \in Nat : n = Len(t)
  OBVIOUS
<1>4. /\ u \in Seq(S) /\ Len(u) = m + n
      /\ \A i \in 1 .. m : u[i] = s[i]
      /\ \A i \in (m + 1) .. (m + n) : u[i] = t[i - m]
      /\ DOMAIN t = 1 .. n /\ DOMAIN s = 1 .. m /\ DOMAIN u = 1 .. (m + n)
  BY <1>1, <1>2, <1>3
<1>5. /\ \A i \in 1 .. (m + n) : (i \in 1 .. m /\ u[i] = s[i]) \/ (i - m \in 1 .. n /\ u[i] = t[i - m])
      /\ \A i \in 1 .. m : i \in 1 .. (m + n)
      /\ \A j \in 1 .. n : j + m \in 1 .. (m + n) /\ u[j + m] = t[j]
  BY <1>4
<1>6. Range(u) = Range(s) \cup Range(t)
  <2>1. ASSUME NEW x \in Range(u) PROVE x \in Range(s) \cup Range(t)
    BY <1>4, <1>5, ZenonT(60) DEF Range
  <2>2. ASSUME NEW x \in Range(s) PROVE x \in Range(u)
    BY <1>4, <1>5 DEF Range
  <2>3. ASSUME NEW x \in Range(t) PROVE x \in Range(u)
    <3>1. PICK j \in 1 .. n : x = t[j]
      BY <1>4 DEF Range
    <3>2. j + m \in DOMAIN u /\ u[j + m] = x
      BY <1>4, <1>5, <3>1
    <3>3. QED
      BY <3>2 DEF Range
  <2>4. QED
    BY <2>1, <2>2, <2>3
<1>7. ASSUME NoRepeat(s, E), NoRepeat(t, E), Range(s) \cap Range(t) \subseteq E
      PROVE  NoRepeat(u, E)
  <2> SUFFICES ASSUME NEW i \in 1 .. (m + n), NEW j \in 1 .. (m + n), u[i] = u[j], u[i] \notin E
               PROVE  i = j
    BY <1>4 DEF NoRepeat
  <2>1. /\ \A k \in 1 .. m : s[k] \in Range(s)
        /\ \A k \in 1 .. n : t[k] \in Range(t)
    BY <1>4 DEF Range
  <2>2. CASE i \in 1 .. m /\ j \in 1 .. m
    BY <1>2, <1>4, <1>7, <2>2 DEF NoRepeat
  <2>3. CASE i - m \in 1 .. n /\ j - m \in 1 .. n /\ u[i] = t[i - m] /\ u[j] = t[j - m]
    <3>1. i - m = j - m
      BY <1>3, <1>7, <2>3 DEF NoRepeat
    <3>2. QED
      BY <3>1
  <2>4. QED
    BY <1>5, <1>7, <2>1, <2>2, <2>3
<1>8. QED
  BY <1>1, <1>4, <1>6, <1>7

LEMMA RemoveFacts ==
  ASSUME NEW S, NEW s \in Seq(S), NEW i \in 1 .. Len(s), NoRepeat(s, {})
  PROVE  /\ RemoveAt(s, i) \in Seq(S) /\ NoRepeat(RemoveAt(s, i), {})
         /\ Range(RemoveAt(s, i)) = Range(s) \ {s[i]} /\ s[i] \in Range(s)
<1>1. PICK u : u = RemoveAt(s, i)
  OBVIOUS
<1>2. PICK n \in Nat : n = Len(s)
  OBVIOUS
<1>3. /\ u \in Seq(S) /\ Len(u) = n - 1 /\ DOMAIN s = 1 .. n /\ DOMAIN u = 1 .. (n - 1)
      /\ \A j \in 1 .. (n - 1) : u[j] = IF j < i THEN s[j] ELSE s[j + 1]
  <2>1. PICK a : a = SubSeq(s, 1, i - 1)
    OBVIOUS
  <2>2. PICK b : b = SubSeq(s, i + 1, Len(s))
    OBVIOUS
  <2>3. a \in Seq(S) /\ Len(a) = i - 1 /\ \A j \in 1 .. (i - 1) : a[j] = s[j]
    BY <2>1
  <2>4. b \in Seq(S) /\ Len(b) = n - i /\ \A j \in 1 .. (n - i) : b[j] = s[j + i]
    BY <1>2, <2>2
  <2>5. u = a \o b
    BY <1>1, <2>1, <2>2 DEF RemoveAt
  <2>6. u \in Seq(S) /\ Len(u) = n - 1
    BY <1>2, <2>3, <2>4, <2>5
  <2>7. ASSUME NEW j \in 1 .. (n - 1) PROVE u[j] = IF j < i THEN s[j] ELSE s[j + 1]
    <3>1. CASE j < i
      BY <1>2, <2>3, <2>4, <2>5, <3>1
    <3>2. CASE j >= i
      <4>1. u[j] = b[j - (i - 1)] /\ j - (i - 1) \in 1 .. (n - i)
        BY <1>2, <2>3, <2>4, <2>5, <3>2
      <4>2. b[j - (i - 1)] = s[(j - (i - 1)) + i] /\ (j - (i - 1)) + i = j + 1
        BY <2>4, <4>1
      <4>3. QED
        BY <3>2, <4>1, <4>2
    <3>3. QED
      BY <3>1, <3>2
  <2>8. QED
    BY <1>2, <2>6, <2>7
<1>4. /\ \A j \in 1 .. n : j # i => \E k \in 1 .. (n - 1) : u[k] = s[j]
      /\ \A j \in 1 .. (n - 1) : \E k \in 1 .. n : k # i /\ k = (IF j < i THEN j ELSE j + 1) /\ u[j] = s[k]
  <2>1. ASSUME NEW j \in 1 .. n, j # i PROVE \E k \in 1 .. (n - 1) : u[k] = s[j]
    <3>1. CASE j < i
      <4>1. j \in 1 .. (n - 1) /\ u[j] = s[j]
        BY <1>2, <1>3, <3>1
      <4>2. QED
        BY <4>1
    <3>2. CASE j > i
      <4>1. j - 1 \in 1 .. (n - 1) /\ ~(j - 1 < i) /\ (j - 1) + 1 = j
        BY <1>2, <3>2
      <4>2. u[j - 1] = s[j]
        BY <1>3, <4>1
      <4>3. QED
        BY <4>1, <4>2
    <3>3. QED
      BY <1>2, <2>1, <3>1, <3>2
  <2>2. ASSUME NEW j \in 1 .. (n - 1)
        PROVE  \E k \in 1 .. n : k # i /\ k = (IF j < i THEN j ELSE j + 1) /\ u[j] = s[k]
    <3>1. CASE j < i
      <4>1. j \in 1 .. n /\ j # i /\ u[j] = s[j]
        BY <1>2, <1>3, <3>1
      <4>2. QED
        BY <3>1, <4>1
    <3>2. CASE ~(j < i)
      <4>1. j + 1 \in 1 .. n /\ j + 1 # i /\ u[j] = s[j + 1]
        BY <1>2, <1>3, <3>2
      <4>2. QED
        BY <3>2, <4>1
    <3>3. QED
      BY <3>1, <3>2
  <2>3. QED
    BY <2>1, <2>2
<1>5. \A j \in 1 .. n : s[j] = s[i] => j = i
  BY <1>2 DEF NoRepeat
<1>6. Range(u) = Range(s) \ {s[i]} /\ s[i] \in Range(s)
  <2>1. ASSUME NEW x \in Range(u) PROVE x \in Range(s) \ {s[i]}
    <3>1. PICK j \in 1 .. (n - 1) : x = u[j]
      BY <1>3 DEF Range
    <3>2. PICK k \in 1 .. n : k # i /\ u[j] = s[k]
      BY <1>4
    <3>3. QED
      BY <1>2, <1>3, <1>5, <3>1, <3>2 DEF Range
  <2>2. ASSUME NEW x \in Range(s) \ {s[i]} PROVE x \in Range(u)
    <3>1. PICK j \in 1 .. n : x = s[j] /\ j # i
      BY <1>3, <2>2 DEF Range
    <3>2. PICK k \in 1 .. (n - 1) : u[k] = s[j]
      BY <1>4, <3>1
    <3>3. QED
      BY <1>3, <3>1, <3>2 DEF Range
  <2>3. s[i] \in Range(s)
    BY <1>2, <1>3 DEF Range
  <2>4. QED
    BY <2>1, <2>2, <2>3
<1>7. NoRepeat(u, {})
  <2> SUFFICES ASSUME NEW j \in 1 .. (n - 1), NEW k \in 1 .. (n - 1), u[j] = u[k]
               PROVE  j = k
    BY <1>3 DEF NoRepeat
  <2>1. PICK p \in 1 .. n : p = (IF j < i THEN j ELSE j + 1) /\ u[j] = s[p]
    BY <1>4
  <2>2. PICK q \in 1 .. n : q = (IF k < i THEN k ELSE k + 1) /\ u[k] = s[q]
    BY <1>4
  <2>3. p = q
    BY <1>2, <2>1, <2>2 DEF NoRepeat
  <2>4. QED
    BY <1>2, <2>1, <2>2, <2>3
<1>8. QED
  BY <1>1, <1>3, <1>6, <1>7
-----------------------------------------------------------------------------
(* The first round of a replica holds, for each node an output thread      *)
(* serves, what the node expects of it, once.                              *)
Message == [kind : Kind, dest : Node]

LEMMA ToFacts ==
  /\ \A k, d, l, e : To(k, d) = To(l, e) <=> k = l /\ d = e
  /\ \A k \in Kind, d \in Node : To(k, d) \in Message
  /\ \A m \in Message : m.kind \in Kind /\ m.dest \in Node /\ m = To(m.kind, m.dest)
  /\ \A k, d : To(k, d).kind = k /\ To(k, d).dest = d
<1>1. ASSUME NEW k, NEW d, NEW l, NEW e, To(k, d) = To(l, e) PROVE k = l /\ d = e
  <2>1. To(k, d).kind = k /\ To(k, d).dest = d /\ To(l, e).kind = l /\ To(l, e).dest = e
    BY DEF To
  <2>2. QED
    BY <1>1, <2>1, Zenon
<1>2. QED
  BY <1>1 DEF To, Message

LEMMA ServedFacts ==
  ASSUME NEW n, NEW o, NEW S \in SUBSET Node
  PROVE  /\ Served(n, S, o) \in SUBSET Nat /\ IsFiniteSet(Served(n, S, o)) /\ Served(n, S, o) \subseteq Node
         /\ \A d : d \in Served(n, S, o) <=> d \in S \ {n} /\ d % SEND_THREAD_CNT = o
<1>1. Served(n, S, o) \subseteq Node /\ \A d : d \in Served(n, S, o) <=> d \in S \ {n} /\ d % SEND_THREAD_CNT = o
  BY DEF Served
<1>2. IsFiniteSet(Served(n, S, o))
  BY <1>1, Constants, FS_Subset
<1>3. QED
  BY <1>1, <1>2, Constants

(* One message for each node of S, in order. *)
LEMMA OneEach ==
  ASSUME NEW k \in Kind, NEW S \in SUBSET Node, IsFiniteSet(S), S \in SUBSET Nat, NEW s,
         s = [i \in 1 .. Len(Ascending(S)) |-> To(k, Ascending(S)[i])]
  PROVE  s \in Seq(Message) /\ NoRepeat(s, {}) /\ Range(s) = {To(k, d) : d \in S}
<1>1. PICK D : D = Ascending(S)
  OBVIOUS
<1>2. PICK c \in Nat : c = Cardinality(S)
  BY FS_CardinalityType
<1>3. /\ D \in [1 .. c -> S] /\ \A x \in S : \E i \in 1 .. c : D[i] = x
      /\ \A i, j \in 1 .. c : D[i] = D[j] => i = j
  BY <1>1, <1>2, AscendingLists
<1>4. Len(D) = c
  BY <1>2, <1>3
<1>5. s = [i \in 1 .. c |-> To(k, D[i])] /\ \A i \in 1 .. c : To(k, D[i]) \in Message
  BY <1>1, <1>3, <1>4, ToFacts
<1>6. s \in Seq(Message) /\ Len(s) = c
  BY <1>2, <1>5
<1>7. NoRepeat(s, {})
  BY <1>3, <1>5, <1>6, ToFacts DEF NoRepeat
<1>8. Range(s) = {To(k, d) : d \in S}
  <2>1. ASSUME NEW x \in Range(s) PROVE \E d \in S : x = To(k, d)
    BY <1>3, <1>5 DEF Range
  <2>2. ASSUME NEW d \in S PROVE To(k, d) \in Range(s)
    <3>1. PICK j \in 1 .. c : D[j] = d
      BY <1>3
    <3>2. j \in DOMAIN s /\ s[j] = To(k, d)
      BY <1>5, <3>1
    <3>3. QED
      BY <3>2 DEF Range
  <2>3. QED
    BY <2>1, <2>2
<1>9. QED
  BY <1>6, <1>7, <1>8

(* Two messages for each node of S. *)
LEMMA TwoEach ==
  ASSUME NEW S \in SUBSET Node, IsFiniteSet(S), S \in SUBSET Nat, NEW s,
         s = [i \in 1 .. 2 * Len(Ascending(S)) |->
                To(IF i % 2 = 1 THEN "ED2" ELSE "CMA", Ascending(S)[(i + 1) \div 2])]
  PROVE  s \in Seq(Message) /\ NoRepeat(s, {}) /\ Range(s) = {To(k, d) : k \in Counted, d \in S}
<1>1. PICK D : D = Ascending(S)
  OBVIOUS
<1>2. PICK c \in Nat : c = Cardinality(S)
  BY FS_CardinalityType
<1>3. /\ D \in [1 .. c -> S] /\ \A x \in S : \E i \in 1 .. c : D[i] = x
      /\ \A i, j \in 1 .. c : D[i] = D[j] => i = j
  BY <1>1, <1>2, AscendingLists
<1>4. Len(D) = c
  BY <1>2, <1>3
<1>5. PICK K : K = [i \in 1 .. 2 * c |-> IF i % 2 = 1 THEN "ED2" ELSE "CMA"]
  OBVIOUS
<1>6. PICK h : h = [i \in 1 .. 2 * c |-> (i + 1) \div 2]
  OBVIOUS
<1>7. /\ \A i \in 1 .. 2 * c : h[i] \in 1 .. c /\ K[i] \in Counted
      /\ \A i, j \in 1 .. 2 * c : K[i] = K[j] /\ h[i] = h[j] => i = j
      /\ \A j \in 1 .. c, k \in Counted : \E i \in 1 .. 2 * c : h[i] = j /\ K[i] = k
  <2>1. ASSUME NEW i \in 1 .. 2 * c PROVE h[i] \in 1 .. c /\ K[i] \in Counted
    BY <1>5, <1>6 DEF Counted
  <2>2. ASSUME NEW i \in 1 .. 2 * c, NEW j \in 1 .. 2 * c, K[i] = K[j], h[i] = h[j] PROVE i = j
    <3>1. i % 2 = 1 <=> j % 2 = 1
      BY <1>5, <2>2
    <3>2. (i + 1) \div 2 = (j + 1) \div 2
      BY <1>6, <2>2
    <3>3. QED
      BY <3>1, <3>2
  <2>3. ASSUME NEW j \in 1 .. c, NEW k \in Counted PROVE \E i \in 1 .. 2 * c : h[i] = j /\ K[i] = k
    <3>1. 2 * j - 1 \in 1 .. 2 * c /\ 2 * j \in 1 .. 2 * c
      OBVIOUS
    <3>2. (2 * j - 1) % 2 = 1 /\ (2 * j) % 2 # 1 /\ ((2 * j - 1) + 1) \div 2 = j /\ (2 * j + 1) \div 2 = j
      OBVIOUS
    <3>3. h[2 * j - 1] = j /\ h[2 * j] = j /\ K[2 * j - 1] = "ED2" /\ K[2 * j] = "CMA"
      BY <1>5, <1>6, <3>1, <3>2
    <3>4. QED
      BY <3>1, <3>3 DEF Counted
  <2>4. QED
    BY <2>1, <2>2, <2>3
<1>8. s = [i \in 1 .. 2 * c |-> To(K[i], D[h[i]])]
  BY <1>1, <1>4, <1>5, <1>6
<1>9. \A i \in 1 .. 2 * c : To(K[i], D[h[i]]) \in Message /\ D[h[i]] \in S
  BY <1>3, <1>7, ToFacts, KindFacts
<1>10. s \in Seq(Message) /\ Len(s) = 2 * c
  <2>1. PICK e \in Nat : e = 2 * c
    BY <1>2
  <2>2. s \in [1 .. e -> Message]
    BY <1>8, <1>9, <2>1
  <2>3. \A f \in [1 .. e -> Message] : f \in Seq(Message) /\ Len(f) = e
    OBVIOUS
  <2>4. QED
    BY <2>1, <2>2, <2>3, Zenon
<1>11. NoRepeat(s, {})
  <2> SUFFICES ASSUME NEW i \in 1 .. 2 * c, NEW j \in 1 .. 2 * c, s[i] = s[j]
               PROVE  i = j
    BY <1>10 DEF NoRepeat
  <2>1. To(K[i], D[h[i]]) = To(K[j], D[h[j]])
    BY <1>8
  <2>2. K[i] = K[j] /\ D[h[i]] = D[h[j]]
    BY <2>1, ToFacts
  <2>3. QED
    BY <1>3, <1>7, <2>2
<1>12. Range(s) = {To(k, d) : k \in Counted, d \in S}
  <2>1. ASSUME NEW x \in Range(s) PROVE \E k \in Counted, d \in S : x = To(k, d)
    BY <1>7, <1>8, <1>9 DEF Range
  <2>2. ASSUME NEW k \in Counted, NEW d \in S PROVE To(k, d) \in Range(s)
    <3>1. PICK j \in 1 .. c : D[j] = d
      BY <1>3
    <3>2. PICK i \in 1 .. 2 * c : h[i] = j /\ K[i] = k
      BY <1>7
    <3>3. s[i] = To(k, d)
      BY <1>8, <3>1, <3>2
    <3>4. QED
      BY <1>8, <3>3 DEF Range
  <2>3. QED
    BY <2>1, <2>2
<1>13. QED
  BY <1>10, <1>11, <1>12

LEMMA FirstRoundFacts ==
  ASSUME NEW n \in Replica, NEW o \in Output
  PROVE  /\ FirstRound[n][o] \in Seq(Message) /\ NoRepeat(FirstRound[n][o], {})
         /\ \A k, d : To(k, d) \in Range(FirstRound[n][o])
                        <=> d \in Node \ {n} /\ d % SEND_THREAD_CNT = o /\ k \in First(n, d)
<1>1. PICK a : a = send_init_done_to_all_nodes(n, o)
  OBVIOUS
<1>2. PICK b : b = send_key(n, o)
  OBVIOUS
<1>3. PICK c : c = send_public_key(n, o)
  OBVIOUS
<1>4. FirstRound[n][o] = (a \o b) \o c
  BY <1>1, <1>2, <1>3 DEF FirstRound
<1>5. /\ Served(n, Node, o) \in SUBSET Node /\ Served(n, Node, o) \in SUBSET Nat /\ IsFiniteSet(Served(n, Node, o))
      /\ Served(n, Replica, o) \in SUBSET Node /\ Served(n, Replica, o) \in SUBSET Nat
      /\ IsFiniteSet(Served(n, Replica, o))
      /\ \A d : d \in Served(n, Node, o) <=> d \in Node \ {n} /\ d % SEND_THREAD_CNT = o
      /\ \A d : d \in Served(n, Replica, o) <=> d \in Replica \ {n} /\ d % SEND_THREAD_CNT = o
  BY ServedFacts, Constants
<1>6. "INIT_DONE" \in Kind /\ "SECP" \in Kind
  BY DEF Kind, Key
<1>7. a \in Seq(Message) /\ NoRepeat(a, {}) /\ Range(a) = {To("INIT_DONE", d) : d \in Served(n, Node, o)}
  BY <1>1, <1>5, <1>6, OneEach DEF send_init_done_to_all_nodes
<1>8. b \in Seq(Message) /\ NoRepeat(b, {}) /\ Range(b) = {To(k, d) : k \in Counted, d \in Served(n, Node, o)}
  BY <1>2, <1>5, TwoEach DEF send_key
<1>9. c \in Seq(Message) /\ NoRepeat(c, {}) /\ Range(c) = {To("SECP", d) : d \in Served(n, Replica, o)}
  BY <1>3, <1>5, <1>6, OneEach DEF send_public_key
<1>10. /\ \A k, d : To(k, d) \in Range(a) <=> k = "INIT_DONE" /\ d \in Served(n, Node, o)
       /\ \A k, d : To(k, d) \in Range(b) <=> k \in Counted /\ d \in Served(n, Node, o)
       /\ \A k, d : To(k, d) \in Range(c) <=> k = "SECP" /\ d \in Served(n, Replica, o)
  <2>1. \A k, d : To(k, d) \in Range(a) <=> k = "INIT_DONE" /\ d \in Served(n, Node, o)
    BY <1>7, ToFacts
  <2>2. \A k, d : To(k, d) \in Range(b) <=> k \in Counted /\ d \in Served(n, Node, o)
    BY <1>8, ToFacts
  <2>3. \A k, d : To(k, d) \in Range(c) <=> k = "SECP" /\ d \in Served(n, Replica, o)
    BY <1>9, ToFacts
  <2>4. QED
    BY <2>1, <2>2, <2>3
<1>11. Range(a) \cap Range(b) = {} /\ Range(a) \cap Range(c) = {} /\ Range(b) \cap Range(c) = {}
  BY <1>7, <1>8, <1>9, <1>10 DEF Counted
<1>12. /\ a \o b \in Seq(Message) /\ NoRepeat(a \o b, {}) /\ Range(a \o b) = Range(a) \cup Range(b)
  BY <1>7, <1>8, <1>11, ConcatFacts
<1>13. /\ (a \o b) \o c \in Seq(Message) /\ NoRepeat((a \o b) \o c, {})
       /\ Range((a \o b) \o c) = (Range(a) \cup Range(b)) \cup Range(c)
  <2>1. PICK ab : ab = a \o b
    OBVIOUS
  <2>2. ab \in Seq(Message) /\ NoRepeat(ab, {}) /\ Range(ab) \cap Range(c) \subseteq {}
    BY <1>11, <1>12, <2>1
  <2>3. ab \o c \in Seq(Message) /\ NoRepeat(ab \o c, {}) /\ Range(ab \o c) = Range(ab) \cup Range(c)
    BY <1>9, <2>2, ConcatFacts
  <2>4. QED
    BY <1>12, <2>1, <2>3
<1>14. ASSUME NEW k, NEW d
       PROVE  To(k, d) \in Range(FirstRound[n][o])
                <=> d \in Node \ {n} /\ d % SEND_THREAD_CNT = o /\ k \in First(n, d)
  <2>1. To(k, d) \in Range(FirstRound[n][o])
          <=> \/ k \in {"INIT_DONE"} \cup Counted /\ d \in Served(n, Node, o)
              \/ k = "SECP" /\ d \in Served(n, Replica, o)
    BY <1>4, <1>10, <1>13
  <2>2. n # Client
    BY Constants
  <2>3. d = Client => First(n, d) = {"INIT_DONE"} \cup Counted
    BY KindFacts DEF First
  <2>4. d # Client => First(n, d) = {"INIT_DONE"} \cup Counted \cup {"SECP"}
    BY <2>2, KindFacts DEF First, Key, Counted
  <2>5. d \in Node => (d \in Replica <=> d # Client)
    BY Constants DEF Node
  <2>6. QED
    BY <1>5, <2>1, <2>3, <2>4, <2>5, Constants
<1>15. QED
  BY <1>4, <1>13, <1>14

(* The keys among the messages of a buffer, in order. *)
At(msgs, K)        == {i \in 1 .. Len(msgs) : msgs[i] \in K}
IsKeyList(l, n, K) == /\ l \in Seq({n} \X Key) /\ NoRepeat(l, {})
                      /\ \A x : x \in Range(l) <=> \E k \in K : x = <<n, k>>
Listed(n, msgs, P) == [j \in 1 .. Cardinality(P) |-> <<n, msgs[Ascending(P)[j]]>>]

LEMMA KeyList ==
  ASSUME NEW n, NEW msgs \in Seq(Kind), NoRepeat(msgs, {"READY"}), NEW P, NEW l,
         P = At(msgs, Key), l = Listed(n, msgs, P)
  PROVE  IsKeyList(l, n, Key \cap Range(msgs))
<1>1. P \in SUBSET Nat /\ IsFiniteSet(P) /\ Len(msgs) \in Nat
  <2>1. Len(msgs) \in Nat /\ P \subseteq 1 .. Len(msgs)
    BY DEF At
  <2>2. IsFiniteSet(1 .. Len(msgs))
    BY <2>1, FS_Interval
  <2>3. QED
    BY <2>1, <2>2, FS_Subset
<1>2. PICK c \in Nat : c = Cardinality(P)
  BY <1>1, FS_CardinalityType
<1>3. PICK A : A = Ascending(P)
  OBVIOUS
<1>4. /\ A \in [1 .. c -> P] /\ \A x \in P : \E i \in 1 .. c : A[i] = x
      /\ \A i, j \in 1 .. c : A[i] = A[j] => i = j
  BY <1>1, <1>2, <1>3, AscendingLists
<1>5. l = [j \in 1 .. c |-> <<n, msgs[A[j]]>>]
  BY <1>2, <1>3 DEF Listed
<1>6. \A j \in 1 .. c : A[j] \in P /\ A[j] \in 1 .. Len(msgs) /\ msgs[A[j]] \in Key
  BY <1>4 DEF At
<1>7. l \in Seq({n} \X Key) /\ Len(l) = c
  <2>1. l \in [1 .. c -> {n} \X Key]
    BY <1>5, <1>6
  <2>2. \A f \in [1 .. c -> {n} \X Key] : f \in Seq({n} \X Key) /\ Len(f) = c
    OBVIOUS
  <2>3. QED
    BY <2>1, <2>2, Zenon
<1>8. NoRepeat(l, {})
  <2> SUFFICES ASSUME NEW i \in 1 .. c, NEW j \in 1 .. c, l[i] = l[j]
               PROVE  i = j
    BY <1>7 DEF NoRepeat
  <2>1. msgs[A[i]] = msgs[A[j]]
    BY <1>5
  <2>2. msgs[A[i]] \notin {"READY"}
    BY <1>6, KindFacts
  <2>3. A[i] = A[j]
    BY <1>6, <2>1, <2>2 DEF NoRepeat
  <2>4. QED
    BY <1>4, <2>3
<1>9. ASSUME NEW x PROVE x \in Range(l) <=> \E k \in Key \cap Range(msgs) : x = <<n, k>>
  <2>1. ASSUME x \in Range(l) PROVE \E k \in Key \cap Range(msgs) : x = <<n, k>>
    <3>1. PICK j \in 1 .. c : x = <<n, msgs[A[j]]>>
      BY <1>5, <2>1 DEF Range
    <3>2. msgs[A[j]] \in Range(msgs) /\ msgs[A[j]] \in Key
      BY <1>6 DEF Range
    <3>3. QED
      BY <3>1, <3>2
  <2>2. ASSUME NEW k \in Key \cap Range(msgs), x = <<n, k>> PROVE x \in Range(l)
    <3>1. PICK i \in 1 .. Len(msgs) : msgs[i] = k
      BY DEF Range
    <3>2. PICK j \in 1 .. c : A[j] = i
      BY <1>4, <3>1 DEF At
    <3>3. j \in DOMAIN l /\ l[j] = x
      BY <1>5, <2>2, <3>1, <3>2
    <3>4. QED
      BY <3>3 DEF Range
  <2>3. QED
    BY <2>1, <2>2
<1>10. QED
  BY <1>7, <1>8, <1>9 DEF IsKeyList
-----------------------------------------------------------------------------
(* Cardinalities. *)
LEMMA Sizes ==
  /\ Cardinality(Node) \in Nat /\ Cardinality(Node) > 0
  /\ \A S : S \subseteq Node => IsFiniteSet(S) /\ Cardinality(S) \in Nat /\ Cardinality(S) <= Cardinality(Node)
  /\ \A S : S \subseteq Counted => IsFiniteSet(S) /\ Cardinality(S) \in 0 .. 2
  /\ Cardinality(Counted) = 2
<1>1. Cardinality(Node) \in Nat /\ Cardinality(Node) > 0
  BY Constants, FS_CardinalityType, FS_EmptySet
<1>2. ASSUME NEW S, S \subseteq Node
      PROVE  IsFiniteSet(S) /\ Cardinality(S) \in Nat /\ Cardinality(S) <= Cardinality(Node)
  BY <1>2, Constants, FS_Subset, FS_CardinalityType
<1>3. IsFiniteSet(Counted) /\ Cardinality(Counted) = 2
  <2>1. IsFiniteSet({"ED2"}) /\ Cardinality({"ED2"}) = 1
    BY FS_Singleton
  <2>2. Counted = {"ED2"} \cup {"CMA"} /\ "CMA" \notin {"ED2"}
    BY DEF Counted
  <2>3. QED
    BY <2>1, <2>2, FS_AddElement
<1>4. ASSUME NEW S, S \subseteq Counted
      PROVE  IsFiniteSet(S) /\ Cardinality(S) \in 0 .. 2
  <2>1. IsFiniteSet(S) /\ Cardinality(S) <= Cardinality(Counted)
    BY <1>3, <1>4, FS_Subset
  <2>2. Cardinality(S) \in Nat
    BY <2>1, FS_CardinalityType
  <2>3. QED
    BY <1>3, <2>1, <2>2
<1>5. QED
  BY <1>1, <1>2, <1>3, <1>4

LEMMA EmptyRange == Range(<<>>) = {} /\ \A E : NoRepeat(<<>>, E)
  BY DEF Range, NoRepeat

(* The initial state. *)
LEMMA InitInv == Init => Inv
<1> SUFFICES ASSUME Init PROVE Inv
  OBVIOUS
<1>1. TypeOK
  <2>1. ASSUME NEW n \in Replica, NEW o \in Output PROVE init_init_msg_sent(n, o) \in 0 .. 4 * Cardinality(Node)
    <3>1. PICK a : a = Cardinality(Served(n, Node, o))
      OBVIOUS
    <3>2. PICK b : b = Cardinality(Served(n, Replica, o))
      OBVIOUS
    <3>3. a \in Nat /\ b \in Nat /\ a <= Cardinality(Node) /\ b <= Cardinality(Node)
      BY <3>1, <3>2, Sizes, ServedFacts, Constants
    <3>4. init_init_msg_sent(n, o) = 3 * a + b
      BY <3>1, <3>2 DEF init_init_msg_sent
    <3>5. QED
      BY <3>3, <3>4, Sizes
  <2>2. init_msg_sent \in [Replica -> [Output -> 0 .. 4 * Cardinality(Node)]]
    <3>1. init_msg_sent = [n \in Replica |-> [o \in Output |-> init_init_msg_sent(n, o)]]
      BY DEF Init
    <3>2. QED
      BY <2>1, <3>1
  <2>3. /\ up \subseteq Node
        /\ m_queue \in [Replica -> [Output -> Seq([kind : Kind, dest : Node])]]
        /\ output \in [Replica -> [Output -> {"test", "send", "wait", "run"}]]
        /\ mbuf \in [Replica -> [Node -> Seq(Kind)]]
        /\ warmup \in [Replica -> BOOLEAN]
    BY DEF Init
  <2>4. /\ rsp_cnt \in [Node -> 0 .. (Cardinality(Node) - 1)]
        /\ setup_done_barrier \in [Replica -> 0 .. SEND_THREAD_CNT]
    BY Sizes, Constants DEF Init
  <2>5. /\ keyex \in [Replica -> Seq(Node \X Key)] /\ \A s \in Replica : keyex[s] = <<>>
        /\ keys \in [Node -> SUBSET (Node \X Key)] /\ \A n \in Node : keys[n] \subseteq AllKeys(n)
    <3>1. keyex = [s \in Replica |-> <<>>] /\ keys = [n \in Node |-> {}]
      BY DEF Init
    <3>2. <<>> \in Seq(Node \X Key)
      OBVIOUS
    <3>3. {} \in SUBSET (Node \X Key)
      OBVIOUS
    <3>4. keyex \in [Replica -> Seq(Node \X Key)] /\ \A s \in Replica : keyex[s] = <<>>
      BY <3>1, <3>2, Zenon
    <3>5. keys \in [Node -> SUBSET (Node \X Key)] /\ \A n \in Node : keys[n] = {}
      BY <3>1, <3>3, Zenon
    <3>6. QED
      BY <3>4, <3>5
  <2>10. /\ receivedKeys \in [Replica -> [Node -> 0 .. 2]]
         /\ ready \in [Replica -> Nat]
         /\ totKey \in Nat
    BY DEF Init
  <2>12. keyAvail \in BOOLEAN
    BY Zenon DEF Init
  <2>11. input \in [Input -> [pc : {"idle", "store", "test"}, read : Nat]]
    BY DEF Init
  <2>6. \A s \in Replica : Range(keyex[s]) \subseteq AllKeys(s)
    BY <2>5, EmptyRange
  <2>7. worker \in [Replica -> [Worker -> [pc : {"idle", "store", "scan"}, from : Node, read : 0 .. 2]]]
    <3>1. ASSUME NEW s \in Replica
          PROVE  [pc |-> "idle", from |-> s, read |-> 0] \in [pc : {"idle", "store", "scan"}, from : Node, read : 0 .. 2]
      BY Constants
    <3>2. worker = [s \in Replica |-> [w \in Worker |-> [pc |-> "idle", from |-> s, read |-> 0]]]
      BY DEF Init
    <3>3. QED
      BY <3>1, <3>2
  <2>8. \A n \in Replica, d \in Node : Len(mbuf[n][d]) < MESSAGE_PER_BUFFER
    <3>1. \A n \in Replica, d \in Node : mbuf[n][d] = <<>>
      BY DEF Init
    <3>2. QED
      BY <3>1, Constants
  <2>9. QED
    BY <2>2, <2>3, <2>4, <2>5, <2>6, <2>7, <2>8, <2>10, <2>11, <2>12 DEF TypeOK
<1>2. /\ \A n \in Replica, o \in Output : m_queue[n][o] = <<>>
      /\ \A n \in Replica, d \in Node : mbuf[n][d] = <<>> /\ Queue(n, d) = <<>>
      /\ up = {} /\ \A s \in Replica : keyex[s] = <<>> /\ \A d \in Node : keys[d] = {}
  BY Constants DEF Init, Queue
<1>3. QueueInv
  BY <1>2, EmptyRange DEF QueueInv
<1>4. \A n \in Replica, d \in Node : Queued(n, d) = {} /\ Buffered(n, d) = {}
  BY <1>2, EmptyRange DEF Queued, Buffered
<1>5. WayInv
  BY <1>2, <1>4, EmptyRange DEF WayInv
<1>6. KeyInv
  <2>1. \A s \in Replica : keyex[s] = <<>> /\ Range(keyex[s]) = {} /\ NoRepeat(keyex[s], {})
    BY <1>2, EmptyRange
  <2>2. \A d \in Node : keys[d] = {}
    BY DEF Init
  <2>3. QED
    BY <1>4, <2>1, <2>2 DEF KeyInv
<1>7. BarrierInv
  <2>1. ASSUME NEW d \in Node PROVE rsp_cnt[d] = Cardinality(Silent(d))
    <3>1. Silent(d) = Node \ {d}
      BY <1>2 DEF Silent
    <3>2. Cardinality(Node \ {d}) = Cardinality(Node) - 1
      BY Constants, FS_RemoveElement
    <3>3. QED
      BY <3>1, <3>2 DEF Init
  <2>2. QED
    BY <2>1 DEF BarrierInv, Init
<1>8. SendInv
  BY DEF SendInv, Init
<1>9. CountInv
  <2>1. ASSUME NEW s \in Replica, NEW n \in Node PROVE receivedKeys[s][n] >= Cardinality(Missing(s, n))
    <3>1. keys[s] = {}
      BY Constants DEF Init
    <3>2. Missing(s, n) = IF n = s THEN {} ELSE Counted
      BY <3>1 DEF Missing
    <3>3. receivedKeys[s][n] = IF n = s THEN 0 ELSE 2
      BY DEF Init
    <3>4. QED
      BY <3>2, <3>3, Sizes, FS_EmptySet
  <2>2. \A s \in Replica, w \in Worker : worker[s][w].pc = "idle"
    BY DEF Init
  <2>3. QED
    BY <2>1, <2>2 DEF CountInv
<1>10. QED
  BY <1>1, <1>3, <1>5, <1>6, <1>7, <1>8, <1>9 DEF Inv
-----------------------------------------------------------------------------
(* Steps that move no message and no key. *)
Still == UNCHANGED <<up, m_queue, mbuf, keyex, keys>>

LEMMA StillFacts ==
  ASSUME Still
  PROVE  /\ QueueInv => QueueInv'
         /\ WayInv => WayInv'
         /\ KeyInv => KeyInv'
         /\ \A d : Silent(d)' = Silent(d)
         /\ \A s, n : Missing(s, n)' = Missing(s, n)
<1>1. up' = up /\ m_queue' = m_queue /\ mbuf' = mbuf /\ keyex' = keyex /\ keys' = keys
  BY DEF Still
<1>2. /\ \A n, d : Queued(n, d)' = Queued(n, d)
      /\ \A n, d : Buffered(n, d)' = Buffered(n, d)
      /\ \A n, d : Expected(n, d)' = Expected(n, d)
  BY <1>1 DEF Queued, Queue, Buffered, Expected
<1>3. QueueInv => QueueInv'
  BY <1>1 DEF QueueInv
<1>4. WayInv => WayInv'
  BY <1>1, <1>2 DEF WayInv
<1>5. KeyInv => KeyInv'
  BY <1>1, <1>2 DEF KeyInv
<1>6. ASSUME NEW d PROVE Silent(d)' = Silent(d)
  BY <1>1, <1>2 DEF Silent
<1>7. ASSUME NEW s, NEW n PROVE Missing(s, n)' = Missing(s, n)
  BY <1>1 DEF Missing
<1>8. QED
  BY <1>3, <1>4, <1>5, <1>6, <1>7

(* The end of the warm-up, and the input threads of the client. *)
LEMMA QuietStep ==
  ASSUME Inv, \/ \E n \in Replica : is_warmup_done(n)
              \/ \E s \in Replica : receive_ready(s)
              \/ \E i \in Input : count_ready(i) \/ test_ready(i)
  PROVE  Inv'
<1>1. /\ UNCHANGED <<init_msg_sent, output, start, taking>> /\ Still
  BY DEF is_warmup_done, receive_ready, count_ready, test_ready, sending, start, taking, Still
<1>2. /\ UNCHANGED <<up, m_queue, mbuf, keyex, keys, init_msg_sent, output, rsp_cnt, setup_done_barrier,
                     receivedKeys, worker>>
  BY <1>1 DEF Still, start, taking
<1>3. /\ warmup' \in [Replica -> BOOLEAN]
      /\ ready' \in [Replica -> Nat]
      /\ totKey' \in Nat /\ keyAvail' \in BOOLEAN
      /\ input' \in [Input -> [pc : {"idle", "store", "test"}, read : Nat]]
  <2>1. /\ warmup \in [Replica -> BOOLEAN] /\ ready \in [Replica -> Nat] /\ totKey \in Nat /\ keyAvail \in BOOLEAN
        /\ input \in [Input -> [pc : {"idle", "store", "test"}, read : Nat]]
    BY DEF Inv, TypeOK
  <2>2. CASE \E n \in Replica : is_warmup_done(n)
    BY <2>1, <2>2, Zenon DEF is_warmup_done, client
  <2>3. ASSUME NEW s \in Replica, receive_ready(s) PROVE <1>3
    <3>1. thread[s] \in Input
      BY ConstantsAssumption
    <3>2. UNCHANGED <<warmup, totKey, keyAvail>> /\ ready[s] > 0
          /\ ready' = [ready EXCEPT ![s] = @ - 1] /\ input' = [input EXCEPT ![thread[s]] = [pc |-> "store", read |-> totKey]]
      BY <2>3 DEF receive_ready, sending
    <3>3. ready' \in [Replica -> Nat]
      BY <2>1, <3>2
    <3>4. input' \in [Input -> [pc : {"idle", "store", "test"}, read : Nat]]
      BY <2>1, <3>1, <3>2
    <3>5. QED
      BY <2>1, <3>2, <3>3, <3>4, Zenon
  <2>4. ASSUME NEW i \in Input, count_ready(i) PROVE <1>3
    <3>1. /\ UNCHANGED <<warmup, ready, keyAvail>> /\ totKey' = input[i].read + 1
          /\ input' = [input EXCEPT ![i] = [pc |-> "test", read |-> 0]]
      BY <2>4 DEF count_ready, sending
    <3>2. totKey' \in Nat
      BY <2>1, <3>1
    <3>3. input' \in [Input -> [pc : {"idle", "store", "test"}, read : Nat]]
      BY <2>1, <3>1
    <3>4. QED
      BY <2>1, <3>1, <3>2, <3>3, Zenon
  <2>5. ASSUME NEW i \in Input, test_ready(i) PROVE <1>3
    <3>1. /\ UNCHANGED <<warmup, ready, totKey>> /\ keyAvail' = (keyAvail \/ totKey = Cardinality(Replica))
          /\ input' = [input EXCEPT ![i].pc = "idle"]
      BY <2>5 DEF test_ready, sending
    <3>2. keyAvail' \in BOOLEAN
      BY <2>1, <3>1, Zenon
    <3>3. input' \in [Input -> [pc : {"idle", "store", "test"}, read : Nat]]
      BY <2>1, <3>1
    <3>4. QED
      BY <2>1, <3>1, <3>2, <3>3, Zenon
  <2>6. QED
    BY <2>2, <2>3, <2>4, <2>5
<1>4. TypeOK'
  BY <1>2, <1>3 DEF Inv, TypeOK
<1>5. BarrierInv' /\ SendInv' /\ CountInv'
  BY <1>1, <1>2, StillFacts DEF Inv, BarrierInv, SendInv, CountInv
<1>6. QED
  BY <1>1, <1>4, <1>5, StillFacts DEF Inv

(* The output threads in setup. *)
LEMMA SetupStep ==
  ASSUME Inv, NEW n \in Replica, NEW o \in Output, OutputThread_setup(n, o) \/ OutputThread_wait(n, o)
  PROVE  Inv'
<1>1. /\ Still /\ UNCHANGED <<up, m_queue, mbuf, keyex, keys, init_msg_sent, warmup, rsp_cnt, receivedKeys, worker,
                              totKey, keyAvail, input, ready>>
  BY DEF OutputThread_setup, OutputThread_wait, Still, start, taking, client
<1>2. /\ output \in [Replica -> [Output -> {"test", "send", "wait", "run"}]]
      /\ init_msg_sent \in [Replica -> [Output -> 0 .. 4 * Cardinality(Node)]]
      /\ setup_done_barrier \in [Replica -> 0 .. SEND_THREAD_CNT]
  BY DEF Inv, TypeOK
<1>3. /\ output' \in [Replica -> [Output -> {"test", "send", "wait", "run"}]]
      /\ \A m \in Replica, p \in Output : output'[m][p] = "send" => output[m][p] = "send" \/ init_msg_sent[m][p] # 0
  <2>1. PICK v \in {"test", "send", "wait", "run"} :
          output' = [output EXCEPT ![n][o] = v] /\ (v = "send" => init_msg_sent[n][o] # 0)
    <3>1. CASE OutputThread_setup(n, o)
      <4>1. PICK v : v = CASE is_setup_done(n) -> "run"
                           [] init_msg_sent[n][o] = 0 -> "wait"
                           [] OTHER -> "send"
        OBVIOUS
      <4>2. v \in {"test", "send", "wait", "run"} /\ (v = "send" => init_msg_sent[n][o] # 0)
        BY <4>1
      <4>3. output' = [output EXCEPT ![n][o] = v]
        BY <3>1, <4>1, Zenon DEF OutputThread_setup
      <4>4. QED
        BY <4>2, <4>3
    <3>2. CASE OutputThread_wait(n, o)
      <4>1. output' = [output EXCEPT ![n][o] = "run"]
        BY <3>2 DEF OutputThread_wait
      <4>2. QED
        BY <4>1
    <3>3. QED
      BY <3>1, <3>2
  <2>2. QED
    BY <1>2, <2>1
<1>4. /\ setup_done_barrier' \in [Replica -> 0 .. SEND_THREAD_CNT]
      /\ \A m \in Replica : setup_done_barrier[m] = 0 => setup_done_barrier'[m] = 0
  BY <1>2, Constants DEF OutputThread_setup, OutputThread_wait, start
<1>5. TypeOK'
  BY <1>1, <1>3, <1>4 DEF Inv, TypeOK
<1>6. BarrierInv' /\ CountInv'
  BY <1>1, <1>4, StillFacts DEF Inv, BarrierInv, CountInv
<1>7. SendInv'
  <2>1. Cardinality(Node) \in Nat
    BY Sizes
  <2>2. \A m \in Replica, p \in Output : init_msg_sent[m][p] \in Nat
    BY <1>2, <2>1
  <2>3. QED
    BY <1>1, <1>3, <2>2 DEF Inv, SendInv
<1>8. QED
  BY <1>1, <1>5, <1>6, <1>7, StillFacts DEF Inv
-----------------------------------------------------------------------------
(* An INIT_DONE that was waited for. *)
LEMMA ProcessFacts ==
  ASSUME TypeOK, BarrierInv, NEW S \in SUBSET Node, \A d \in S : rsp_cnt[d] > 0, process_setup_msg(S)
  PROVE  /\ rsp_cnt' \in [Node -> 0 .. (Cardinality(Node) - 1)]
         /\ setup_done_barrier' \in [Replica -> 0 .. SEND_THREAD_CNT]
         /\ \A n \in Replica : rsp_cnt'[n] > 0 => setup_done_barrier'[n] = 0
         /\ \A d \in Node : rsp_cnt'[d] = IF d \in S THEN rsp_cnt[d] - 1 ELSE rsp_cnt[d]
<1>1. /\ rsp_cnt \in [Node -> 0 .. (Cardinality(Node) - 1)]
      /\ setup_done_barrier \in [Replica -> 0 .. SEND_THREAD_CNT]
      /\ Cardinality(Node) \in Nat /\ Replica \subseteq Node /\ SEND_THREAD_CNT \in Nat
  BY Sizes, Constants DEF TypeOK
<1>2. rsp_cnt' = [n \in Node |-> IF n \in S THEN rsp_cnt[n] - 1 ELSE rsp_cnt[n]]
  BY DEF process_setup_msg
<1>3. rsp_cnt' \in [Node -> 0 .. (Cardinality(Node) - 1)]
  BY <1>1, <1>2
<1>4. ASSUME NEW n \in Replica
      PROVE  /\ setup_done_barrier'[n] \in 0 .. SEND_THREAD_CNT
             /\ rsp_cnt'[n] > 0 => setup_done_barrier'[n] = 0
  <2>1. setup_done_barrier'[n] = IF n \in S /\ rsp_cnt[n] = 1 THEN setup_done_barrier[n] + SEND_THREAD_CNT
                                 ELSE setup_done_barrier[n]
    BY DEF process_setup_msg
  <2>2. rsp_cnt'[n] = IF n \in S THEN rsp_cnt[n] - 1 ELSE rsp_cnt[n]
    BY <1>1, <1>2
  <2>3. rsp_cnt[n] > 0 => setup_done_barrier[n] = 0
    BY DEF BarrierInv
  <2>4. rsp_cnt[n] \in Nat /\ setup_done_barrier[n] \in 0 .. SEND_THREAD_CNT
    BY <1>1
  <2>5. QED
    BY <1>1, <2>1, <2>2, <2>3, <2>4
<1>5. setup_done_barrier' \in [Replica -> 0 .. SEND_THREAD_CNT]
  <2>1. DOMAIN setup_done_barrier' = Replica /\ setup_done_barrier' = [n \in Replica |-> setup_done_barrier'[n]]
    BY DEF process_setup_msg
  <2>2. QED
    BY <1>4, <2>1
<1>6. QED
  BY <1>2, <1>3, <1>4, <1>5

(* What a node that has not started has not sent. *)
LEMMA NotUp ==
  ASSUME Inv, NEW n \in Node \ up
  PROVE  /\ n \in Replica => \A d \in Node : Queued(n, d) \cup Buffered(n, d) \subseteq {"READY"}
         /\ n \in Replica => \A o \in Output : m_queue[n][o] = <<>>
         /\ \A d \in Node : \A k : <<n, k>> \notin keys[d]
         /\ \A s \in Replica : \A k : <<n, k>> \notin Range(keyex[s])
<1>1. n \in Replica => \A d \in Node : Queued(n, d) \cup Buffered(n, d) \subseteq {"READY"}
  BY DEF Inv, WayInv, Expected
<1>2. n \in Replica => \A o \in Output : m_queue[n][o] = <<>>
  BY DEF Inv, QueueInv
<1>3. ASSUME NEW d \in Node, NEW k, <<n, k>> \in keys[d] PROVE FALSE
  <2>1. <<n, k>>[1] \in up
    BY <1>3 DEF Inv, KeyInv
  <2>2. QED
    BY <2>1
<1>4. ASSUME NEW s \in Replica, NEW k, <<n, k>> \in Range(keyex[s]) PROVE FALSE
  <2>1. <<n, k>>[1] \in up
    BY <1>4 DEF Inv, KeyInv
  <2>2. QED
    BY <2>1
<1>5. QED
  BY <1>1, <1>2, <1>3, <1>4

(* The first round in one step: all keys arrive. *)
LEMMA AtOnceStep ==
  ASSUME Inv, NEW n \in Node, n \in AtOnce, setup(n)
  PROVE  Inv'
<1> USE DEF Inv
<1>1. /\ n \notin up /\ up' = up \cup {n} /\ process_setup_msg(Node \ {n})
      /\ keyex' = [s \in Replica |-> IF s = n THEN keyex[s] ELSE keyex[s] \o Keys(n, s)]
      /\ keys' = [keys EXCEPT ![Client] = IF n = Client THEN @ ELSE @ \cup Range(Keys(n, Client))]
      /\ UNCHANGED <<m_queue, init_msg_sent, output, mbuf, warmup, receivedKeys, worker, totKey, keyAvail, input, ready>>
  BY DEF setup, taking, client
<1>2. /\ \A m, d : Queued(m, d)' = Queued(m, d)
      /\ \A m, d : Buffered(m, d)' = Buffered(m, d)
      /\ \A m, d : Expected(m, d) \subseteq Expected(m, d)'
  BY <1>1 DEF Queued, Queue, Buffered, Expected
<1>3. /\ n \in Replica => \A d \in Node : Queued(n, d) \cup Buffered(n, d) \subseteq {"READY"}
      /\ n \in Replica => \A o \in Output : m_queue[n][o] = <<>>
      /\ \A d \in Node : \A k : <<n, k>> \notin keys[d]
      /\ \A s \in Replica : \A k : <<n, k>> \notin Range(keyex[s])
  BY <1>1, NotUp
<1>4. ASSUME NEW d \in Node \ {n} PROVE n \in Silent(d) /\ Silent(d)' = Silent(d) \ {n}
  <2>1. n \in Silent(d)
    BY <1>1 DEF Silent
  <2>2. n \notin Silent(d)'
    BY <1>1, <1>2, <1>3 DEF Silent
  <2>3. ASSUME NEW m \in Node \ {n} PROVE m \in Silent(d)' <=> m \in Silent(d)
    BY <1>1, <1>2 DEF Silent
  <2>4. Silent(d) \subseteq Node /\ Silent(d)' \subseteq Node
    BY DEF Silent
  <2>5. QED
    BY <2>1, <2>2, <2>3, <2>4
<1>5. Silent(n)' = Silent(n)
  BY <1>1, <1>2 DEF Silent
<1>6. ASSUME NEW d \in Node
      PROVE  /\ IsFiniteSet(Silent(d)) /\ Cardinality(Silent(d)) \in Nat
             /\ rsp_cnt[d] = Cardinality(Silent(d))
             /\ d # n => rsp_cnt[d] > 0 /\ Cardinality(Silent(d)') = Cardinality(Silent(d)) - 1
  <2>1. Silent(d) \subseteq Node
    BY DEF Silent
  <2>2. IsFiniteSet(Silent(d)) /\ Cardinality(Silent(d)) \in Nat
    BY <2>1, Sizes
  <2>3. rsp_cnt[d] = Cardinality(Silent(d))
    BY DEF BarrierInv
  <2>4. ASSUME d # n PROVE rsp_cnt[d] > 0 /\ Cardinality(Silent(d)') = Cardinality(Silent(d)) - 1
    <3>1. n \in Silent(d) /\ Silent(d)' = Silent(d) \ {n}
      BY <1>4, <2>4
    <3>2. Cardinality(Silent(d) \ {n}) = Cardinality(Silent(d)) - 1
      BY <2>2, <3>1, FS_RemoveElement
    <3>3. Silent(d) # {} => Cardinality(Silent(d)) # 0
      BY <2>2, FS_EmptySet
    <3>4. QED
      BY <2>2, <2>3, <3>1, <3>2, <3>3
  <2>5. QED
    BY <2>2, <2>3, <2>4
<1>7. /\ rsp_cnt' \in [Node -> 0 .. (Cardinality(Node) - 1)]
      /\ setup_done_barrier' \in [Replica -> 0 .. SEND_THREAD_CNT]
      /\ \A m \in Replica : rsp_cnt'[m] > 0 => setup_done_barrier'[m] = 0
      /\ \A d \in Node : rsp_cnt'[d] = IF d # n THEN rsp_cnt[d] - 1 ELSE rsp_cnt[d]
  <2>1. Node \ {n} \in SUBSET Node /\ \A d \in Node \ {n} : rsp_cnt[d] > 0
    BY <1>6
  <2>2. QED
    BY <1>1, <2>1, ProcessFacts
<1>8. BarrierInv'
  <2>1. ASSUME NEW d \in Node PROVE rsp_cnt'[d] = Cardinality(Silent(d)')
    BY <1>5, <1>6, <1>7
  <2>2. QED
    BY <1>7, <2>1 DEF BarrierInv
<1>9. QueueInv' /\ WayInv' /\ SendInv'
  <2>1. QueueInv'
    BY <1>1 DEF QueueInv
  <2>2. WayInv'
    BY <1>1, <1>2 DEF WayInv
  <2>3. SendInv'
    BY <1>1 DEF SendInv
  <2>4. QED
    BY <2>1, <2>2, <2>3
<1>10. ASSUME NEW s \in Replica
       PROVE  /\ keyex'[s] \in Seq(Node \X Key) /\ NoRepeat(keyex'[s], {}) /\ keys'[s] = keys[s]
              /\ Range(keyex'[s]) = IF s = n THEN Range(keyex[s]) ELSE Range(keyex[s]) \cup Range(Keys(n, s))
  <2>1. s # Client /\ s \in Node
    BY Constants
  <2>2. keys'[s] = keys[s]
    BY <1>1, <2>1 DEF TypeOK
  <2>3. keyex[s] \in Seq(Node \X Key) /\ NoRepeat(keyex[s], {})
    BY DEF TypeOK, KeyInv
  <2>4. CASE s = n
    BY <1>1, <2>2, <2>3, <2>4
  <2>5. CASE s # n
    <3>1. keyex'[s] = keyex[s] \o Keys(n, s)
      BY <1>1, <2>5
    <3>2. Keys(n, s) \in Seq({n} \X Key) /\ NoRepeat(Keys(n, s), {})
      BY KeysOf
    <3>3. Keys(n, s) \in Seq(Node \X Key)
      BY <3>2
    <3>4. Range(keyex[s]) \cap Range(Keys(n, s)) \subseteq {}
      <4>1. ASSUME NEW x \in Range(Keys(n, s)) PROVE x \notin Range(keyex[s])
        <5>1. IsKey(x, n, s)
          BY KeysOf
        <5>2. PICK k : x = <<n, k>>
          BY <5>1 DEF IsKey
        <5>3. QED
          BY <1>3, <5>2
      <4>2. QED
        BY <4>1
    <3>5. QED
      BY <2>2, <2>3, <2>5, <3>1, <3>2, <3>3, <3>4, ConcatFacts
  <2>6. QED
    BY <2>4, <2>5
<1>11. /\ keys' \in [Node -> SUBSET (Node \X Key)]
       /\ \A d \in Node : keys'[d] = IF d = Client /\ n # Client THEN keys[d] \cup Range(Keys(n, d)) ELSE keys[d]
  <2>1. keys \in [Node -> SUBSET (Node \X Key)] /\ Client \in Node
    BY Constants DEF TypeOK
  <2>2. Range(Keys(n, Client)) \in SUBSET (Node \X Key)
    <3>1. Keys(n, Client) \in Seq({n} \X Key)
      BY KeysOf
    <3>2. QED
      BY <3>1 DEF Range
  <2>3. QED
    BY <1>1, <2>1, <2>2
<1>12. ASSUME NEW d, d # n, NEW x \in Range(Keys(n, d))
       PROVE  x \in AllKeys(d) /\ x[1] = n /\ \E k : x = <<n, k>>
  <2>1. IsKey(x, n, d)
    BY KeysOf
  <2>2. PICK k \in Range(Kinds(n, d)) : x = <<n, k>>
    BY <2>1 DEF IsKey
  <2>3. <<n, k>> \in AllKeys(d)
    BY <1>12, <2>2, KeyFacts
  <2>4. QED
    BY <2>2, <2>3
<1>13. TypeOK'
  <2>1. /\ keyex' \in [Replica -> Seq(Node \X Key)] /\ \A s \in Replica : Range(keyex'[s]) \subseteq AllKeys(s)
    <3>1. DOMAIN keyex' = Replica /\ keyex' = [s \in Replica |-> keyex'[s]]
      BY <1>1
    <3>2. ASSUME NEW s \in Replica PROVE Range(keyex'[s]) \subseteq AllKeys(s)
      BY <1>10, <1>12 DEF TypeOK
    <3>3. QED
      BY <1>10, <3>1, <3>2
  <2>2. \A d \in Node : keys'[d] \subseteq AllKeys(d)
    BY <1>11, <1>12 DEF TypeOK
  <2>3. up' \subseteq Node
    BY <1>1 DEF TypeOK
  <2>4. QED
    BY <1>1, <1>7, <1>11, <2>1, <2>2, <2>3 DEF TypeOK
<1>14. KeyInv'
  <2>1. ASSUME NEW m \in Replica, NEW d \in Node, NEW k \in Key, k \in Queued(m, d) \cup Buffered(m, d)
        PROVE  <<m, k>> \notin keys'[d] /\ (d \in Replica => <<m, k>> \notin Range(keyex'[d]))
    <3>1. m # n
      <4>1. k # "READY"
        BY KindFacts
      <4>2. QED
        BY <1>3, <2>1, <4>1
    <3>2. <<m, k>> \notin keys[d] /\ (d \in Replica => <<m, k>> \notin Range(keyex[d]))
      BY <2>1 DEF KeyInv
    <3>3. d # n => <<m, k>> \notin Range(Keys(n, d))
      <4>1. ASSUME d # n, <<m, k>> \in Range(Keys(n, d)) PROVE FALSE
        <5>1. <<m, k>>[1] = n
          BY <1>12, <4>1
        <5>2. QED
          BY <3>1, <5>1
      <4>2. QED
        BY <4>1
    <3>4. QED
      BY <1>10, <1>11, <3>2, <3>3
  <2>2. ASSUME NEW s \in Replica
        PROVE  /\ NoRepeat(keyex'[s], {}) /\ Range(keyex'[s]) \cap keys'[s] = {}
               /\ \A x \in Range(keyex'[s]) : x[1] \in up'
    <3>1. NoRepeat(keyex'[s], {}) /\ keys'[s] = keys[s]
      BY <1>10
    <3>2. ASSUME NEW x \in Range(keyex'[s]) PROVE x \notin keys[s] /\ x[1] \in up'
      <4>1. CASE x \in Range(keyex[s])
        BY <1>1, <4>1 DEF KeyInv
      <4>2. CASE s # n /\ x \in Range(Keys(n, s))
        <5>1. x[1] = n /\ \E k : x = <<n, k>>
          BY <1>12, <4>2
        <5>2. s \in Node
          BY Constants
        <5>3. QED
          BY <1>1, <1>3, <5>1, <5>2
      <4>3. QED
        BY <1>10, <4>1, <4>2
    <3>3. QED
      BY <3>1, <3>2
  <2>3. ASSUME NEW d \in Node, NEW x \in keys'[d] PROVE x[1] \in up' /\ (d # Client => d \in up')
    <3>1. CASE x \in keys[d]
      BY <1>1, <3>1 DEF KeyInv
    <3>2. CASE d = Client /\ d # n /\ x \in Range(Keys(n, d))
      BY <1>1, <1>12, <3>2
    <3>3. QED
      BY <1>11, <3>1, <3>2
  <2>4. QED
    BY <1>2, <2>1, <2>2, <2>3 DEF KeyInv
<1>15. CountInv'
  <2>1. ASSUME NEW s \in Replica, NEW m \in Node PROVE Missing(s, m)' = Missing(s, m)
    BY <1>10 DEF Missing
  <2>2. QED
    BY <1>1, <2>1 DEF CountInv, TypeOK
<1>16. QED
  BY <1>8, <1>9, <1>13, <1>14, <1>15

(* The first round into the queues of the output threads. *)
LEMMA FirstRoundStep ==
  ASSUME Inv, NEW n \in Node, n \notin AtOnce, setup(n)
  PROVE  Inv'
<1> USE DEF Inv
<1>1. /\ n \in Replica /\ n \notin up /\ up' = up \cup {n} /\ m_queue' = [m_queue EXCEPT ![n] = FirstRound[n]]
      /\ UNCHANGED <<rsp_cnt, setup_done_barrier, keyex, keys, init_msg_sent, output, mbuf, warmup, receivedKeys,
                     worker, totKey, keyAvail, input, ready>>
  BY ConstantsAssumption DEF setup, taking, client, Node
<1>2. m_queue \in [Replica -> [Output -> Seq(Message)]]
  BY DEF TypeOK, Message
<1>3. FirstRound[n] \in [Output -> Seq(Message)]
  <2>1. \A o \in Output : FirstRound[n][o] \in Seq(Message)
    BY <1>1, FirstRoundFacts
  <2>2. FirstRound[n] = [o \in Output |-> FirstRound[n][o]]
    BY <1>1 DEF FirstRound
  <2>3. QED
    BY <2>1, <2>2
<1>4. /\ m_queue' \in [Replica -> [Output -> Seq(Message)]]
      /\ \A o \in Output : m_queue'[n][o] = FirstRound[n][o]
      /\ \A m \in Replica \ {n} : m_queue'[m] = m_queue[m]
  BY <1>1, <1>2, <1>3
<1>5. /\ \A d \in Node : Queued(n, d)' = IF d = n THEN {} ELSE First(n, d)
      /\ \A m \in Replica \ {n}, d \in Node : Queued(m, d)' = Queued(m, d)
      /\ \A m \in Replica, d \in Node : Buffered(m, d)' = Buffered(m, d)
  <2>1. ASSUME NEW d \in Node PROVE Queued(n, d)' = IF d = n THEN {} ELSE First(n, d)
    <3>1. d % SEND_THREAD_CNT \in Output
      BY Constants
    <3>2. Queue(n, d)' = FirstRound[n][d % SEND_THREAD_CNT]
      BY <1>4, <3>1 DEF Queue
    <3>3. \A k : To(k, d) \in Range(FirstRound[n][d % SEND_THREAD_CNT]) <=> d # n /\ k \in First(n, d)
      BY <1>1, <3>1, FirstRoundFacts
    <3>4. First(n, d) \subseteq Kind
      BY KindFacts DEF First, Kind
    <3>5. QED
      BY <3>2, <3>3, <3>4 DEF Queued
  <2>2. \A m \in Replica \ {n}, d \in Node : Queued(m, d)' = Queued(m, d)
    BY <1>4 DEF Queued, Queue
  <2>3. \A m \in Replica, d \in Node : Buffered(m, d)' = Buffered(m, d)
    BY <1>1 DEF Buffered
  <2>4. QED
    BY <2>1, <2>2, <2>3
<1>6. /\ \A d \in Node : Queued(n, d) \cup Buffered(n, d) \subseteq {"READY"}
      /\ \A d \in Node : \A k : <<n, k>> \notin keys[d]
      /\ \A s \in Replica : \A k : <<n, k>> \notin Range(keyex[s])
  BY <1>1, NotUp
<1>7. TypeOK'
  <2>1. m_queue' \in [Replica -> [Output -> Seq([kind : Kind, dest : Node])]]
    BY <1>4 DEF Message
  <2>2. up' \subseteq Node
    BY <1>1 DEF TypeOK
  <2>3. QED
    BY <1>1, <2>1, <2>2 DEF TypeOK
<1>8. QueueInv'
  <2>1. ASSUME NEW o \in Output
        PROVE  /\ NoRepeat(m_queue'[n][o], {To("READY", Client)})
               /\ \A i \in 1 .. Len(m_queue'[n][o]) : m_queue'[n][o][i].dest % SEND_THREAD_CNT = o
    <3>1. PICK q : q = FirstRound[n][o]
      OBVIOUS
    <3>2. /\ q \in Seq(Message) /\ NoRepeat(q, {})
          /\ \A k, d : To(k, d) \in Range(q) => d % SEND_THREAD_CNT = o
      BY <1>1, <3>1, FirstRoundFacts
    <3>3. NoRepeat(q, {To("READY", Client)})
      BY <3>2 DEF NoRepeat
    <3>4. ASSUME NEW i \in 1 .. Len(q) PROVE q[i].dest % SEND_THREAD_CNT = o
      <4>1. q[i] \in Message /\ q[i] \in Range(q)
        BY <3>2 DEF Range
      <4>2. q[i] = To(q[i].kind, q[i].dest)
        BY <4>1, ToFacts
      <4>3. To(q[i].kind, q[i].dest) \in Range(q)
        BY <4>1, <4>2
      <4>4. QED
        BY <3>2, <4>3
    <3>5. m_queue'[n][o] = q
      BY <1>4, <3>1
    <3>6. QED
      BY <3>3, <3>4, <3>5
  <2>2. ASSUME NEW m \in Replica, NEW o \in Output
        PROVE  /\ NoRepeat(m_queue'[m][o], {To("READY", Client)})
               /\ \A i \in 1 .. Len(m_queue'[m][o]) : m_queue'[m][o][i].dest % SEND_THREAD_CNT = o
               /\ m \notin up' => m_queue'[m][o] = <<>>
    <3>1. CASE m = n
      BY <1>1, <2>1, <3>1
    <3>2. CASE m # n
      <4>1. m_queue'[m][o] = m_queue[m][o]
        BY <1>4, <3>2
      <4>2. QED
        BY <1>1, <4>1 DEF QueueInv
    <3>3. QED
      BY <3>1, <3>2
  <2>3. QED
    BY <2>2 DEF QueueInv
<1>9. WayInv'
  <2>1. ASSUME NEW m \in Replica, NEW d \in Node
        PROVE  /\ NoRepeat(mbuf'[m][d], {"READY"})
               /\ Queued(m, d)' \subseteq Expected(m, d)' /\ Buffered(m, d)' \subseteq Expected(m, d)'
               /\ Queued(m, d)' \cap Buffered(m, d)' \subseteq {"READY"}
    <3>1. /\ NoRepeat(mbuf[m][d], {"READY"})
          /\ Queued(m, d) \subseteq Expected(m, d) /\ Buffered(m, d) \subseteq Expected(m, d)
          /\ Queued(m, d) \cap Buffered(m, d) \subseteq {"READY"}
      BY DEF WayInv
    <3>2. Expected(m, d) \subseteq Expected(m, d)'
      BY <1>1 DEF Expected
    <3>3. CASE m # n
      BY <1>1, <1>5, <3>1, <3>2, <3>3
    <3>4. CASE m = n
      <4>1. (IF d = n THEN {} ELSE First(n, d)) \subseteq Expected(n, d)'
        BY <1>1 DEF Expected
      <4>2. Buffered(n, d) \subseteq {"READY"}
        BY <1>6
      <4>3. QED
        BY <1>1, <1>5, <3>1, <3>2, <3>4, <4>1, <4>2
    <3>5. QED
      BY <3>3, <3>4
  <2>2. QED
    BY <2>1 DEF WayInv
<1>10. KeyInv'
  <2>1. ASSUME NEW m \in Replica, NEW d \in Node, NEW k \in Key, k \in Queued(m, d)' \cup Buffered(m, d)'
        PROVE  <<m, k>> \notin keys[d] /\ (d \in Replica => <<m, k>> \notin Range(keyex[d]))
    <3>1. CASE m = n
      BY <1>6, <3>1
    <3>2. CASE m # n
      BY <1>5, <2>1, <3>2 DEF KeyInv
    <3>3. QED
      BY <3>1, <3>2
  <2>2. \A s \in Replica : \A x \in Range(keyex[s]) : x[1] \in up'
    BY <1>1 DEF KeyInv
  <2>3. \A d \in Node : \A x \in keys[d] : x[1] \in up' /\ (d # Client => d \in up')
    BY <1>1 DEF KeyInv
  <2>4. QED
    BY <1>1, <2>1, <2>2, <2>3 DEF KeyInv
<1>11. BarrierInv'
  <2>1. ASSUME NEW d \in Node PROVE Silent(d)' = Silent(d)
    <3>1. n \in Silent(d)' <=> n \in Silent(d)
      BY <1>1, <1>5 DEF Silent, First
    <3>2. ASSUME NEW m \in Node \ {n} PROVE m \in Silent(d)' <=> m \in Silent(d)
      BY <1>1, <1>5 DEF Silent
    <3>3. Silent(d) \subseteq Node /\ Silent(d)' \subseteq Node
      BY DEF Silent
    <3>4. QED
      BY <3>1, <3>2, <3>3
  <2>2. QED
    BY <1>1, <2>1 DEF BarrierInv
<1>12. SendInv' /\ CountInv'
  <2>1. \A s, m : Missing(s, m)' = Missing(s, m)
    BY <1>1 DEF Missing
  <2>2. QED
    BY <1>1, <2>1 DEF SendInv, CountInv
<1>13. QED
  BY <1>7, <1>8, <1>9, <1>10, <1>11, <1>12

(* An instance thread stores a key. *)
LEMMA StoreStep ==
  ASSUME Inv, NEW s \in Replica, NEW w \in Worker, NEW i \in Takable(s), store_key(s, w, i)
  PROVE  Inv'
<1> USE DEF Inv
<1>1. PICK k : k = keyex[s][i]
  OBVIOUS
<1>2. PICK v : v = [pc |-> IF k[2] \in Counted THEN "store" ELSE "scan", from |-> k[1], read |-> receivedKeys[s][k[1]]]
  OBVIOUS
<1>3. /\ s \in up /\ keyex' = [keyex EXCEPT ![s] = RemoveAt(@, i)] /\ keys' = [keys EXCEPT ![s] = @ \cup {k}]
      /\ worker' = [worker EXCEPT ![s][w] = v]
      /\ UNCHANGED <<m_queue, init_msg_sent, output, mbuf, warmup, up, rsp_cnt, setup_done_barrier, receivedKeys,
                     totKey, keyAvail, input, ready>>
  BY <1>1, <1>2 DEF store_key, tsetup, sending, start, client
<1>4. /\ keyex \in [Replica -> Seq(Node \X Key)] /\ keys \in [Node -> SUBSET (Node \X Key)]
      /\ worker \in [Replica -> [Worker -> [pc : {"idle", "store", "scan"}, from : Node, read : 0 .. 2]]]
      /\ receivedKeys \in [Replica -> [Node -> 0 .. 2]] /\ Range(keyex[s]) \subseteq AllKeys(s)
      /\ NoRepeat(keyex[s], {}) /\ i \in 1 .. Len(keyex[s]) /\ s \in Node
  BY Constants DEF TypeOK, KeyInv, Takable
<1>5. /\ RemoveAt(keyex[s], i) \in Seq(Node \X Key) /\ NoRepeat(RemoveAt(keyex[s], i), {})
      /\ Range(RemoveAt(keyex[s], i)) = Range(keyex[s]) \ {k} /\ k \in Range(keyex[s])
  BY <1>1, <1>4, RemoveFacts
<1>6. PICK n \in Node, l \in Key : k = <<n, l>> /\ n # s /\ l \in Range(Kinds(n, s))
  <2>1. k \in AllKeys(s) /\ k \in Node \X Key
    BY <1>4, <1>5, KeyFacts
  <2>2. PICK n \in Node, l \in Key : k = <<n, l>>
    BY <2>1
  <2>3. QED
    BY <2>1, <2>2, KeyFacts
<1>7. /\ keyex' \in [Replica -> Seq(Node \X Key)] /\ keyex'[s] = RemoveAt(keyex[s], i)
      /\ \A t \in Replica \ {s} : keyex'[t] = keyex[t]
  BY <1>3, <1>4, <1>5
<1>8. /\ keys' \in [Node -> SUBSET (Node \X Key)] /\ keys'[s] = keys[s] \cup {k}
      /\ \A d \in Node \ {s} : keys'[d] = keys[d]
  BY <1>3, <1>4, <1>6
<1>9. /\ v.pc = (IF l \in Counted THEN "store" ELSE "scan") /\ v.from = n /\ v.read = receivedKeys[s][n]
      /\ v \in [pc : {"idle", "store", "scan"}, from : Node, read : 0 .. 2]
  BY <1>2, <1>4, <1>6
<1>10. /\ worker' \in [Replica -> [Worker -> [pc : {"idle", "store", "scan"}, from : Node, read : 0 .. 2]]]
       /\ worker'[s][w] = v
       /\ \A t \in Replica, u \in Worker : <<t, u>> # <<s, w>> => worker'[t][u] = worker[t][u]
  BY <1>3, <1>4, <1>9
<1>11. TypeOK'
  <2>1. \A t \in Replica : Range(keyex'[t]) \subseteq AllKeys(t)
    BY <1>5, <1>7 DEF TypeOK
  <2>2. \A d \in Node : keys'[d] \subseteq AllKeys(d)
    <3>1. \A d \in Node : keys[d] \subseteq AllKeys(d)
      BY DEF TypeOK
    <3>2. k \in AllKeys(s) /\ s \in Node
      BY <1>4, <1>5
    <3>3. keys'[s] \subseteq AllKeys(s)
      BY <1>8, <3>1, <3>2
    <3>4. QED
      BY <1>8, <3>1, <3>3
  <2>3. QED
    BY <1>3, <1>7, <1>8, <1>10, <2>1, <2>2 DEF TypeOK
<1>12. /\ \A m, d : Queued(m, d)' = Queued(m, d)
       /\ \A m, d : Buffered(m, d)' = Buffered(m, d)
       /\ \A m, d : Expected(m, d)' = Expected(m, d)
       /\ \A d : Silent(d)' = Silent(d)
  <2>1. /\ \A m, d : Queued(m, d)' = Queued(m, d)
        /\ \A m, d : Buffered(m, d)' = Buffered(m, d)
        /\ \A m, d : Expected(m, d)' = Expected(m, d)
    BY <1>3 DEF Queued, Queue, Buffered, Expected
  <2>2. ASSUME NEW d PROVE Silent(d)' = Silent(d)
    BY <1>3, <2>1 DEF Silent
  <2>3. QED
    BY <2>1, <2>2
<1>13. QueueInv' /\ WayInv' /\ BarrierInv' /\ SendInv'
  <2>1. QueueInv'
    BY <1>3 DEF QueueInv
  <2>2. WayInv'
    BY <1>3, <1>12 DEF WayInv
  <2>3. BarrierInv' /\ SendInv'
    BY <1>3, <1>12 DEF BarrierInv, SendInv
  <2>4. QED
    BY <2>1, <2>2, <2>3
<1>14. KeyInv'
  <2>1. ASSUME NEW m \in Replica, NEW d \in Node, NEW j \in Key, j \in Queued(m, d) \cup Buffered(m, d)
        PROVE  <<m, j>> \notin keys'[d] /\ (d \in Replica => <<m, j>> \notin Range(keyex'[d]))
    <3>1. <<m, j>> \notin keys[d] /\ (d \in Replica => <<m, j>> \notin Range(keyex[d]))
      BY <2>1 DEF KeyInv
    <3>2. QED
      BY <1>5, <1>7, <1>8, <3>1
  <2>2. ASSUME NEW t \in Replica
        PROVE  /\ NoRepeat(keyex'[t], {}) /\ Range(keyex'[t]) \cap keys'[t] = {}
               /\ \A x \in Range(keyex'[t]) : x[1] \in up
    <3>1. t \in Node
      BY Constants
    <3>2. /\ NoRepeat(keyex[t], {}) /\ Range(keyex[t]) \cap keys[t] = {}
          /\ \A x \in Range(keyex[t]) : x[1] \in up
      BY DEF KeyInv
    <3>3. QED
      BY <1>5, <1>7, <1>8, <3>1, <3>2
  <2>3. ASSUME NEW d \in Node, NEW x \in keys'[d] PROVE x[1] \in up /\ (d # Client => d \in up)
    <3>1. CASE x \in keys[d]
      BY <3>1 DEF KeyInv
    <3>2. CASE d = s /\ x = k
      BY <1>3, <1>5, <3>2 DEF KeyInv
    <3>3. QED
      BY <1>8, <3>1, <3>2
  <2>4. QED
    BY <1>3, <1>12, <2>1, <2>2, <2>3 DEF KeyInv
<1>15. CountInv'
  <2>1. ASSUME NEW t \in Replica, NEW m \in Node
        PROVE  /\ Cardinality(Missing(t, m)') \in Nat /\ Cardinality(Missing(t, m)) \in Nat
               /\ Cardinality(Missing(t, m)') <= Cardinality(Missing(t, m))
    <3>1. t \in Node
      BY Constants
    <3>2. Missing(t, m)' \subseteq Missing(t, m) /\ Missing(t, m) \subseteq Counted /\ Missing(t, m)' \subseteq Counted
      BY <1>8, <3>1 DEF Missing
    <3>3. IsFiniteSet(Missing(t, m)) /\ Cardinality(Missing(t, m)) \in Nat /\ Cardinality(Missing(t, m)') \in Nat
      BY <3>2, Sizes
    <3>4. QED
      BY <3>2, <3>3, FS_Subset
  <2>2. ASSUME l \in Counted PROVE Cardinality(Missing(s, n)') < Cardinality(Missing(s, n))
    <3>1. Missing(s, n)' = Missing(s, n) \ {l} /\ l \in Missing(s, n)
      <4>1. k \notin keys[s]
        BY <1>5 DEF KeyInv
      <4>2. QED
        BY <1>6, <1>8, <2>2, <4>1 DEF Missing
    <3>2. IsFiniteSet(Missing(s, n)) /\ Cardinality(Missing(s, n)) \in Nat
      <4>1. Missing(s, n) \subseteq Counted
        BY DEF Missing
      <4>2. QED
        BY <4>1, Sizes
    <3>3. Cardinality(Missing(s, n) \ {l}) = Cardinality(Missing(s, n)) - 1
      BY <3>1, <3>2, FS_RemoveElement
    <3>4. QED
      BY <3>1, <3>2, <3>3
  <2>3. ASSUME NEW t \in Replica, NEW m \in Node PROVE receivedKeys'[t][m] >= Cardinality(Missing(t, m)')
    <3>1. receivedKeys[t][m] >= Cardinality(Missing(t, m))
      BY DEF CountInv
    <3>2. receivedKeys[t][m] \in Nat
      BY <1>4
    <3>3. QED
      BY <1>3, <2>1, <3>1, <3>2
  <2>4. ASSUME NEW t \in Replica, NEW u \in Worker PROVE worker'[t][u].pc # "idle" => t \in up
    BY <1>3, <1>10 DEF CountInv
  <2>5. ASSUME NEW t \in Replica, NEW u \in Worker, NEW m \in Node,
               worker'[t][u].pc = "store", worker'[t][u].from = m
        PROVE  worker'[t][u].read > Cardinality(Missing(t, m)')
    <3>1. CASE t = s /\ u = w
      <4>1. worker'[t][u] = v
        BY <1>10, <3>1
      <4>2. l \in Counted /\ m = n /\ worker'[t][u].read = receivedKeys[s][n]
        BY <1>9, <2>5, <4>1
      <4>3. receivedKeys[s][n] >= Cardinality(Missing(s, n))
        BY DEF CountInv
      <4>7. receivedKeys[s][n] \in Nat
        <5>1. n \in Node /\ receivedKeys \in [Replica -> [Node -> 0 .. 2]]
          BY <1>4, <1>6
        <5>2. QED
          BY <5>1
      <4>4. Cardinality(Missing(s, n)') \in Nat /\ Cardinality(Missing(s, n)) \in Nat
        BY <2>1
      <4>5. Cardinality(Missing(s, n)') < Cardinality(Missing(s, n))
        BY <2>2, <4>2
      <4>6. QED
        BY <3>1, <4>2, <4>3, <4>4, <4>5, <4>7
    <3>2. CASE <<t, u>> # <<s, w>>
      <4>1. worker'[t][u] = worker[t][u]
        BY <1>10, <3>2
      <4>2. worker[t][u].read > Cardinality(Missing(t, m)) /\ worker[t][u].read \in 0 .. 2
        BY <1>4, <2>5, <4>1 DEF CountInv
      <4>3. /\ Cardinality(Missing(t, m)') \in Nat /\ Cardinality(Missing(t, m)) \in Nat
            /\ Cardinality(Missing(t, m)') <= Cardinality(Missing(t, m))
        BY <2>1
      <4>4. QED
        BY <4>1, <4>2, <4>3
    <3>3. QED
      BY <3>1, <3>2
  <2>6. QED
    BY <1>3, <2>3, <2>4, <2>5 DEF CountInv
<1>16. QED
  BY <1>11, <1>13, <1>14, <1>15

(* An instance thread counts a key. *)
LEMMA CountStep ==
  ASSUME Inv, NEW s \in Replica, NEW w \in Worker, count_key(s, w)
  PROVE  Inv'
<1> USE DEF Inv
<1>1. PICK v : v = worker[s][w]
  OBVIOUS
<1>2. /\ v.pc = "store" /\ receivedKeys' = [receivedKeys EXCEPT ![s][v.from] = v.read - 1]
      /\ worker' = [worker EXCEPT ![s][w].pc = "scan"] /\ Still
      /\ UNCHANGED <<m_queue, init_msg_sent, output, mbuf, warmup, up, rsp_cnt, setup_done_barrier,
                     totKey, keyAvail, input, ready, keyex, keys>>
  BY <1>1 DEF count_key, sending, start, client, Still
<1>3. /\ worker \in [Replica -> [Worker -> [pc : {"idle", "store", "scan"}, from : Node, read : 0 .. 2]]]
      /\ receivedKeys \in [Replica -> [Node -> 0 .. 2]]
  BY DEF TypeOK
<1>4. v.from \in Node /\ v.read \in 0 .. 2
  BY <1>1, <1>3
<1>5. v.read > Cardinality(Missing(s, v.from)) /\ Cardinality(Missing(s, v.from)) \in Nat
  <2>1. v.read > Cardinality(Missing(s, v.from))
    BY <1>1, <1>2, <1>4 DEF CountInv
  <2>2. Missing(s, v.from) \subseteq Counted
    BY DEF Missing
  <2>3. QED
    BY <2>1, <2>2, Sizes
<1>6. /\ receivedKeys' \in [Replica -> [Node -> 0 .. 2]] /\ receivedKeys'[s][v.from] = v.read - 1
      /\ \A t \in Replica, m \in Node : <<t, m>> # <<s, v.from>> => receivedKeys'[t][m] = receivedKeys[t][m]
  BY <1>2, <1>3, <1>4, <1>5
<1>7. /\ worker' \in [Replica -> [Worker -> [pc : {"idle", "store", "scan"}, from : Node, read : 0 .. 2]]]
      /\ worker'[s][w].pc = "scan"
      /\ \A t \in Replica, u \in Worker : <<t, u>> # <<s, w>> => worker'[t][u] = worker[t][u]
  BY <1>2, <1>3
<1>8. TypeOK'
  BY <1>2, <1>6, <1>7 DEF TypeOK
<1>9. BarrierInv' /\ SendInv'
  BY <1>2, StillFacts DEF BarrierInv, SendInv
<1>10. CountInv'
  <2>1. \A t, m : Missing(t, m)' = Missing(t, m)
    BY <1>2, StillFacts
  <2>2. ASSUME NEW t \in Replica, NEW m \in Node PROVE receivedKeys'[t][m] >= Cardinality(Missing(t, m))
    <3>1. CASE t = s /\ m = v.from
      <4>1. receivedKeys'[t][m] = v.read - 1
        BY <1>6, <3>1
      <4>2. QED
        BY <1>4, <1>5, <3>1, <4>1
    <3>2. CASE <<t, m>> # <<s, v.from>>
      BY <1>6, <3>2 DEF CountInv
    <3>3. QED
      BY <3>1, <3>2
  <2>3. ASSUME NEW t \in Replica, NEW u \in Worker
        PROVE  /\ worker'[t][u].pc # "idle" => t \in up
               /\ \A m \in Node : worker'[t][u].pc = "store" /\ worker'[t][u].from = m
                                    => worker'[t][u].read > Cardinality(Missing(t, m))
    <3>1. CASE t = s /\ u = w
      <4>1. worker'[t][u].pc = "scan" /\ worker[t][u].pc = "store"
        BY <1>1, <1>2, <1>7, <3>1
      <4>2. QED
        BY <4>1 DEF CountInv
    <3>2. CASE <<t, u>> # <<s, w>>
      BY <1>7, <3>2 DEF CountInv
    <3>3. QED
      BY <3>1, <3>2
  <2>4. QED
    BY <1>2, <2>1, <2>2, <2>3 DEF CountInv
<1>11. QED
  BY <1>2, <1>8, <1>9, <1>10, StillFacts

(* An instance thread looks for missing keys, and may say READY. *)
LEMMA ReadyStep ==
  ASSUME Inv, NEW s \in Replica, NEW w \in Worker, send_ready(s, w)
  PROVE  Inv'
<1> USE DEF Inv
<1>1. PICK o : o = Client % SEND_THREAD_CNT
  OBVIOUS
<1>2. PICK r : r = To("READY", Client)
  OBVIOUS
<1>3. /\ worker[s][w].pc = "scan"
      /\ m_queue' = m_queue \/ m_queue' = [m_queue EXCEPT ![s][o] = Append(@, r)]
      /\ worker' = [worker EXCEPT ![s][w] = [pc |-> "idle", from |-> s, read |-> 0]]
      /\ UNCHANGED <<init_msg_sent, output, mbuf, warmup, up, rsp_cnt, setup_done_barrier, receivedKeys,
                     totKey, keyAvail, input, keyex, keys, ready>>
  BY <1>1, <1>2 DEF send_ready, start, client
<1>4. /\ worker \in [Replica -> [Worker -> [pc : {"idle", "store", "scan"}, from : Node, read : 0 .. 2]]]
      /\ m_queue \in [Replica -> [Output -> Seq(Message)]]
      /\ s \in Node /\ o \in Output /\ r \in Message /\ "READY" \in Kind
  BY <1>1, <1>2, Constants, ToFacts DEF TypeOK, Message, Kind
<1>5. /\ worker' \in [Replica -> [Worker -> [pc : {"idle", "store", "scan"}, from : Node, read : 0 .. 2]]]
      /\ worker'[s][w].pc = "idle"
      /\ \A t \in Replica, u \in Worker : <<t, u>> # <<s, w>> => worker'[t][u] = worker[t][u]
  <2>1. [pc |-> "idle", from |-> s, read |-> 0] \in [pc : {"idle", "store", "scan"}, from : Node, read : 0 .. 2]
    BY <1>4
  <2>2. QED
    BY <1>3, <1>4, <2>1
<1>6. s \in up
  BY <1>3 DEF CountInv
<1>7. PICK q : q = m_queue[s][o]
  OBVIOUS
<1>8. /\ q \in Seq(Message) /\ Append(q, r) \in Seq(Message) /\ Len(Append(q, r)) = Len(q) + 1
      /\ Range(Append(q, r)) = Range(q) \cup {r}
      /\ NoRepeat(q, {r}) => NoRepeat(Append(q, r), {r})
  BY <1>4, <1>7, AppendFacts
<1>9. /\ m_queue' \in [Replica -> [Output -> Seq(Message)]]
      /\ \A t \in Replica, p \in Output : <<t, p>> # <<s, o>> => m_queue'[t][p] = m_queue[t][p]
      /\ m_queue'[s][o] \in {q, Append(q, r)}
  <2>1. CASE m_queue' = m_queue
    BY <1>4, <1>7, <2>1
  <2>2. CASE m_queue' = [m_queue EXCEPT ![s][o] = Append(@, r)]
    <3>1. PICK z : z = Append(q, r)
      OBVIOUS
    <3>2. m_queue' = [m_queue EXCEPT ![s][o] = z] /\ z \in Seq(Message)
      BY <1>7, <1>8, <2>2, <3>1
    <3>3. QED
      BY <1>4, <3>1, <3>2
  <2>3. QED
    BY <1>3, <2>1, <2>2
<1>10. TypeOK'
  <2>1. m_queue' \in [Replica -> [Output -> Seq([kind : Kind, dest : Node])]]
    BY <1>9 DEF Message
  <2>2. QED
    BY <1>3, <1>5, <2>1 DEF TypeOK
<1>11. QueueInv'
  <2>1. ASSUME NEW t \in Replica, NEW p \in Output
        PROVE  /\ NoRepeat(m_queue'[t][p], {r})
               /\ \A i \in 1 .. Len(m_queue'[t][p]) : m_queue'[t][p][i].dest % SEND_THREAD_CNT = p
               /\ t \notin up => m_queue'[t][p] = <<>>
    <3>1. /\ NoRepeat(m_queue[t][p], {r})
          /\ \A i \in 1 .. Len(m_queue[t][p]) : m_queue[t][p][i].dest % SEND_THREAD_CNT = p
          /\ t \notin up => m_queue[t][p] = <<>>
      BY <1>2 DEF QueueInv
    <3>2. CASE m_queue'[t][p] = m_queue[t][p]
      BY <3>1, <3>2
    <3>3. CASE t = s /\ p = o /\ m_queue'[s][o] = Append(q, r)
      <4>1. NoRepeat(Append(q, r), {r})
        BY <1>7, <1>8, <3>1, <3>3
      <4>2. ASSUME NEW i \in 1 .. Len(Append(q, r)) PROVE Append(q, r)[i].dest % SEND_THREAD_CNT = o
        <5>1. r.dest % SEND_THREAD_CNT = o
          BY <1>1, <1>2, ToFacts
        <5>2. CASE i \in 1 .. Len(q)
          <6>1. Append(q, r)[i] = q[i]
            BY <1>8, <5>2
          <6>2. QED
            BY <1>7, <3>1, <3>3, <5>2, <6>1
        <5>3. CASE i = Len(q) + 1
          <6>1. Append(q, r)[i] = r
            BY <1>8, <5>3
          <6>2. QED
            BY <5>1, <6>1
        <5>4. QED
          BY <1>8, <5>2, <5>3
      <4>3. QED
        BY <1>6, <3>3, <4>1, <4>2
    <3>4. QED
      BY <1>7, <1>9, <3>2, <3>3
  <2>2. QED
    BY <1>2, <1>3, <2>1 DEF QueueInv
<1>12. \A t \in Replica, d \in Node :
          /\ Buffered(t, d)' = Buffered(t, d) /\ Expected(t, d)' = Expected(t, d)
          /\ Queued(t, d) \subseteq Queued(t, d)'
          /\ Queued(t, d)' \subseteq Queued(t, d) \cup (IF d = Client THEN {"READY"} ELSE {})
  <2>1. ASSUME NEW t \in Replica, NEW d \in Node
        PROVE  /\ Queued(t, d) \subseteq Queued(t, d)'
               /\ Queued(t, d)' \subseteq Queued(t, d) \cup (IF d = Client THEN {"READY"} ELSE {})
    <3>1. PICK p \in Output : p = d % SEND_THREAD_CNT
      BY Constants
    <3>2. CASE m_queue'[t][p] = m_queue[t][p]
      BY <3>1, <3>2 DEF Queued, Queue
    <3>3. CASE t = s /\ p = o /\ m_queue'[s][o] = Append(q, r)
      <4>1. Range(Queue(t, d)') = Range(Queue(t, d)) \cup {r}
        BY <1>7, <1>8, <3>1, <3>3 DEF Queue
      <4>2. \A k : To(k, d) = r => k = "READY" /\ d = Client
        BY <1>2, ToFacts
      <4>3. QED
        BY <4>1, <4>2 DEF Queued
    <3>4. QED
      BY <1>7, <1>9, <3>2, <3>3
  <2>2. QED
    BY <1>3, <2>1 DEF Buffered, Expected
<1>13. WayInv'
  <2>1. ASSUME NEW t \in Replica, NEW d \in Node
        PROVE  /\ NoRepeat(mbuf'[t][d], {"READY"})
               /\ Queued(t, d)' \subseteq Expected(t, d)' /\ Buffered(t, d)' \subseteq Expected(t, d)'
               /\ Queued(t, d)' \cap Buffered(t, d)' \subseteq {"READY"}
    <3>1. /\ NoRepeat(mbuf[t][d], {"READY"})
          /\ Queued(t, d) \subseteq Expected(t, d) /\ Buffered(t, d) \subseteq Expected(t, d)
          /\ Queued(t, d) \cap Buffered(t, d) \subseteq {"READY"}
      BY DEF WayInv
    <3>2. (IF d = Client THEN {"READY"} ELSE {}) \subseteq Expected(t, d)
      BY DEF Expected
    <3>3. QED
      BY <1>3, <1>12, <3>1, <3>2
  <2>2. QED
    BY <2>1 DEF WayInv
<1>14. \A t \in Replica, d \in Node : \A k \in Key \cup {"INIT_DONE"} :
          k \in Queued(t, d)' \cup Buffered(t, d)' <=> k \in Queued(t, d) \cup Buffered(t, d)
  <2>1. "READY" \notin Key \cup {"INIT_DONE"}
    BY KindFacts
  <2>2. QED
    BY <1>12, <2>1
<1>15. KeyInv'
  BY <1>3, <1>14 DEF KeyInv
<1>16. BarrierInv' /\ SendInv'
  <2>1. ASSUME NEW d \in Node PROVE Silent(d)' = Silent(d)
    <3>1. \A n \in Replica : "INIT_DONE" \in Queued(n, d)' \cup Buffered(n, d)'
                               <=> "INIT_DONE" \in Queued(n, d) \cup Buffered(n, d)
      BY <1>14
    <3>2. QED
      BY <1>3, <3>1 DEF Silent
  <2>2. QED
    BY <1>3, <2>1 DEF BarrierInv, SendInv
<1>17. CountInv'
  <2>1. \A t, m : Missing(t, m)' = Missing(t, m)
    BY <1>3 DEF Missing
  <2>2. ASSUME NEW t \in Replica, NEW u \in Worker
        PROVE  worker'[t][u].pc = "idle" \/ worker'[t][u] = worker[t][u]
    BY <1>5
  <2>3. QED
    BY <1>3, <2>1, <2>2 DEF CountInv
<1>18. QED
  BY <1>10, <1>11, <1>13, <1>15, <1>16, <1>17
-----------------------------------------------------------------------------
(* An output thread takes the first message of its queue. *)
Popped(n, o, d, k) ==
  /\ Head(m_queue[n][o]) = To(k, d) /\ d % SEND_THREAD_CNT = o
  /\ m_queue' \in [Replica -> [Output -> Seq(Message)]] /\ QueueInv'
  /\ Queued(n, d) = Queued(n, d)' \cup {k} /\ (k = "READY" \/ k \notin Queued(n, d)')
  /\ \A m \in Replica, e \in Node : <<m, e>> # <<n, d>> => Queued(m, e)' = Queued(m, e)

LEMMA PopFacts ==
  ASSUME TypeOK, QueueInv, NEW n \in Replica, NEW o \in Output, m_queue[n][o] # <<>>,
         m_queue' = [m_queue EXCEPT ![n][o] = Tail(@)], up' = up
  PROVE  \E d \in Node, k \in Kind : Popped(n, o, d, k)
<1>1. m_queue \in [Replica -> [Output -> Seq(Message)]]
  BY DEF TypeOK, Message
<1>2. PICK q : q = m_queue[n][o]
  OBVIOUS
<1>3. PICK E : E = {To("READY", Client)}
  OBVIOUS
<1>4. q \in Seq(Message) /\ q # <<>> /\ NoRepeat(q, E) /\ \A i \in 1 .. Len(q) : q[i].dest % SEND_THREAD_CNT = o
  <2>1. q \in Seq(Message) /\ q # <<>>
    BY <1>1, <1>2
  <2>2. NoRepeat(q, E)
    BY <1>2, <1>3 DEF QueueInv
  <2>3. \A i \in 1 .. Len(q) : q[i].dest % SEND_THREAD_CNT = o
    BY <1>2 DEF QueueInv
  <2>4. QED
    BY <2>1, <2>2, <2>3
<1>5. PICK t : t = Tail(q)
  OBVIOUS
<1>6. /\ t \in Seq(Message) /\ Head(q) \in Message /\ Len(t) = Len(q) - 1 /\ \A i \in 1 .. Len(t) : t[i] = q[i + 1]
      /\ Range(q) = {Head(q)} \cup Range(t) /\ Head(q) = q[1] /\ Len(q) > 0
      /\ NoRepeat(t, E) /\ (Head(q) \in E \/ Head(q) \notin Range(t))
  BY <1>4, <1>5, TailFacts
<1>7. PICK d \in Node, k \in Kind : Head(q) = To(k, d)
  BY <1>6, ToFacts
<1>8. d % SEND_THREAD_CNT = o
  <2>1. 1 \in 1 .. Len(q)
    BY <1>4, <1>6
  <2>2. QED
    BY <1>4, <1>6, <1>7, <2>1, ToFacts
<1>9. m_queue' = [m_queue EXCEPT ![n][o] = t]
  BY <1>2, <1>5
<1>10. /\ m_queue' \in [Replica -> [Output -> Seq(Message)]] /\ m_queue'[n][o] = t
       /\ \A m \in Replica, p \in Output : <<m, p>> # <<n, o>> => m_queue'[m][p] = m_queue[m][p]
  BY <1>1, <1>6, <1>9
<1>11. QueueInv'
  <2>1. ASSUME NEW m \in Replica, NEW p \in Output
        PROVE  /\ NoRepeat(m_queue'[m][p], {To("READY", Client)})
               /\ \A i \in 1 .. Len(m_queue'[m][p]) : m_queue'[m][p][i].dest % SEND_THREAD_CNT = p
               /\ m \notin up' => m_queue'[m][p] = <<>>
    <3>1. CASE <<m, p>> # <<n, o>>
      <4>1. m_queue'[m][p] = m_queue[m][p]
        BY <1>10, <3>1
      <4>2. QED
        BY <1>3, <4>1 DEF QueueInv
    <3>2. CASE m = n /\ p = o
      <4>1. n \in up
        BY <1>2, <1>4 DEF QueueInv
      <4>2. ASSUME NEW i \in 1 .. Len(t) PROVE t[i].dest % SEND_THREAD_CNT = o
        <5>1. i + 1 \in 1 .. Len(q) /\ t[i] = q[i + 1]
          BY <1>4, <1>6
        <5>2. QED
          BY <1>4, <5>1
      <4>3. QED
        BY <1>3, <1>6, <1>10, <3>2, <4>1, <4>2
    <3>3. QED
      BY <3>1, <3>2
  <2>2. QED
    BY <2>1 DEF QueueInv
<1>12. /\ Queue(n, d) = q /\ Queue(n, d)' = t
  BY <1>2, <1>8, <1>10 DEF Queue
<1>13. Queued(n, d) = Queued(n, d)' \cup {k} /\ (k = "READY" \/ k \notin Queued(n, d)')
  <2>1. \A l : To(l, d) \in Range(q) <=> l = k \/ To(l, d) \in Range(t)
    BY <1>6, <1>7, ToFacts
  <2>2. To(k, d) \in E => k = "READY"
    BY <1>3, ToFacts
  <2>3. QED
    BY <1>6, <1>7, <1>12, <2>1, <2>2 DEF Queued
<1>14. ASSUME NEW m \in Replica, NEW e \in Node, <<m, e>> # <<n, d>> PROVE Queued(m, e)' = Queued(m, e)
  <2>1. PICK p \in Output : p = e % SEND_THREAD_CNT
    BY Constants
  <2>2. CASE <<m, p>> # <<n, o>>
    <3>1. Queue(m, e)' = Queue(m, e)
      BY <1>10, <2>1, <2>2 DEF Queue
    <3>2. QED
      BY <3>1 DEF Queued
  <2>3. CASE m = n /\ p = o
    <3>1. Queue(m, e) = q /\ Queue(m, e)' = t
      BY <1>2, <1>10, <2>1, <2>3 DEF Queue
    <3>2. \A l : To(l, e) \in Range(q) <=> To(l, e) \in Range(t)
      BY <1>6, <1>7, <1>14, <2>3, ToFacts
    <3>3. QED
      BY <3>1, <3>2 DEF Queued
  <2>4. QED
    BY <2>2, <2>3
<1>15. Popped(n, o, d, k)
  BY <1>2, <1>7, <1>8, <1>10, <1>11, <1>13, <1>14 DEF Popped
<1>16. QED
  BY <1>7, <1>15

(* What comes in with a buffer. *)
Delivered(n, d, msgs, key) ==
  /\ IsKeyList(key, n, Key \cap Range(msgs))
  /\ process_setup_msg(IF "INIT_DONE" \in Range(msgs) THEN {d} ELSE {})
  /\ ready' = [ready EXCEPT ![n] = @ + Cardinality(At(msgs, {"READY"}))]
  /\ IF d = Client THEN keys' = [keys EXCEPT ![d] = @ \cup Range(key)] /\ UNCHANGED keyex
     ELSE keyex' = [keyex EXCEPT ![d] = @ \o key] /\ UNCHANGED keys

LEMMA DeliverFacts ==
  ASSUME NEW n, NEW d, NEW msgs \in Seq(Kind), NoRepeat(msgs, {"READY"}), deliver(n, d, msgs)
  PROVE  \E key : Delivered(n, d, msgs, key)
<1>1. PICK key : key = Listed(n, msgs, At(msgs, Key))
  OBVIOUS
<1>2. IsKeyList(key, n, Key \cap Range(msgs))
  BY <1>1, KeyList
<1>3. At(msgs, {"INIT_DONE"}) # {} <=> "INIT_DONE" \in Range(msgs)
  BY DEF At, Range
<1>4. /\ process_setup_msg(IF At(msgs, {"INIT_DONE"}) # {} THEN {d} ELSE {})
      /\ ready' = [ready EXCEPT ![n] = @ + Cardinality(At(msgs, {"READY"}))]
      /\ IF d = Client THEN keys' = [keys EXCEPT ![d] = @ \cup Range(key)] /\ UNCHANGED keyex
         ELSE keyex' = [keyex EXCEPT ![d] = @ \o key] /\ UNCHANGED keys
  BY <1>1, Zenon DEF deliver, At, Listed
<1>5. process_setup_msg(IF "INIT_DONE" \in Range(msgs) THEN {d} ELSE {})
  BY <1>3, <1>4, Zenon
<1>6. Delivered(n, d, msgs, key)
  BY <1>2, <1>4, <1>5 DEF Delivered
<1>7. QED
  BY <1>6

(* What both ways to run share: the message goes from the queue to the     *)
(* buffer, which is kept or sent.                                          *)
Taken(n, o, d, k, buf) ==
  /\ Popped(n, o, d, k) /\ buf = Append(mbuf[n][d], k)
  /\ buf \in Seq(Kind) /\ Len(buf) <= MESSAGE_PER_BUFFER /\ NoRepeat(buf, {"READY"})
  /\ Range(buf) = Buffered(n, d) \cup {k}
  /\ Range(buf) \subseteq Expected(n, d) /\ Range(buf) \cap Queued(n, d)' \subseteq {"READY"}
  /\ Queued(n, d) \cup Buffered(n, d) = Queued(n, d)' \cup Range(buf)

Moved(n, o, d, k, buf) ==
  /\ d \in Node /\ k \in Kind /\ Taken(n, o, d, k, buf)
  /\ \/ /\ Len(buf) < MESSAGE_PER_BUFFER /\ mbuf' = [mbuf EXCEPT ![n][d] = buf]
        /\ UNCHANGED <<rsp_cnt, setup_done_barrier, ready, keyex, keys>>
     \/ deliver(n, d, buf) /\ mbuf' = [mbuf EXCEPT ![n][d] = <<>>]

LEMMA TakeFacts ==
  ASSUME Inv, NEW n \in Replica, NEW o \in Output, run(n, o)
  PROVE  /\ \E d, k, buf : Moved(n, o, d, k, buf)
         /\ UNCHANGED <<warmup, up, receivedKeys, worker, totKey, keyAvail, input>>
         /\ init_msg_sent' \in [Replica -> [Output -> 0 .. 4 * Cardinality(Node)]]
         /\ output' \in [Replica -> [Output -> {"test", "send", "wait", "run"}]]
         /\ SendInv'
<1> USE DEF Inv
<1>1. /\ m_queue[n][o] # <<>> /\ m_queue' = [m_queue EXCEPT ![n][o] = Tail(@)]
      /\ UNCHANGED <<warmup, up, receivedKeys, worker, totKey, keyAvail, input>>
  BY DEF run, taking, client
<1>2. PICK d \in Node, k \in Kind : Popped(n, o, d, k)
  BY <1>1, PopFacts
<1>3. PICK m : m = Head(m_queue[n][o])
  OBVIOUS
<1>4. m.dest = d /\ m.kind = k
  BY <1>2, <1>3, ToFacts DEF Popped
<1>5. PICK b : b = mbuf[n][d]
  OBVIOUS
<1>6. PICK buf : buf = Append(b, k)
  OBVIOUS
<1>7. b \in Seq(Kind) /\ Len(b) < MESSAGE_PER_BUFFER /\ MESSAGE_PER_BUFFER \in Nat
  BY <1>5, Constants DEF TypeOK
<1>8. /\ Range(b) = Buffered(n, d) /\ NoRepeat(b, {"READY"})
      /\ Queued(n, d) \subseteq Expected(n, d) /\ Buffered(n, d) \subseteq Expected(n, d)
      /\ Queued(n, d) \cap Buffered(n, d) \subseteq {"READY"}
  BY <1>5 DEF WayInv, Buffered
<1>9. Queued(n, d) = Queued(n, d)' \cup {k} /\ (k = "READY" \/ k \notin Queued(n, d)')
  BY <1>2 DEF Popped
<1>10. k \in {"READY"} \/ k \notin Range(b)
  BY <1>8, <1>9
<1>11. /\ buf \in Seq(Kind) /\ Len(buf) = Len(b) + 1 /\ Range(buf) = Range(b) \cup {k}
       /\ NoRepeat(buf, {"READY"})
  BY <1>6, <1>7, <1>8, <1>10, AppendFacts
<1>12. Len(buf) <= MESSAGE_PER_BUFFER
  BY <1>7, <1>11
<1>13. Taken(n, o, d, k, buf)
  <2>1. /\ Range(buf) = Buffered(n, d) \cup {k} /\ Range(buf) \subseteq Expected(n, d)
        /\ Range(buf) \cap Queued(n, d)' \subseteq {"READY"}
        /\ Queued(n, d) \cup Buffered(n, d) = Queued(n, d)' \cup Range(buf)
    BY <1>8, <1>9, <1>11
  <2>2. QED
    BY <1>2, <1>5, <1>6, <1>11, <1>12, <2>1 DEF Taken
<1>14. /\ IF ~warmup[n] \/ Len(buf) = MESSAGE_PER_BUFFER THEN deliver(n, d, buf)
          ELSE UNCHANGED <<rsp_cnt, setup_done_barrier, ready, keyex, keys>>
       /\ mbuf' = [mbuf EXCEPT ![n][d] = IF ~warmup[n] \/ Len(buf) = MESSAGE_PER_BUFFER THEN <<>> ELSE buf]
  BY <1>3, <1>4, <1>5, <1>6, Zenon DEF run
<1>15. \/ /\ Len(buf) < MESSAGE_PER_BUFFER /\ mbuf' = [mbuf EXCEPT ![n][d] = buf]
          /\ UNCHANGED <<rsp_cnt, setup_done_barrier, ready, keyex, keys>>
       \/ deliver(n, d, buf) /\ mbuf' = [mbuf EXCEPT ![n][d] = <<>>]
  <2>1. CASE ~warmup[n] \/ Len(buf) = MESSAGE_PER_BUFFER
    BY <1>14, <2>1, Zenon
  <2>2. CASE ~(~warmup[n] \/ Len(buf) = MESSAGE_PER_BUFFER)
    <3>1. Len(buf) < MESSAGE_PER_BUFFER
      <4>1. Len(buf) # MESSAGE_PER_BUFFER
        BY <2>2
      <4>2. QED
        BY <1>7, <1>11, <4>1
    <3>2. QED
      BY <1>14, <2>2, <3>1, Zenon
  <2>3. QED
    BY <2>1, <2>2, Zenon
<1>16. /\ init_msg_sent' \in [Replica -> [Output -> 0 .. 4 * Cardinality(Node)]]
       /\ output' \in [Replica -> [Output -> {"test", "send", "wait", "run"}]]
       /\ SendInv'
  <2>1. /\ init_msg_sent \in [Replica -> [Output -> 0 .. 4 * Cardinality(Node)]] /\ Cardinality(Node) \in Nat
        /\ output \in [Replica -> [Output -> {"test", "send", "wait", "run"}]]
    BY Sizes DEF TypeOK
  <2>2. CASE output[n][o] = "send"
    <3>1. init_msg_sent' = [init_msg_sent EXCEPT ![n][o] = @ - 1] /\ output' = [output EXCEPT ![n][o] = "test"]
      BY <2>2 DEF run
    <3>2. init_msg_sent[n][o] > 0
      BY <2>2 DEF SendInv
    <3>3. PICK c : c = init_msg_sent[n][o] - 1
      OBVIOUS
    <3>4. c \in 0 .. 4 * Cardinality(Node) /\ init_msg_sent' = [init_msg_sent EXCEPT ![n][o] = c]
      BY <2>1, <3>1, <3>2, <3>3
    <3>5. /\ init_msg_sent' \in [Replica -> [Output -> 0 .. 4 * Cardinality(Node)]]
          /\ output' \in [Replica -> [Output -> {"test", "send", "wait", "run"}]]
          /\ output'[n][o] = "test"
          /\ \A x \in Replica, p \in Output :
               <<x, p>> # <<n, o>> => output'[x][p] = output[x][p] /\ init_msg_sent'[x][p] = init_msg_sent[x][p]
      BY <2>1, <3>1, <3>4
    <3>6. SendInv'
      BY <3>5 DEF SendInv
    <3>7. QED
      BY <3>5, <3>6
  <2>3. CASE output[n][o] # "send"
    <3>1. init_msg_sent' = init_msg_sent /\ output' = output
      BY <2>3 DEF run
    <3>2. QED
      BY <2>1, <3>1 DEF SendInv
  <2>4. QED
    BY <2>2, <2>3
<1>17. Moved(n, o, d, k, buf)
  BY <1>2, <1>13, <1>15 DEF Moved
<1>18. QED
  BY <1>1, <1>16, <1>17

LEMMA RunStep ==
  ASSUME Inv, NEW n \in Replica, NEW o \in Output, run(n, o)
  PROVE  Inv'
<1> USE DEF Inv
<1>1. /\ UNCHANGED <<warmup, up, receivedKeys, worker, totKey, keyAvail, input>>
      /\ init_msg_sent' \in [Replica -> [Output -> 0 .. 4 * Cardinality(Node)]]
      /\ output' \in [Replica -> [Output -> {"test", "send", "wait", "run"}]]
      /\ SendInv'
  BY TakeFacts
<1>2. PICK d \in Node, k \in Kind : \E buf : Moved(n, o, d, k, buf)
  BY TakeFacts DEF Moved
<1>3. PICK buf : Moved(n, o, d, k, buf)
  BY <1>2
<1>4. /\ Taken(n, o, d, k, buf)
      /\ \/ /\ Len(buf) < MESSAGE_PER_BUFFER /\ mbuf' = [mbuf EXCEPT ![n][d] = buf]
            /\ UNCHANGED <<rsp_cnt, setup_done_barrier, ready, keyex, keys>>
         \/ deliver(n, d, buf) /\ mbuf' = [mbuf EXCEPT ![n][d] = <<>>]
  BY <1>3 DEF Moved
<1>5. /\ m_queue' \in [Replica -> [Output -> Seq([kind : Kind, dest : Node])]] /\ QueueInv'
      /\ \A m \in Replica, e \in Node : <<m, e>> # <<n, d>> => Queued(m, e)' = Queued(m, e)
      /\ Queued(n, d)' \subseteq Queued(n, d)
      /\ buf \in Seq(Kind) /\ NoRepeat(buf, {"READY"})
      /\ Range(buf) \subseteq Expected(n, d) /\ Range(buf) \cap Queued(n, d)' \subseteq {"READY"}
      /\ Queued(n, d) \cup Buffered(n, d) = Queued(n, d)' \cup Range(buf)
  BY <1>4 DEF Taken, Popped, Message
<1>6. /\ mbuf \in [Replica -> [Node -> Seq(Kind)]] /\ MESSAGE_PER_BUFFER \in Nat /\ MESSAGE_PER_BUFFER > 0
      /\ \A m \in Replica, e \in Node : Len(mbuf[m][e]) < MESSAGE_PER_BUFFER
  BY Constants DEF TypeOK
<1>7. PICK z \in {buf, <<>>} : mbuf' = [mbuf EXCEPT ![n][d] = z] /\ Len(z) < MESSAGE_PER_BUFFER
  <2>1. Len(<<>>) = 0
    OBVIOUS
  <2>2. QED
    BY <1>6, <1>4, <2>1
<1>8. /\ z \in Seq(Kind) /\ NoRepeat(z, {"READY"}) /\ Range(z) \subseteq Range(buf)
  <2>1. CASE z = <<>>
    <3>1. <<>> \in Seq(Kind)
      OBVIOUS
    <3>2. QED
      BY <2>1, <3>1, EmptyRange
  <2>2. CASE z = buf
    BY <1>5, <2>2
  <2>3. QED
    BY <1>7, <2>1, <2>2
<1>9. /\ mbuf' \in [Replica -> [Node -> Seq(Kind)]] /\ mbuf'[n][d] = z
      /\ \A m \in Replica, e \in Node : <<m, e>> # <<n, d>> => mbuf'[m][e] = mbuf[m][e]
      /\ \A m \in Replica, e \in Node : Len(mbuf'[m][e]) < MESSAGE_PER_BUFFER
  BY <1>6, <1>7, <1>8
<1>10. /\ Buffered(n, d)' = Range(z)
       /\ \A m \in Replica, e \in Node : <<m, e>> # <<n, d>> => Buffered(m, e)' = Buffered(m, e)
       /\ \A m, e : Expected(m, e)' = Expected(m, e)
  BY <1>1, <1>9 DEF Buffered, Expected
<1>11. WayInv'
  <2>1. ASSUME NEW m \in Replica, NEW e \in Node
        PROVE  /\ NoRepeat(mbuf'[m][e], {"READY"})
               /\ Queued(m, e)' \subseteq Expected(m, e)' /\ Buffered(m, e)' \subseteq Expected(m, e)'
               /\ Queued(m, e)' \cap Buffered(m, e)' \subseteq {"READY"}
    <3>1. /\ NoRepeat(mbuf[m][e], {"READY"})
          /\ Queued(m, e) \subseteq Expected(m, e) /\ Buffered(m, e) \subseteq Expected(m, e)
          /\ Queued(m, e) \cap Buffered(m, e) \subseteq {"READY"}
      BY DEF WayInv
    <3>2. CASE <<m, e>> # <<n, d>>
      BY <1>5, <1>9, <1>10, <3>1, <3>2
    <3>3. CASE m = n /\ e = d
      BY <1>5, <1>8, <1>9, <1>10, <3>1, <3>3
    <3>4. QED
      BY <3>2, <3>3
  <2>2. QED
    BY <2>1 DEF WayInv
<1>12. \A m \in Replica, e \in Node : Queued(m, e)' \cup Buffered(m, e)' \subseteq Queued(m, e) \cup Buffered(m, e)
  <2>1. Queued(n, d)' \cup Buffered(n, d)' \subseteq Queued(n, d) \cup Buffered(n, d)
    BY <1>5, <1>8, <1>10
  <2>2. ASSUME NEW m \in Replica, NEW e \in Node, <<m, e>> # <<n, d>>
        PROVE  Queued(m, e)' \cup Buffered(m, e)' = Queued(m, e) \cup Buffered(m, e)
    BY <1>5, <1>10, <2>2
  <2>3. QED
    BY <2>1, <2>2
<1>13. CASE z = buf /\ UNCHANGED <<rsp_cnt, setup_done_barrier, ready, keyex, keys>>
  <2>1. TypeOK'
    BY <1>1, <1>5, <1>9, <1>13 DEF TypeOK
  <2>2. \A m \in Replica, e \in Node : Queued(m, e)' \cup Buffered(m, e)' = Queued(m, e) \cup Buffered(m, e)
    BY <1>5, <1>10, <1>13
  <2>3. KeyInv'
    BY <1>1, <1>13, <2>2 DEF KeyInv
  <2>4. BarrierInv'
    <3>1. ASSUME NEW e \in Node PROVE Silent(e)' = Silent(e)
      BY <1>1, <2>2 DEF Silent
    <3>2. QED
      BY <1>13, <3>1 DEF BarrierInv
  <2>5. CountInv'
    <3>1. \A s, m : Missing(s, m)' = Missing(s, m)
      BY <1>13 DEF Missing
    <3>2. QED
      BY <1>1, <3>1 DEF CountInv
  <2>6. QED
    BY <1>1, <1>5, <1>11, <2>1, <2>3, <2>4, <2>5
<1>14. CASE z = <<>> /\ deliver(n, d, buf)
  <2>1. PICK key : Delivered(n, d, buf, key)
    BY <1>5, <1>14, DeliverFacts
  <2>2. /\ key \in Seq({n} \X Key) /\ NoRepeat(key, {})
        /\ \A x : x \in Range(key) <=> \E l \in Key \cap Range(buf) : x = <<n, l>>
    BY <2>1 DEF Delivered, IsKeyList
  <2>3. /\ process_setup_msg(IF "INIT_DONE" \in Range(buf) THEN {d} ELSE {})
        /\ ready' = [ready EXCEPT ![n] = @ + Cardinality(At(buf, {"READY"}))]
        /\ IF d = Client THEN keys' = [keys EXCEPT ![d] = @ \cup Range(key)] /\ UNCHANGED keyex
           ELSE keyex' = [keyex EXCEPT ![d] = @ \o key] /\ UNCHANGED keys
    BY <2>1 DEF Delivered
  <2>4. Buffered(n, d)' = {}
    BY <1>10, <1>14, EmptyRange
  <2>5. ready' \in [Replica -> Nat]
    <3>1. IsFiniteSet(At(buf, {"READY"}))
      <4>1. IsFiniteSet(1 .. Len(buf)) /\ At(buf, {"READY"}) \subseteq 1 .. Len(buf)
        BY <1>5, FS_Interval DEF At
      <4>2. QED
        BY <4>1, FS_Subset
    <3>2. PICK c \in Nat : c = Cardinality(At(buf, {"READY"}))
      BY <3>1, FS_CardinalityType
    <3>3. ready \in [Replica -> Nat]
      BY DEF TypeOK
    <3>4. QED
      BY <2>3, <3>2, <3>3
  <2>6. /\ Key \cap Range(buf) # {} \/ "INIT_DONE" \in Range(buf) => n # d /\ n \in up
        /\ Key \cap Range(buf) \subseteq Range(Kinds(n, d))
    <3>1. "READY" \notin Key \cup {"INIT_DONE"} /\ "INIT_DONE" \notin Key
      BY KindFacts
    <3>2. QED
      BY <1>5, <3>1 DEF Expected, First
  <2>7. ASSUME NEW x \in Range(key)
        PROVE  /\ x \in AllKeys(d) /\ x[1] = n /\ n \in up
               /\ x \notin keys[d] /\ (d \in Replica => x \notin Range(keyex[d]))
    <3>1. PICK l \in Key \cap Range(buf) : x = <<n, l>>
      BY <2>2
    <3>2. n # d /\ n \in up /\ l \in Range(Kinds(n, d)) /\ n \in Node
      BY <2>6, <3>1, Constants
    <3>3. <<n, l>> \in AllKeys(d)
      BY <3>2, KeyFacts
    <3>4. l \in Queued(n, d) \cup Buffered(n, d)
      BY <1>5, <3>1
    <3>5. <<n, l>> \notin keys[d] /\ (d \in Replica => <<n, l>> \notin Range(keyex[d]))
      BY <3>1, <3>4 DEF KeyInv
    <3>6. QED
      BY <3>1, <3>2, <3>3, <3>5
  <2>8. /\ keyex \in [Replica -> Seq(Node \X Key)] /\ keys \in [Node -> SUBSET (Node \X Key)]
        /\ \A s \in Replica : Range(keyex[s]) \subseteq AllKeys(s)
        /\ \A e \in Node : keys[e] \subseteq AllKeys(e)
        /\ Client \in Node /\ Client \notin Replica /\ n \in Node /\ (d # Client => d \in Replica)
    BY Constants DEF TypeOK, Node
  <2>9. /\ keys' \in [Node -> SUBSET (Node \X Key)]
        /\ \A e \in Node : keys'[e] = IF e = d /\ d = Client THEN keys[e] \cup Range(key) ELSE keys[e]
    <3>1. Range(key) \in SUBSET (Node \X Key)
      BY <2>2, <2>8 DEF Range
    <3>2. QED
      BY <2>3, <2>8, <3>1, ZenonT(60)
  <2>10. /\ keyex' \in [Replica -> Seq(Node \X Key)]
         /\ \A s \in Replica : /\ Range(keyex'[s]) = IF s = d THEN Range(keyex[s]) \cup Range(key) ELSE Range(keyex[s])
                               /\ NoRepeat(keyex'[s], {})
    <3>1. \A s \in Replica : NoRepeat(keyex[s], {})
      BY DEF KeyInv
    <3>2. CASE d = Client
      BY <2>3, <2>8, <3>1, <3>2
    <3>3. CASE d # Client
      <4>1. PICK y : y = keyex[d] \o key
        OBVIOUS
      <4>2. key \in Seq(Node \X Key)
        BY <2>2, <2>8
      <4>3. Range(keyex[d]) \cap Range(key) \subseteq {}
        BY <2>7, <2>8, <3>3
      <4>4. y \in Seq(Node \X Key) /\ Range(y) = Range(keyex[d]) \cup Range(key) /\ NoRepeat(y, {})
        BY <2>2, <2>8, <3>1, <3>3, <4>1, <4>2, <4>3, ConcatFacts, ZenonT(60)
      <4>5. keyex' = [keyex EXCEPT ![d] = y]
        BY <2>3, <3>3, <4>1
      <4>6. QED
        BY <2>8, <3>1, <3>3, <4>4, <4>5
    <3>4. QED
      BY <3>2, <3>3
  <2>11. \A s \in Replica : Range(keyex'[s]) \subseteq AllKeys(s)
    BY <2>7, <2>8, <2>10
  <2>12. \A e \in Node : keys'[e] \subseteq AllKeys(e)
    BY <2>7, <2>8, <2>9
  <2>13. ASSUME NEW e \in Node
         PROVE  Silent(e)' = (IF e = d /\ "INIT_DONE" \in Range(buf) THEN Silent(e) \ {n} ELSE Silent(e))
    <3>1. Silent(e) \subseteq Node /\ Silent(e)' \subseteq Node
      BY DEF Silent
    <3>2. ASSUME NEW m \in Node, m # n \/ e # d PROVE m \in Silent(e)' <=> m \in Silent(e)
      BY <1>1, <1>5, <1>10, <3>2 DEF Silent
    <3>3. ASSUME e = d, "INIT_DONE" \in Range(buf) PROVE n \notin Silent(e)'
      <4>1. "INIT_DONE" \notin Queued(n, d)' \cup Buffered(n, d)' /\ n \in up
        BY <1>5, <2>4, <2>6, <3>3
      <4>2. QED
        BY <1>1, <3>3, <4>1 DEF Silent
    <3>4. ASSUME e = d, "INIT_DONE" \notin Range(buf) PROVE n \in Silent(e)' <=> n \in Silent(e)
      <4>1. "INIT_DONE" \in Queued(n, d)' \cup Buffered(n, d)' <=> "INIT_DONE" \in Queued(n, d) \cup Buffered(n, d)
        BY <1>5, <2>4, <3>4
      <4>2. QED
        BY <1>1, <3>4, <4>1 DEF Silent
    <3>5. CASE e # d
      BY <3>1, <3>2, <3>5
    <3>6. CASE e = d /\ "INIT_DONE" \in Range(buf)
      <4>1. n \notin Silent(e)' /\ \A m \in Node \ {n} : m \in Silent(e)' <=> m \in Silent(e)
        BY <3>2, <3>3, <3>6
      <4>2. QED
        BY <3>1, <3>6, <4>1
    <3>7. CASE e = d /\ "INIT_DONE" \notin Range(buf)
      <4>1. \A m \in Node : m \in Silent(e)' <=> m \in Silent(e)
        BY <3>2, <3>4, <3>7
      <4>2. QED
        BY <3>1, <3>7, <4>1
    <3>8. QED
      BY <3>5, <3>6, <3>7
  <2>14. ASSUME NEW e \in Node
         PROVE  /\ IsFiniteSet(Silent(e)) /\ Cardinality(Silent(e)) \in Nat /\ rsp_cnt[e] = Cardinality(Silent(e))
    <3>1. Silent(e) \subseteq Node
      BY DEF Silent
    <3>2. QED
      BY <3>1, Sizes DEF BarrierInv
  <2>15. ASSUME "INIT_DONE" \in Range(buf)
         PROVE  n \in Silent(d) /\ rsp_cnt[d] > 0 /\ Cardinality(Silent(d) \ {n}) = Cardinality(Silent(d)) - 1
    <3>1. n \in Silent(d)
      <4>1. "INIT_DONE" \in Queued(n, d) \cup Buffered(n, d) /\ n # d
        BY <1>5, <2>6, <2>15
      <4>2. QED
        BY <2>8, <4>1 DEF Silent
    <3>2. Cardinality(Silent(d) \ {n}) = Cardinality(Silent(d)) - 1 /\ Cardinality(Silent(d)) # 0
      BY <2>14, <3>1, FS_RemoveElement, FS_EmptySet
    <3>3. QED
      BY <2>14, <3>1, <3>2
  <2>16. PICK S \in SUBSET Node : S = IF "INIT_DONE" \in Range(buf) THEN {d} ELSE {}
    OBVIOUS
  <2>17. /\ rsp_cnt' \in [Node -> 0 .. (Cardinality(Node) - 1)]
         /\ setup_done_barrier' \in [Replica -> 0 .. SEND_THREAD_CNT]
         /\ \A m \in Replica : rsp_cnt'[m] > 0 => setup_done_barrier'[m] = 0
         /\ \A e \in Node : rsp_cnt'[e] = IF e \in S THEN rsp_cnt[e] - 1 ELSE rsp_cnt[e]
    <3>1. \A e \in S : rsp_cnt[e] > 0
      BY <2>15, <2>16
    <3>2. process_setup_msg(S)
      BY <2>3, <2>16, Zenon
    <3>3. QED
      BY <3>1, <3>2, ProcessFacts
  <2>18. BarrierInv'
    <3>1. ASSUME NEW e \in Node PROVE rsp_cnt'[e] = Cardinality(Silent(e)')
      <4>1. CASE e = d /\ "INIT_DONE" \in Range(buf)
        BY <2>13, <2>14, <2>15, <2>16, <2>17, <4>1
      <4>2. CASE ~(e = d /\ "INIT_DONE" \in Range(buf))
        BY <2>13, <2>14, <2>16, <2>17, <4>2
      <4>3. QED
        BY <4>1, <4>2
    <3>2. QED
      BY <2>17, <3>1 DEF BarrierInv
  <2>19. TypeOK'
    BY <1>1, <1>5, <1>9, <2>5, <2>9, <2>10, <2>11, <2>12, <2>17 DEF TypeOK
  <2>20. KeyInv'
    <3>1. ASSUME NEW m \in Replica, NEW e \in Node, NEW l \in Key, l \in Queued(m, e)' \cup Buffered(m, e)'
          PROVE  <<m, l>> \notin keys'[e] /\ (e \in Replica => <<m, l>> \notin Range(keyex'[e]))
      <4>1. <<m, l>> \notin keys[e] /\ (e \in Replica => <<m, l>> \notin Range(keyex[e]))
        BY <1>12, <3>1 DEF KeyInv
      <4>2. ASSUME e = d, <<m, l>> \in Range(key) PROVE FALSE
        <5>1. m = n /\ l \in Range(buf)
          BY <2>2, <4>2
        <5>2. l \in Queued(n, d)' /\ l # "READY"
          BY <2>4, <3>1, <4>2, <5>1, KindFacts
        <5>3. QED
          BY <1>5, <5>1, <5>2
      <4>3. QED
        BY <2>9, <2>10, <4>1, <4>2
    <3>2. ASSUME NEW s \in Replica
          PROVE  /\ NoRepeat(keyex'[s], {}) /\ Range(keyex'[s]) \cap keys'[s] = {}
                 /\ \A x \in Range(keyex'[s]) : x[1] \in up
      <4>1. /\ Range(keyex[s]) \cap keys[s] = {} /\ \A x \in Range(keyex[s]) : x[1] \in up
        BY DEF KeyInv
      <4>2. s \in Node /\ s # Client
        BY Constants
      <4>3. keys'[s] = keys[s]
        BY <2>9, <4>2
      <4>4. QED
        BY <2>7, <2>10, <4>1, <4>3
    <3>3. ASSUME NEW e \in Node, NEW x \in keys'[e] PROVE x[1] \in up /\ (e # Client => e \in up)
      <4>1. CASE x \in keys[e]
        BY <4>1 DEF KeyInv
      <4>2. CASE e = Client /\ x \in Range(key)
        BY <2>7, <4>2
      <4>3. QED
        BY <2>9, <4>1, <4>2
    <3>4. QED
      BY <1>1, <3>1, <3>2, <3>3 DEF KeyInv
  <2>21. CountInv'
    <3>1. ASSUME NEW s \in Replica, NEW m \in Node PROVE Missing(s, m)' = Missing(s, m)
      <4>1. s \in Node /\ s # Client
        BY Constants
      <4>2. keys'[s] = keys[s]
        BY <2>9, <4>1
      <4>3. QED
        BY <4>2 DEF Missing
    <3>2. QED
      BY <1>1, <3>1 DEF CountInv
  <2>22. QED
    BY <1>1, <1>5, <1>11, <2>18, <2>19, <2>20, <2>21
<1>15. QED
  <2>1. CASE deliver(n, d, buf) /\ mbuf' = [mbuf EXCEPT ![n][d] = <<>>]
    <3>1. z = <<>>
      <4>1. mbuf'[n][d] = <<>>
        BY <1>6, <2>1
      <4>2. QED
        BY <1>9, <4>1
    <3>2. QED
      BY <1>14, <2>1, <3>1
  <2>2. CASE /\ mbuf' = [mbuf EXCEPT ![n][d] = buf]
             /\ UNCHANGED <<rsp_cnt, setup_done_barrier, ready, keyex, keys>>
    <3>1. z = buf
      <4>1. mbuf'[n][d] = buf
        BY <1>6, <2>2
      <4>2. QED
        BY <1>9, <4>1
    <3>2. QED
      BY <1>13, <2>2, <3>1
  <2>3. QED
    BY <1>4, <2>1, <2>2

(* No step breaks the invariant. *)
LEMMA StepInv ==
  ASSUME Inv, [Next]_vars
  PROVE  Inv'
<1>1. CASE UNCHANGED vars
  <2>1. UNCHANGED <<up, m_queue, init_msg_sent, output, mbuf, warmup, rsp_cnt, setup_done_barrier, keyex, keys,
                    receivedKeys, worker, ready, totKey, keyAvail, input>> /\ Still
    BY <1>1 DEF vars, sending, start, taking, client, Still
  <2>2. TypeOK'
    BY <2>1 DEF Inv, TypeOK
  <2>3. BarrierInv' /\ SendInv' /\ CountInv'
    BY <2>1, StillFacts DEF Inv, BarrierInv, SendInv, CountInv
  <2>4. QED
    BY <2>1, <2>2, <2>3, StillFacts DEF Inv
<1>2. CASE \E n \in Node : setup(n)
  BY <1>2, AtOnceStep, FirstRoundStep
<1>3. CASE \E n \in Replica, o \in Output : OutputThread_setup(n, o) \/ OutputThread_wait(n, o) \/ run(n, o)
  BY <1>3, SetupStep, RunStep
<1>4. CASE \E s \in Replica, w \in Worker :
             (\E i \in Takable(s) : store_key(s, w, i)) \/ count_key(s, w) \/ send_ready(s, w)
  BY <1>4, StoreStep, CountStep, ReadyStep
<1>5. CASE \/ \E n \in Replica : is_warmup_done(n)
           \/ \E s \in Replica : receive_ready(s)
           \/ \E i \in Input : count_ready(i) \/ test_ready(i)
  BY <1>5, QuietStep
<1>6. QED
  BY <1>1, <1>2, <1>3, <1>4, <1>5 DEF Next

THEOREM InvHolds == Spec => []Inv
  BY InitInv, StepInv, PTL DEF Spec

(* TypeOK for any number of replicas, output and instance threads: the     *)
(* barrier is opened once, for all output threads, since no INIT_DONE of   *)
(* send_init_done_to_all_nodes is counted twice by process_setup_msg; no   *)
(* output thread sends more than init_msg_sent, no buffer outgrows         *)
(* MESSAGE_PER_BUFFER, no receivedKeys goes below zero, whichever threads  *)
(* decrement it, and a node stores only the keys meant for it.             *)
THEOREM TypeCorrect == Spec => []TypeOK
<1>1. Inv => TypeOK
  BY DEF Inv
<1>2. QED
  BY <1>1, InvHolds, PTL
-----------------------------------------------------------------------------
(* One instance thread.  Behind the look at the counters that found no key *)
(* missing there is no other: READY is said once, behind all that the      *)
(* replica had to say to the client.                                       *)
OneWorker == \E w : Worker = {w}

Done(s) == keys[s] = AllKeys(s) /\ \A w \in Worker : worker[s][w].pc = "idle"

Stage(s) ==
  /\ ~Done(s) => "READY" \notin Queued(s, Client) \cup Buffered(s, Client) /\ ready[s] = 0
  /\ \A i \in 1 .. Len(Queue(s, Client)) : Queue(s, Client)[i] = To("READY", Client) => i = Len(Queue(s, Client))
  /\ \A i \in 1 .. Len(mbuf[s][Client]) : mbuf[s][Client][i] = "READY" => Queue(s, Client) = <<>> /\ i = Len(mbuf[s][Client])
  /\ ready[s] > 0 => ready[s] = 1 /\ Queue(s, Client) = <<>> /\ mbuf[s][Client] = <<>>

(* The replicas that have said all, and the counts of the client's input   *)
(* threads, which may be too low.                                          *)
Heard == {s \in Replica : Done(s) /\ Queue(s, Client) = <<>> /\ mbuf[s][Client] = <<>> /\ ready[s] = 0}

HeardInv ==
  /\ totKey <= Cardinality(Heard)
  /\ \A i \in Input : input[i].pc = "store" => input[i].read < Cardinality(Heard)
  /\ keyAvail => Heard = Replica

(* A key for the client is on its way or there. *)
ClientInv ==
  \A s \in Replica \cap up, k \in Counted :
    k \in Queued(s, Client) \cup Buffered(s, Client) \/ <<s, k>> \in keys[Client]

OneInv == Inv /\ (\A s \in Replica : Stage(s)) /\ HeardInv /\ ClientInv

(* A replica that is done has started, and no key waits for it. *)
LEMMA DoneFacts ==
  ASSUME Inv, NEW s \in Replica, Done(s)
  PROVE  s \in up /\ Range(keyex[s]) = {}
<1> USE DEF Inv
<1>1. s \in Node /\ s # Client /\ Client \in Node
  BY Constants
<1>2. "ED2" \in Range(Kinds(Client, s))
  BY KindFacts DEF Counted
<1>3. <<Client, "ED2">> \in AllKeys(s)
  BY <1>1, <1>2, KeyFacts
<1>4. s \in up
  BY <1>1, <1>3 DEF Done, KeyInv
<1>5. Range(keyex[s]) = {}
  BY DEF Done, KeyInv, TypeOK
<1>6. QED
  BY <1>4, <1>5

(* What Stage and Heard say of a replica. *)
Saying(s) == <<Queue(s, Client), mbuf[s][Client], ready[s], keys[s], worker[s]>>

LEMMA SameSaying ==
  ASSUME NEW s \in Replica, Saying(s)' = Saying(s)
  PROVE  (Stage(s) => Stage(s)') /\ (s \in Heard => s \in Heard')
<1>1. /\ Queue(s, Client)' = Queue(s, Client) /\ mbuf'[s][Client] = mbuf[s][Client] /\ ready'[s] = ready[s]
      /\ keys'[s] = keys[s] /\ worker'[s] = worker[s]
  BY DEF Saying
<1>2. /\ Queued(s, Client)' = Queued(s, Client) /\ Buffered(s, Client)' = Buffered(s, Client)
      /\ Done(s)' <=> Done(s)
  BY <1>1 DEF Queued, Buffered, Done
<1>3. Stage(s) => Stage(s)'
  BY <1>1, <1>2 DEF Stage
<1>4. s \in Heard => s \in Heard'
  BY <1>1, <1>2 DEF Heard
<1>5. QED
  BY <1>3, <1>4

(* A replica that starts has nothing to say before. *)
LEMMA SetupStage ==
  ASSUME Inv, NEW s \in Replica, Stage(s), NEW n \in Node, setup(n)
  PROVE  Stage(s)' /\ (s \in Heard => s \in Heard')
<1> USE DEF Inv
<1>1. s \in Node /\ s # Client /\ Client \in Node /\ Client % SEND_THREAD_CNT \in Output
  BY Constants
<1>2. n \notin up /\ UNCHANGED <<mbuf, ready, worker>>
  BY DEF setup, taking
<1>3. keys'[s] = keys[s]
  <2>1. keys' = keys \/ keys' = [keys EXCEPT ![Client] = IF n = Client THEN @ ELSE @ \cup Range(Keys(n, Client))]
    BY DEF setup
  <2>2. keys \in [Node -> SUBSET (Node \X Key)]
    BY DEF TypeOK
  <2>3. QED
    BY <1>1, <2>1, <2>2
<1>4. CASE n \in AtOnce \/ n # s
  <2>1. m_queue'[s] = m_queue[s]
    <3>1. m_queue' = m_queue \/ (m_queue' = [m_queue EXCEPT ![n] = FirstRound[n]] /\ n # s)
      BY <1>4, Zenon DEF setup
    <3>2. m_queue \in [Replica -> [Output -> Seq([kind : Kind, dest : Node])]]
      BY DEF TypeOK
    <3>3. QED
      BY <3>1, <3>2
  <2>2. Saying(s)' = Saying(s)
    BY <1>2, <1>3, <2>1 DEF Saying, Queue
  <2>3. QED
    BY <2>2, SameSaying
<1>5. CASE n \notin AtOnce /\ n = s
  <2>1. ~Done(s)
    BY <1>2, <1>5, DoneFacts
  <2>2. /\ ~Done(s)' /\ s \notin Heard /\ Buffered(s, Client)' = Buffered(s, Client) /\ ready'[s] = 0
        /\ mbuf'[s] = mbuf[s] /\ "READY" \notin Buffered(s, Client)
    BY <1>2, <1>3, <2>1 DEF Done, Heard, Buffered, Stage
  <2>3. m_queue' = [m_queue EXCEPT ![s] = FirstRound[s]]
    BY <1>5 DEF setup
  <2>4. Queue(s, Client)' = FirstRound[s][Client % SEND_THREAD_CNT]
    <3>1. m_queue \in [Replica -> [Output -> Seq([kind : Kind, dest : Node])]]
      BY DEF TypeOK
    <3>2. QED
      BY <2>3, <3>1 DEF Queue
  <2>5. To("READY", Client) \notin Range(Queue(s, Client)') /\ Queue(s, Client)' \in Seq(Message)
    <3>1. "READY" \notin First(s, Client)
      BY KindFacts DEF First, Counted
    <3>2. QED
      BY <1>1, <2>4, <3>1, FirstRoundFacts
  <2>6. "READY" \notin Queued(s, Client)'
    BY <2>5 DEF Queued
  <2>7. \A i \in 1 .. Len(Queue(s, Client)') : Queue(s, Client)'[i] # To("READY", Client)
    BY <2>5 DEF Range
  <2>8. \A i \in 1 .. Len(mbuf[s][Client]) : mbuf[s][Client][i] # "READY"
    <3>1. mbuf[s][Client] \in Seq(Kind)
      BY <1>1 DEF TypeOK
    <3>2. QED
      BY <2>2, <3>1 DEF Buffered, Range
  <2>9. Stage(s)'
    BY <2>2, <2>6, <2>7, <2>8 DEF Stage
  <2>10. QED
    BY <2>2, <2>9
<1>6. QED
  BY <1>4, <1>5

(* The worker stores and counts only while something is missing, and says  *)
(* READY when nothing is.                                                  *)
LEMMA WorkerStage ==
  ASSUME Inv, OneWorker, NEW s \in Replica, Stage(s), NEW r \in Replica, NEW w \in Worker,
         (\E i \in Takable(r) : store_key(r, w, i)) \/ count_key(r, w) \/ send_ready(r, w)
  PROVE  Stage(s)' /\ (s \in Heard => s \in Heard')
<1> USE DEF Inv
<1>1. /\ worker \in [Replica -> [Worker -> [pc : {"idle", "store", "scan"}, from : Node, read : 0 .. 2]]]
      /\ keys \in [Node -> SUBSET (Node \X Key)]
      /\ m_queue \in [Replica -> [Output -> Seq([kind : Kind, dest : Node])]]
      /\ s \in Node /\ r \in Node /\ Client \in Node /\ Client % SEND_THREAD_CNT \in Output
  BY Constants DEF TypeOK
<1>2. CASE r # s
  <2>1. UNCHANGED <<mbuf, ready>>
    BY DEF store_key, count_key, send_ready, sending
  <2>2. worker'[s] = worker[s]
    <3>1. \E v : worker' = [worker EXCEPT ![r] = v]
      BY DEF store_key, count_key, send_ready
    <3>2. QED
      BY <1>1, <1>2, <3>1
  <2>3. keys'[s] = keys[s]
    <3>1. keys' = keys \/ \E v : keys' = [keys EXCEPT ![r] = v]
      BY DEF store_key, count_key, send_ready
    <3>2. QED
      BY <1>1, <1>2, <3>1
  <2>4. m_queue'[s] = m_queue[s]
    <3>1. m_queue' = m_queue \/ \E v : m_queue' = [m_queue EXCEPT ![r] = v]
      BY DEF store_key, count_key, send_ready, sending
    <3>2. QED
      BY <1>1, <1>2, <3>1
  <2>5. Saying(s)' = Saying(s)
    BY <2>1, <2>2, <2>3, <2>4 DEF Saying, Queue
  <2>6. QED
    BY <2>5, SameSaying
<1>3. CASE r = s /\ ((\E i \in Takable(r) : store_key(r, w, i)) \/ count_key(r, w))
  <2>1. ~Done(s)
    <3>1. ASSUME Done(s), NEW i \in Takable(s), store_key(s, w, i) PROVE FALSE
      <4>1. keyex[s] \in Seq(Node \X Key) /\ i \in 1 .. Len(keyex[s])
        BY DEF TypeOK, Takable
      <4>2. keyex[s][i] \in Range(keyex[s])
        BY <4>1 DEF Range
      <4>3. QED
        BY <3>1, <4>2, DoneFacts
    <3>2. count_key(s, w) => ~Done(s)
      BY DEF count_key, Done
    <3>3. QED
      BY <1>3, <3>1, <3>2
  <2>2. UNCHANGED <<mbuf, ready, m_queue>>
    BY <1>3 DEF store_key, count_key, sending
  <2>3. worker'[s][w].pc # "idle"
    BY <1>1, <1>3, SMTT(30) DEF store_key, count_key
  <2>4. ~Done(s)' /\ s \notin Heard
    BY <2>1, <2>3 DEF Done, Heard
  <2>5. Stage(s)'
    BY <2>1, <2>2, <2>4 DEF Stage, Queue, Queued, Buffered
  <2>6. QED
    BY <2>4, <2>5
<1>4. CASE r = s /\ send_ready(r, w)
  <2>1. PICK q : q = Queue(s, Client)
    OBVIOUS
  <2>2. /\ worker[s][w].pc = "scan" /\ UNCHANGED <<mbuf, ready, keys, receivedKeys>>
        /\ m_queue' = m_queue
           \/ (sendReady(s) /\ m_queue' = [m_queue EXCEPT ![s][Client % SEND_THREAD_CNT] = Append(@, To("READY", Client))])
    BY <1>4 DEF send_ready
  <2>3. /\ ~Done(s) /\ s \notin Heard /\ "READY" \notin Queued(s, Client) \cup Buffered(s, Client) /\ ready[s] = 0
        /\ Buffered(s, Client)' = Buffered(s, Client)
    BY <2>2 DEF Done, Heard, Stage, Buffered
  <2>4. /\ q \in Seq(Message) /\ mbuf[s][Client] \in Seq(Kind)
        /\ \A i \in 1 .. Len(q) : q[i] # To("READY", Client)
        /\ \A i \in 1 .. Len(mbuf[s][Client]) : mbuf[s][Client][i] # "READY"
    <3>1. q \in Seq(Message) /\ mbuf[s][Client] \in Seq(Kind) /\ "READY" \in Kind
      <4>1. q \in Seq(Message)
        BY <1>1, <2>1 DEF Queue, Message
      <4>2. mbuf[s][Client] \in Seq(Kind)
        BY <1>1 DEF TypeOK
      <4>3. "READY" \in Kind
        BY DEF Kind
      <4>4. QED
        BY <4>1, <4>2, <4>3
    <3>2. To("READY", Client) \notin Range(q)
      BY <2>1, <2>3, <3>1 DEF Queued
    <3>3. QED
      BY <2>3, <3>1, <3>2 DEF Buffered, Range
  <2>5. CASE m_queue' = m_queue
    <3>1. Queue(s, Client)' = q /\ Queued(s, Client)' = Queued(s, Client)
      BY <2>1, <2>5 DEF Queue, Queued
    <3>2. Stage(s)'
      BY <2>2, <2>3, <2>4, <3>1 DEF Stage
    <3>3. QED
      BY <2>3, <3>2
  <2>6. CASE sendReady(s) /\ m_queue' = [m_queue EXCEPT ![s][Client % SEND_THREAD_CNT] = Append(@, To("READY", Client))]
    <3>1. PICK z : z = Append(q, To("READY", Client))
      OBVIOUS
    <3>2. Queue(s, Client)' = z
      BY <1>1, <2>1, <2>6, <3>1 DEF Queue
    <3>3. /\ Len(z) = Len(q) + 1 /\ Len(q) \in Nat
          /\ \A i \in 1 .. Len(q) : z[i] = q[i]
      BY <2>4, <3>1
    <3>4. \A i \in 1 .. Len(z) : z[i] = To("READY", Client) => i = Len(z)
      BY <2>4, <3>3
    <3>5. keys[s] = AllKeys(s)
      <4>1. keys[s] \subseteq AllKeys(s)
        BY <1>1 DEF TypeOK
      <4>2. ASSUME NEW x \in AllKeys(s) PROVE x \in keys[s]
        <5>1. PICK n \in Node, l \in Key : x = <<n, l>>
          BY KeyFacts
        <5>2. n # s /\ l \in Range(Kinds(n, s))
          BY <5>1, KeyFacts
        <5>3. CASE l \in Counted
          <6>1. receivedKeys[s][n] = 0 /\ receivedKeys[s][n] >= Cardinality(Missing(s, n))
            BY <2>6, <5>1 DEF sendReady, CountInv
          <6>2. Missing(s, n) \subseteq Counted
            BY DEF Missing
          <6>3. IsFiniteSet(Missing(s, n)) /\ Cardinality(Missing(s, n)) \in 0 .. 2
            BY <6>2, Sizes
          <6>4. Cardinality(Missing(s, n)) = 0
            BY <6>1, <6>3
          <6>5. Missing(s, n) = {}
            BY <6>3, <6>4, FS_EmptySet
          <6>6. QED
            BY <5>1, <5>2, <5>3, <6>5 DEF Missing
        <5>4. CASE l \notin Counted
          <6>1. l = "SECP"
            BY <5>1, <5>4 DEF Counted, Key
          <6>2. n # Client
            <7>1. n = Client => Range(Kinds(n, s)) = Counted
              BY KindFacts
            <7>2. QED
              BY <5>2, <5>4, <7>1
          <6>3. n \in Replica \ {s}
            BY <5>1, <5>2, <6>2 DEF Node
          <6>4. <<n, "SECP">> \in keys[s]
            BY <2>6, <6>3 DEF sendReady
          <6>5. QED
            BY <5>1, <6>1, <6>4
        <5>5. QED
          BY <5>3, <5>4
      <4>3. QED
        BY <4>1, <4>2
    <3>6. Done(s)'
      <4>1. worker' = [worker EXCEPT ![s][w] = [pc |-> "idle", from |-> s, read |-> 0]]
        BY <1>4 DEF send_ready
      <4>2. \A u \in Worker : u = w
        BY DEF OneWorker
      <4>3. \A u \in Worker : worker'[s][u].pc = "idle"
        BY <1>1, <4>1, <4>2
      <4>4. QED
        BY <2>2, <3>5, <4>3 DEF Done
    <3>7. Stage(s)'
      BY <2>2, <2>3, <2>4, <3>2, <3>4, <3>6 DEF Stage
    <3>8. QED
      BY <2>3, <3>7
  <2>7. QED
    BY <2>2, <2>5, <2>6
<1>5. QED
  BY <1>2, <1>3, <1>4

(* The number of READY in a buffer. *)
LEMMA ReadyCount ==
  ASSUME NEW msgs \in Seq(Kind)
  PROVE  /\ "READY" \notin Range(msgs) => Cardinality(At(msgs, {"READY"})) = 0
         /\ (\A i \in 1 .. Len(msgs) : msgs[i] = "READY" => i = Len(msgs)) => Cardinality(At(msgs, {"READY"})) \in 0 .. 1
<1>1. ASSUME "READY" \notin Range(msgs) PROVE Cardinality(At(msgs, {"READY"})) = 0
  <2>1. At(msgs, {"READY"}) = {}
    BY <1>1 DEF At, Range
  <2>2. QED
    BY <2>1, FS_EmptySet
<1>2. ASSUME \A i \in 1 .. Len(msgs) : msgs[i] = "READY" => i = Len(msgs)
      PROVE  Cardinality(At(msgs, {"READY"})) \in 0 .. 1
  <2>1. At(msgs, {"READY"}) \subseteq {Len(msgs)}
    BY <1>2 DEF At
  <2>2. IsFiniteSet({Len(msgs)}) /\ Cardinality({Len(msgs)}) = 1
    BY FS_Singleton
  <2>3. IsFiniteSet(At(msgs, {"READY"})) /\ Cardinality(At(msgs, {"READY"})) <= 1
    BY <2>1, <2>2, FS_Subset
  <2>4. Cardinality(At(msgs, {"READY"})) \in Nat
    BY <2>3, FS_CardinalityType
  <2>5. QED
    BY <2>3, <2>4
<1>3. QED
  BY <1>1, <1>2

(* What run does to the keys and the READY on their way. *)
LEMMA RunEffect ==
  ASSUME Inv, NEW n \in Replica, NEW o \in Output, NEW d, NEW k, NEW buf, run(n, o), Moved(n, o, d, k, buf)
  PROVE  /\ \A s \in Replica : keys'[s] = keys[s]
         /\ keys[Client] \subseteq keys'[Client]
         /\ \/ mbuf'[n][d] = buf /\ ready' = ready
            \/ /\ mbuf'[n][d] = <<>> /\ ready'[n] = ready[n] + Cardinality(At(buf, {"READY"}))
               /\ \A s \in Replica \ {n} : ready'[s] = ready[s]
               /\ d = Client => \A l \in Key \cap Range(buf) : <<n, l>> \in keys'[Client]
         /\ \A m \in Replica, e \in Node : <<m, e>> # <<n, d>> => mbuf'[m][e] = mbuf[m][e]
<1> USE DEF Inv
<1>1. /\ mbuf \in [Replica -> [Node -> Seq(Kind)]] /\ ready \in [Replica -> Nat]
      /\ keys \in [Node -> SUBSET (Node \X Key)] /\ Client \in Node /\ Client \notin Replica /\ Replica \subseteq Node
  BY Constants DEF TypeOK
<1>2. /\ d \in Node /\ buf \in Seq(Kind) /\ NoRepeat(buf, {"READY"})
      /\ \/ mbuf' = [mbuf EXCEPT ![n][d] = buf] /\ UNCHANGED <<ready, keys>>
         \/ deliver(n, d, buf) /\ mbuf' = [mbuf EXCEPT ![n][d] = <<>>]
  BY DEF Moved, Taken
<1>3. CASE mbuf' = [mbuf EXCEPT ![n][d] = buf] /\ UNCHANGED <<ready, keys>>
  BY <1>1, <1>2, <1>3
<1>4. CASE deliver(n, d, buf) /\ mbuf' = [mbuf EXCEPT ![n][d] = <<>>]
  <2>1. PICK key : Delivered(n, d, buf, key)
    BY <1>2, <1>4, DeliverFacts
  <2>2. /\ \A x : x \in Range(key) <=> \E l \in Key \cap Range(buf) : x = <<n, l>>
        /\ ready' = [ready EXCEPT ![n] = @ + Cardinality(At(buf, {"READY"}))]
        /\ IF d = Client THEN keys' = [keys EXCEPT ![d] = @ \cup Range(key)] ELSE keys' = keys
    BY <2>1 DEF Delivered, IsKeyList
  <2>3. /\ \A s \in Replica : keys'[s] = keys[s]
        /\ keys[Client] \subseteq keys'[Client]
        /\ d = Client => Range(key) \subseteq keys'[Client]
    BY <1>1, <2>2
  <2>4. d = Client => \A l \in Key \cap Range(buf) : <<n, l>> \in keys'[Client]
    BY <2>2, <2>3
  <2>5. /\ ready'[n] = ready[n] + Cardinality(At(buf, {"READY"}))
        /\ \A s \in Replica \ {n} : ready'[s] = ready[s]
    BY <1>1, <2>2
  <2>6. /\ mbuf'[n][d] = <<>>
        /\ \A m \in Replica, e \in Node : <<m, e>> # <<n, d>> => mbuf'[m][e] = mbuf[m][e]
    BY <1>1, <1>2, <1>4
  <2>7. QED
    BY <2>3, <2>4, <2>5, <2>6
<1>5. QED
  BY <1>2, <1>3, <1>4

LEMMA RunStage ==
  ASSUME Inv, NEW s \in Replica, Stage(s), NEW n \in Replica, NEW o \in Output, run(n, o)
  PROVE  Stage(s)' /\ (s \in Heard => s \in Heard')
<1> USE DEF Inv
<1>1. PICK d, k, buf : Moved(n, o, d, k, buf)
  BY TakeFacts
<1>2. /\ d \in Node /\ k \in Kind /\ Head(m_queue[n][o]) = To(k, d) /\ d % SEND_THREAD_CNT = o
      /\ buf = Append(mbuf[n][d], k) /\ buf \in Seq(Kind) /\ Range(buf) \subseteq Expected(n, d)
  BY <1>1 DEF Moved, Taken, Popped
<1>3. /\ m_queue[n][o] # <<>> /\ m_queue' = [m_queue EXCEPT ![n][o] = Tail(@)] /\ worker' = worker
  BY DEF run, taking
<1>4. /\ m_queue \in [Replica -> [Output -> Seq(Message)]] /\ ready \in [Replica -> Nat]
      /\ mbuf \in [Replica -> [Node -> Seq(Kind)]]
      /\ s \in Node /\ Client \in Node /\ Client % SEND_THREAD_CNT \in Output
  BY Constants DEF TypeOK, Message
<1>5. /\ keys'[s] = keys[s]
      /\ \/ mbuf'[n][d] = buf /\ ready' = ready
         \/ /\ mbuf'[n][d] = <<>> /\ ready'[n] = ready[n] + Cardinality(At(buf, {"READY"}))
            /\ \A t \in Replica \ {n} : ready'[t] = ready[t]
      /\ \A m \in Replica, e \in Node : <<m, e>> # <<n, d>> => mbuf'[m][e] = mbuf[m][e]
  BY <1>1, RunEffect
<1>6. Done(s)' <=> Done(s)
  BY <1>3, <1>5 DEF Done
<1>7. d # Client => ready'[s] = ready[s]
  <2>1. ASSUME d # Client PROVE Cardinality(At(buf, {"READY"})) = 0
    <3>1. "READY" \notin Range(buf)
      <4>1. "READY" \notin First(n, d)
        BY KindFacts DEF First, Counted, Key
      <4>2. QED
        BY <1>2, <2>1, <4>1 DEF Expected
    <3>2. QED
      BY <1>2, <3>1, ReadyCount
  <2>2. QED
    BY <1>4, <1>5, <2>1
<1>8. CASE s # n \/ o # Client % SEND_THREAD_CNT
  <2>1. s = n => d # Client
    BY <1>2, <1>8
  <2>2. mbuf'[s][Client] = mbuf[s][Client]
    BY <1>4, <1>5, <2>1
  <2>3. ready'[s] = ready[s]
    <3>1. CASE s # n
      BY <1>5, <3>1
    <3>2. CASE s = n
      BY <1>7, <2>1, <3>2
    <3>3. QED
      BY <3>1, <3>2
  <2>4. Queue(s, Client)' = Queue(s, Client)
    BY <1>3, <1>4, <1>8 DEF Queue
  <2>5. Saying(s)' = Saying(s)
    BY <1>3, <1>5, <2>2, <2>3, <2>4 DEF Saying
  <2>6. QED
    BY <2>5, SameSaying
<1>9. CASE s = n /\ o = Client % SEND_THREAD_CNT
  <2>1. PICK q : q = Queue(s, Client)
    OBVIOUS
  <2>2. PICK t : t = Tail(q)
    OBVIOUS
  <2>3. PICK b : b = mbuf[s][Client]
    OBVIOUS
  <2>4. q = m_queue[n][o] /\ q # <<>> /\ q \in Seq(Message) /\ b \in Seq(Kind)
    BY <1>3, <1>4, <1>9, <2>1, <2>3 DEF Queue
  <2>5. Queue(s, Client)' = t
    BY <1>3, <1>4, <1>9, <2>2, <2>4 DEF Queue
  <2>6. /\ t \in Seq(Message) /\ Len(t) = Len(q) - 1 /\ Len(q) \in Nat /\ Len(q) > 0
        /\ \A i \in 1 .. Len(t) : t[i] = q[i + 1]
        /\ Range(q) = {Head(q)} \cup Range(t) /\ Head(q) = q[1]
    BY <2>2, <2>4, TailFacts
  <2>7. /\ s \notin Heard /\ ready[s] = 0
        /\ \A i \in 1 .. Len(b) : b[i] # "READY"
        /\ \A i \in 1 .. Len(q) : q[i] = To("READY", Client) => i = Len(q)
        /\ ~Done(s) => To("READY", Client) \notin Range(q) /\ "READY" \notin Range(b)
    <3>1. s \notin Heard /\ ready[s] = 0
      <4>1. ready[s] > 0 => q = <<>>
        BY <2>1 DEF Stage
      <4>2. s \in Heard => q = <<>>
        BY <2>1 DEF Heard
      <4>3. QED
        BY <1>4, <2>4, <4>1, <4>2
    <3>2. \A i \in 1 .. Len(b) : b[i] # "READY"
      BY <2>1, <2>3, <2>4 DEF Stage
    <3>3. \A i \in 1 .. Len(q) : q[i] = To("READY", Client) => i = Len(q)
      BY <2>1 DEF Stage
    <3>4. ~Done(s) => To("READY", Client) \notin Range(q) /\ "READY" \notin Range(b)
      <4>1. "READY" \in Kind
        BY DEF Kind
      <4>2. QED
        BY <2>1, <2>3, <4>1 DEF Stage, Queued, Buffered
    <3>5. QED
      BY <3>1, <3>2, <3>3, <3>4
  <2>8. \A i \in 1 .. Len(t) : t[i] = To("READY", Client) => i = Len(t)
    <3>1. ASSUME NEW i \in 1 .. Len(t), t[i] = To("READY", Client) PROVE i = Len(t)
      <4>1. i + 1 \in 1 .. Len(q) /\ q[i + 1] = To("READY", Client)
        BY <2>6, <3>1
      <4>2. i + 1 = Len(q)
        BY <2>7, <4>1
      <4>3. QED
        BY <2>6, <4>2
    <3>2. QED
      BY <3>1
  <2>9. ~Done(s) => To("READY", Client) \notin Range(t) /\ "READY" \notin Queued(s, Client)'
    BY <2>5, <2>6, <2>7 DEF Queued
  <2>10. PICK c : c = mbuf'[s][Client]
    OBVIOUS
  <2>11. c = mbuf[s][Client]' /\ Buffered(s, Client)' = Range(c)
    BY <2>10 DEF Buffered
  <2>12. CASE d # Client
    <3>1. c = b /\ ready'[s] = 0
      BY <1>4, <1>5, <1>7, <2>3, <2>7, <2>10, <2>12
    <3>2. Stage(s)'
      BY <1>6, <2>5, <2>7, <2>8, <2>9, <2>11, <3>1 DEF Stage
    <3>3. QED
      BY <2>7, <3>2
  <2>13. CASE d = Client
    <3>1. buf = Append(b, k)
      BY <1>2, <1>9, <2>3, <2>13
    <3>2. /\ Len(b) \in Nat /\ Len(buf) = Len(b) + 1 /\ buf[Len(b) + 1] = k
          /\ \A i \in 1 .. Len(b) : buf[i] = b[i]
      BY <1>2, <2>4, <3>1
    <3>3. k = "READY" => t = <<>>
      <4>1. ASSUME k = "READY" PROVE Len(t) = 0
        <5>1. q[1] = To("READY", Client) /\ 1 \in 1 .. Len(q)
          BY <1>2, <2>4, <2>6, <2>13, <4>1
        <5>2. Len(q) = 1
          BY <2>7, <5>1
        <5>3. Len(t) = 1 - 1
          BY <2>6, <5>2, Zenon
        <5>4. QED
          BY <5>3
      <4>2. Len(t) = 0 => t = <<>>
        BY <2>6
      <4>3. QED
        BY <4>1, <4>2
    <3>4. \A i \in 1 .. Len(buf) : buf[i] = "READY" => i = Len(buf) /\ k = "READY"
      BY <2>7, <3>2
    <3>5. ~Done(s) => k # "READY"
      <4>1. k = "READY" => To("READY", Client) \in Range(q)
        BY <1>2, <2>4, <2>6, <2>13
      <4>2. QED
        BY <2>7, <4>1
    <3>6. ~Done(s) => "READY" \notin Range(buf)
      BY <1>2, <3>4, <3>5 DEF Range
    <3>7. CASE mbuf'[n][d] = buf /\ ready' = ready
      <4>1. c = buf /\ ready'[s] = 0
        BY <1>9, <2>7, <2>10, <2>13, <3>7
      <4>2. \A i \in 1 .. Len(c) : c[i] = "READY" => t = <<>> /\ i = Len(c)
        BY <3>3, <3>4, <4>1
      <4>3. ~Done(s) => "READY" \notin Range(c)
        BY <3>6, <4>1
      <4>4. Stage(s)'
        BY <1>6, <2>5, <2>8, <2>9, <2>11, <4>1, <4>2, <4>3 DEF Stage
      <4>5. QED
        BY <2>7, <4>4
    <3>8. CASE mbuf'[n][d] = <<>> /\ ready'[n] = ready[n] + Cardinality(At(buf, {"READY"}))
      <4>1. PICK a : a = Cardinality(At(buf, {"READY"}))
        OBVIOUS
      <4>2. a \in 0 .. 1 /\ ("READY" \notin Range(buf) => a = 0)
        BY <1>2, <3>4, <4>1, ReadyCount
      <4>3. c = <<>> /\ ready'[s] = a
        BY <1>9, <2>7, <2>10, <2>13, <3>8, <4>1, <4>2
      <4>4. a > 0 => t = <<>>
        <5>1. k # "READY" => "READY" \notin Range(buf)
          BY <1>2, <3>4 DEF Range
        <5>2. QED
          BY <3>3, <4>2, <5>1
      <4>5. ~Done(s) => a = 0
        BY <3>6, <4>2
      <4>6. Range(c) = {} /\ \A i \in 1 .. Len(c) : FALSE
        BY <4>3, EmptyRange
      <4>7. Stage(s)'
        BY <1>6, <2>5, <2>8, <2>9, <2>11, <4>2, <4>3, <4>4, <4>5, <4>6 DEF Stage
      <4>8. QED
        BY <2>7, <4>7
    <3>9. QED
      BY <1>5, <3>7, <3>8
  <2>14. QED
    BY <2>12, <2>13
<1>10. QED
  BY <1>8, <1>9

(* The client takes a READY of a replica that has said all. *)
LEMMA ReceiveStage ==
  ASSUME Inv, NEW s \in Replica, Stage(s), NEW r \in Replica, receive_ready(r)
  PROVE  Stage(s)' /\ (s \in Heard => s \in Heard') /\ (s = r => s \in Heard' /\ s \notin Heard)
<1>1. /\ ready[r] > 0 /\ ready' = [ready EXCEPT ![r] = @ - 1] /\ ready \in [Replica -> Nat]
      /\ UNCHANGED <<m_queue, mbuf, keys, worker>>
  BY DEF Inv, TypeOK, receive_ready, sending, taking
<1>2. CASE s # r
  <2>1. Saying(s)' = Saying(s)
    BY <1>1, <1>2 DEF Saying, Queue
  <2>2. QED
    BY <1>2, <2>1, SameSaying
<1>3. CASE s = r
  <2>1. ready[s] = 1 /\ Queue(s, Client) = <<>> /\ mbuf[s][Client] = <<>> /\ Done(s)
    BY <1>1, <1>3 DEF Stage
  <2>2. ready'[s] = 0
    BY <1>1, <1>3, <2>1
  <2>3. Queue(s, Client)' = <<>> /\ mbuf'[s][Client] = <<>> /\ Done(s)'
    BY <1>1, <2>1 DEF Queue, Done
  <2>4. \A i \in 1 .. Len(<<>>) : FALSE
    OBVIOUS
  <2>5. Stage(s)'
    BY <2>2, <2>3, <2>4 DEF Stage
  <2>6. s \in Heard' /\ s \notin Heard
    BY <2>1, <2>2, <2>3 DEF Heard
  <2>7. QED
    BY <2>5, <2>6
<1>4. QED
  BY <1>2, <1>3

(* All steps. *)
LEMMA StageStep ==
  ASSUME Inv, OneWorker, NEW s \in Replica, Stage(s), [Next]_vars
  PROVE  Stage(s)' /\ (s \in Heard => s \in Heard')
<1>1. CASE \E n \in Node : setup(n)
  BY <1>1, SetupStage
<1>2. CASE \E n \in Replica, o \in Output : run(n, o)
  BY <1>2, RunStage
<1>3. CASE \E r \in Replica, w \in Worker :
             (\E i \in Takable(r) : store_key(r, w, i)) \/ count_key(r, w) \/ send_ready(r, w)
  BY <1>3, WorkerStage
<1>4. CASE \E r \in Replica : receive_ready(r)
  BY <1>4, ReceiveStage
<1>5. CASE \/ \E n \in Replica : is_warmup_done(n)
           \/ \E n \in Replica, o \in Output : OutputThread_setup(n, o) \/ OutputThread_wait(n, o)
           \/ \E i \in Input : count_ready(i) \/ test_ready(i)
           \/ UNCHANGED vars
  <2>1. UNCHANGED <<m_queue, mbuf, ready, keys, worker>>
    BY <1>5 DEF is_warmup_done, OutputThread_setup, OutputThread_wait, count_ready, test_ready, vars, sending, taking
  <2>2. Saying(s)' = Saying(s)
    BY <2>1 DEF Saying, Queue
  <2>3. QED
    BY <2>2, SameSaying
<1>6. QED
  BY <1>1, <1>2, <1>3, <1>4, <1>5 DEF Next

LEMMA HeardStep ==
  ASSUME OneInv, OneWorker, [Next]_vars
  PROVE  HeardInv'
<1>1. /\ totKey \in Nat /\ keyAvail \in BOOLEAN /\ input \in [Input -> [pc : {"idle", "store", "test"}, read : Nat]]
      /\ \A s \in Replica : thread[s] \in Input
  BY ConstantsAssumption DEF OneInv, Inv, TypeOK
<1>2. PICK h : h = Cardinality(Heard)
  OBVIOUS
<1>3. PICK H : H = Heard'
  OBVIOUS
<1>4. Heard \subseteq H /\ H \subseteq Replica
  <2>1. \A s \in Heard : s \in Heard'
    BY StageStep DEF OneInv, Heard
  <2>2. Heard' \subseteq Replica
    BY DEF Heard
  <2>3. QED
    BY <1>3, <2>1, <2>2
<1>5. IsFiniteSet(H) /\ IsFiniteSet(Heard) /\ Cardinality(H) \in Nat /\ h \in Nat /\ h <= Cardinality(H)
  <2>1. IsFiniteSet(H) /\ IsFiniteSet(Heard)
    BY <1>4, Constants, FS_Subset
  <2>2. QED
    BY <1>2, <1>4, <2>1, FS_Subset, FS_CardinalityType
<1>6. /\ totKey <= h /\ (keyAvail => Heard = Replica)
      /\ \A i \in Input : input[i].pc = "store" => input[i].read < h
  BY <1>2 DEF OneInv, HeardInv
<1>7. keyAvail => H = Replica
  BY <1>4, <1>6
<1>8. ASSUME NEW s \in Replica, receive_ready(s) PROVE HeardInv'
  <2>1. s \in H /\ s \notin Heard
    BY <1>3, <1>8, ReceiveStage DEF OneInv
  <2>2. h + 1 <= Cardinality(H)
    <3>1. IsFiniteSet(Heard \cup {s}) /\ Cardinality(Heard \cup {s}) = Cardinality(Heard) + 1
      BY <1>5, <2>1, FS_AddElement
    <3>2. Heard \cup {s} \subseteq H
      BY <1>4, <2>1
    <3>3. Cardinality(Heard \cup {s}) <= Cardinality(H)
      BY <1>5, <3>2, FS_Subset
    <3>4. QED
      BY <1>2, <3>1, <3>3
  <2>3. /\ UNCHANGED <<totKey, keyAvail>>
        /\ input' = [input EXCEPT ![thread[s]] = [pc |-> "store", read |-> totKey]]
    BY <1>8 DEF receive_ready
  <2>4. ASSUME NEW i \in Input, input'[i].pc = "store" PROVE input'[i].read < Cardinality(H)
    <3>1. CASE i = thread[s]
      <4>1. input'[i].read = totKey
        BY <1>1, <2>3, <3>1
      <4>2. QED
        BY <1>1, <1>5, <1>6, <2>2, <4>1
    <3>2. CASE i # thread[s]
      <4>1. input'[i] = input[i]
        BY <1>1, <2>3, <3>2
      <4>2. input[i].read < h /\ input[i].read \in Nat
        BY <1>1, <1>6, <2>4, <4>1
      <4>3. QED
        BY <1>5, <4>1, <4>2
    <3>3. QED
      BY <3>1, <3>2
  <2>5. totKey' <= Cardinality(H)
    BY <1>1, <1>5, <1>6, <2>3
  <2>6. QED
    BY <1>3, <1>7, <2>3, <2>4, <2>5 DEF HeardInv
<1>9. ASSUME NEW i \in Input, count_ready(i) PROVE HeardInv'
  <2>1. /\ input[i].pc = "store" /\ totKey' = input[i].read + 1 /\ keyAvail' = keyAvail
        /\ input' = [input EXCEPT ![i] = [pc |-> "test", read |-> 0]]
    BY <1>9 DEF count_ready
  <2>2. input[i].read < h /\ input[i].read \in Nat
    BY <1>1, <1>6, <2>1
  <2>3. totKey' <= Cardinality(H)
    BY <1>5, <2>1, <2>2
  <2>4. ASSUME NEW j \in Input, input'[j].pc = "store" PROVE input'[j].read < Cardinality(H)
    <3>1. input'[j] = input[j]
      BY <1>1, <2>1, <2>4
    <3>2. input[j].read < h /\ input[j].read \in Nat
      BY <1>1, <1>6, <2>4, <3>1
    <3>3. QED
      BY <1>5, <3>1, <3>2
  <2>5. QED
    BY <1>3, <1>7, <2>1, <2>3, <2>4 DEF HeardInv
<1>10. ASSUME NEW i \in Input, test_ready(i) PROVE HeardInv'
  <2>1. /\ totKey' = totKey /\ keyAvail' = (keyAvail \/ totKey = Cardinality(Replica))
        /\ input[i].pc = "test" /\ input' = [input EXCEPT ![i].pc = "idle"]
    BY <1>10 DEF test_ready
  <2>2. totKey' <= Cardinality(H)
    BY <1>1, <1>5, <1>6, <2>1
  <2>3. ASSUME NEW j \in Input, input'[j].pc = "store" PROVE input'[j].read < Cardinality(H)
    <3>1. input'[j] = input[j]
      BY <1>1, <2>1, <2>3
    <3>2. input[j].read < h /\ input[j].read \in Nat
      BY <1>1, <1>6, <2>3, <3>1
    <3>3. QED
      BY <1>5, <3>1, <3>2
  <2>4. keyAvail' => H = Replica
    <3>1. ASSUME totKey = Cardinality(Replica) PROVE H = Replica
      <4>1. IsFiniteSet(Replica) /\ Cardinality(Replica) \in Nat /\ Cardinality(H) <= Cardinality(Replica)
        BY <1>4, Constants, FS_Subset, FS_CardinalityType
      <4>2. Cardinality(H) = Cardinality(Replica)
        BY <1>5, <2>1, <2>2, <3>1, <4>1
      <4>3. QED
        BY <1>4, <4>1, <4>2, FS_Subset
    <3>2. QED
      BY <1>7, <2>1, <3>1
  <2>5. QED
    BY <1>3, <2>2, <2>3, <2>4 DEF HeardInv
<1>11. CASE UNCHANGED <<totKey, keyAvail, input>>
  <2>1. totKey' <= Cardinality(H)
    BY <1>1, <1>5, <1>6, <1>11
  <2>2. ASSUME NEW j \in Input, input'[j].pc = "store" PROVE input'[j].read < Cardinality(H)
    <3>1. input'[j] = input[j]
      BY <1>11
    <3>2. input[j].read < h /\ input[j].read \in Nat
      BY <1>1, <1>6, <2>2, <3>1
    <3>3. QED
      BY <1>5, <3>1, <3>2
  <2>3. QED
    BY <1>3, <1>7, <1>11, <2>1, <2>2 DEF HeardInv
<1>12. QED
  <2>1. \/ UNCHANGED <<totKey, keyAvail, input>>
        \/ \E s \in Replica : receive_ready(s)
        \/ \E i \in Input : count_ready(i) \/ test_ready(i)
    <3>1. ASSUME NEW n, setup(n) \/ is_warmup_done(n) PROVE UNCHANGED <<totKey, keyAvail, input>>
      BY <3>1 DEF setup, is_warmup_done, client
    <3>2. ASSUME NEW n, NEW o, OutputThread_setup(n, o) \/ OutputThread_wait(n, o) \/ run(n, o)
          PROVE  UNCHANGED <<totKey, keyAvail, input>>
      <4>1. CASE OutputThread_setup(n, o)
        BY <4>1 DEF OutputThread_setup, client
      <4>2. CASE OutputThread_wait(n, o)
        BY <4>2 DEF OutputThread_wait, client
      <4>3. CASE run(n, o)
        BY <4>3 DEF run, client
      <4>4. QED
        BY <3>2, <4>1, <4>2, <4>3
    <3>3. ASSUME NEW s, NEW w, NEW i, store_key(s, w, i) PROVE UNCHANGED <<totKey, keyAvail, input>>
      BY <3>3 DEF store_key, client
    <3>4. ASSUME NEW s, NEW w, count_key(s, w) \/ send_ready(s, w) PROVE UNCHANGED <<totKey, keyAvail, input>>
      BY <3>4 DEF count_key, send_ready, client
    <3>5. UNCHANGED vars => UNCHANGED <<totKey, keyAvail, input>>
      BY DEF vars, client
    <3>6. QED
      BY <3>1, <3>2, <3>3, <3>4, <3>5 DEF Next
  <2>2. QED
    BY <1>8, <1>9, <1>10, <1>11, <2>1

LEMMA ClientStep ==
  ASSUME Inv, ClientInv, [Next]_vars
  PROVE  ClientInv'
<1> USE DEF Inv
<1>1. /\ keys \in [Node -> SUBSET (Node \X Key)] /\ Client \in Node /\ Client \notin Replica /\ Replica \subseteq Node
      /\ m_queue \in [Replica -> [Output -> Seq(Message)]] /\ Client % SEND_THREAD_CNT \in Output
      /\ mbuf \in [Replica -> [Node -> Seq(Kind)]]
  BY Constants DEF TypeOK, Message
<1>2. ASSUME NEW n \in Node, setup(n) PROVE ClientInv'
  <2>1. /\ up' = up \cup {n} /\ mbuf' = mbuf /\ n \notin up
    BY <1>2 DEF setup
  <2>2. CASE n \in AtOnce
    <3>1. /\ m_queue' = m_queue
          /\ keys' = [keys EXCEPT ![Client] = IF n = Client THEN @ ELSE @ \cup Range(Keys(n, Client))]
      BY <1>2, <2>2 DEF setup
    <3>2. keys[Client] \subseteq keys'[Client] /\ (n # Client => Range(Keys(n, Client)) \subseteq keys'[Client])
      BY <1>1, <3>1
    <3>3. \A s \in Replica : /\ Queued(s, Client)' = Queued(s, Client)
                             /\ Buffered(s, Client)' = Buffered(s, Client)
      BY <2>1, <3>1 DEF Queued, Queue, Buffered
    <3>4. ASSUME n \in Replica, NEW k \in Counted PROVE <<n, k>> \in keys'[Client]
      <4>1. k \in Range(Kinds(n, Client))
        BY KindFacts
      <4>2. IsKey(<<n, k>>, n, Client)
        BY <4>1 DEF IsKey
      <4>3. <<n, k>> \in Range(Keys(n, Client))
        BY <4>2, KeysOf
      <4>4. QED
        BY <1>1, <3>2, <3>4, <4>3
    <3>5. QED
      BY <2>1, <3>2, <3>3, <3>4 DEF ClientInv
  <2>3. CASE n \notin AtOnce
    <3>1. /\ m_queue' = [m_queue EXCEPT ![n] = FirstRound[n]] /\ keys' = keys /\ n \in Replica
      BY <1>2, <2>3, ConstantsAssumption DEF setup, Node
    <3>2. \A s \in Replica \ {n} : /\ Queued(s, Client)' = Queued(s, Client)
                                   /\ Buffered(s, Client)' = Buffered(s, Client)
      BY <1>1, <2>1, <3>1 DEF Queued, Queue, Buffered
    <3>3. ASSUME NEW k \in Counted PROVE k \in Queued(n, Client)'
      <4>1. Queue(n, Client)' = FirstRound[n][Client % SEND_THREAD_CNT]
        BY <1>1, <3>1 DEF Queue
      <4>2. k \in First(n, Client) /\ k \in Kind
        BY KindFacts DEF First
      <4>3. To(k, Client) \in Range(FirstRound[n][Client % SEND_THREAD_CNT])
        BY <1>1, <3>1, <4>2, FirstRoundFacts
      <4>4. QED
        BY <4>1, <4>2, <4>3 DEF Queued
    <3>4. QED
      BY <2>1, <3>1, <3>2, <3>3 DEF ClientInv
  <2>4. QED
    BY <2>2, <2>3
<1>3. ASSUME NEW n \in Replica, NEW o \in Output, run(n, o) PROVE ClientInv'
  <2>1. PICK d, k, buf : Moved(n, o, d, k, buf)
    BY <1>3, TakeFacts
  <2>2. /\ d \in Node /\ buf \in Seq(Kind)
        /\ Queued(n, d) \cup Buffered(n, d) = Queued(n, d)' \cup Range(buf)
        /\ \A m \in Replica, e \in Node : <<m, e>> # <<n, d>> => Queued(m, e)' = Queued(m, e)
    BY <2>1 DEF Moved, Taken, Popped
  <2>3. /\ keys[Client] \subseteq keys'[Client]
        /\ \/ mbuf'[n][d] = buf
           \/ (d = Client => \A l \in Key \cap Range(buf) : <<n, l>> \in keys'[Client])
        /\ \A m \in Replica, e \in Node : <<m, e>> # <<n, d>> => mbuf'[m][e] = mbuf[m][e]
    BY <1>3, <2>1, RunEffect
  <2>4. up' = up
    BY <1>3 DEF run
  <2>5. ASSUME NEW s \in Replica \cap up, NEW l \in Counted
        PROVE  l \in Queued(s, Client)' \cup Buffered(s, Client)' \/ <<s, l>> \in keys'[Client]
    <3>1. l \in Queued(s, Client) \cup Buffered(s, Client) \/ <<s, l>> \in keys[Client]
      BY DEF ClientInv
    <3>2. CASE <<s, Client>> # <<n, d>>
      <4>1. Queued(s, Client)' = Queued(s, Client) /\ Buffered(s, Client)' = Buffered(s, Client)
        BY <1>1, <2>2, <2>3, <3>2 DEF Buffered
      <4>2. QED
        BY <2>3, <3>1, <4>1
    <3>3. CASE s = n /\ d = Client
      <4>1. mbuf'[n][d] = buf => Buffered(s, Client)' = Range(buf)
        BY <3>3 DEF Buffered
      <4>2. l \in Key
        BY KindFacts
      <4>3. QED
        BY <2>2, <2>3, <3>1, <3>3, <4>1, <4>2
    <3>4. QED
      BY <3>2, <3>3
  <2>6. QED
    BY <2>4, <2>5 DEF ClientInv
<1>4. ASSUME NEW r \in Replica, NEW w \in Worker, send_ready(r, w) PROVE ClientInv'
  <2>1. /\ UNCHANGED <<up, keys, mbuf>>
        /\ m_queue' = m_queue
           \/ m_queue' = [m_queue EXCEPT ![r][Client % SEND_THREAD_CNT] = Append(@, To("READY", Client))]
    BY <1>4 DEF send_ready, start
  <2>2. ASSUME NEW s \in Replica PROVE Queued(s, Client) \subseteq Queued(s, Client)'
    <3>1. CASE Queue(s, Client)' = Queue(s, Client)
      BY <3>1 DEF Queued
    <3>2. CASE Queue(s, Client)' = Append(Queue(s, Client), To("READY", Client))
      <4>1. Queue(s, Client) \in Seq(Message)
        BY <1>1 DEF Queue
      <4>2. "READY" \in Kind
        BY DEF Kind
      <4>3. To("READY", Client) \in Message
        BY <1>1, <4>2, ToFacts
      <4>4. Range(Queue(s, Client)') = Range(Queue(s, Client)) \cup {To("READY", Client)}
        BY <3>2, <4>1, <4>3, AppendFacts
      <4>5. QED
        BY <4>4 DEF Queued
    <3>3. CASE m_queue' = m_queue
      BY <3>1, <3>3 DEF Queue
    <3>4. CASE m_queue' = [m_queue EXCEPT ![r][Client % SEND_THREAD_CNT] = Append(@, To("READY", Client))]
      <4>1. PICK z : z = Append(Queue(r, Client), To("READY", Client))
        OBVIOUS
      <4>2. m_queue' = [m_queue EXCEPT ![r][Client % SEND_THREAD_CNT] = z]
        BY <3>4, <4>1 DEF Queue
      <4>3. CASE s = r
        <5>1. m_queue'[r][Client % SEND_THREAD_CNT] = z
          BY <1>1, <4>2
        <5>2. QED
          BY <3>2, <4>1, <4>3, <5>1 DEF Queue
      <4>4. CASE s # r
        <5>1. m_queue'[s] = m_queue[s]
          BY <1>1, <4>2, <4>4
        <5>2. QED
          BY <3>1, <5>1 DEF Queue
      <4>5. QED
        BY <4>3, <4>4
    <3>5. QED
      BY <2>1, <3>3, <3>4
  <2>3. \A s : Buffered(s, Client)' = Buffered(s, Client)
    BY <2>1 DEF Buffered
  <2>4. QED
    BY <2>1, <2>2, <2>3 DEF ClientInv
<1>5. ASSUME NEW r \in Replica, NEW w \in Worker, NEW i, store_key(r, w, i) PROVE ClientInv'
  <2>1. UNCHANGED <<up, m_queue, mbuf>> /\ keys' = [keys EXCEPT ![r] = @ \cup {keyex[r][i]}]
    BY <1>5 DEF store_key, sending, start
  <2>2. keys'[Client] = keys[Client]
    BY <1>1, <2>1
  <2>3. QED
    BY <2>1, <2>2 DEF ClientInv, Queued, Queue, Buffered
<1>6. CASE UNCHANGED <<up, m_queue, mbuf, keys>>
  BY <1>6 DEF ClientInv, Queued, Queue, Buffered
<1>7. QED
  <2>1. \/ UNCHANGED <<up, m_queue, mbuf, keys>>
        \/ \E n \in Node : setup(n)
        \/ \E n \in Replica, o \in Output : run(n, o)
        \/ \E r \in Replica, w \in Worker : send_ready(r, w) \/ \E i \in Takable(r) : store_key(r, w, i)
    BY DEF Next, vars, sending, start, is_warmup_done, OutputThread_setup, OutputThread_wait, count_key,
           receive_ready, count_ready, test_ready
  <2>2. QED
    BY <1>2, <1>3, <1>4, <1>5, <1>6, <2>1

LEMMA InitOne == Init => OneInv
<1> SUFFICES ASSUME Init PROVE OneInv
  OBVIOUS
<1>1. Inv
  BY InitInv
<1>2. /\ \A s \in Replica : ready[s] = 0 /\ Queue(s, Client) = <<>> /\ mbuf[s][Client] = <<>>
      /\ up = {} /\ totKey = 0 /\ keyAvail = FALSE /\ \A i \in Input : input[i].pc = "idle"
  BY Constants DEF Init, Queue
<1>3. ASSUME NEW s \in Replica PROVE Stage(s)
  <2>1. Queued(s, Client) = {} /\ Buffered(s, Client) = {}
    BY <1>2, EmptyRange DEF Queued, Buffered
  <2>2. \A i \in 1 .. Len(<<>>) : FALSE
    OBVIOUS
  <2>3. QED
    BY <1>2, <2>1, <2>2 DEF Stage
<1>4. HeardInv
  <2>1. Heard \subseteq Replica
    BY DEF Heard
  <2>2. Cardinality(Heard) \in Nat
    BY <2>1, Constants, FS_Subset, FS_CardinalityType
  <2>3. QED
    BY <1>2, <2>2 DEF HeardInv
<1>5. ClientInv
  BY <1>2 DEF ClientInv
<1>6. QED
  BY <1>1, <1>3, <1>4, <1>5 DEF OneInv

LEMMA StepOne ==
  ASSUME OneWorker, OneInv, [Next]_vars
  PROVE  OneInv'
<1>1. Inv'
  BY StepInv DEF OneInv
<1>2. ASSUME NEW s \in Replica PROVE Stage(s)'
  BY StageStep DEF OneInv
<1>3. HeardInv' /\ ClientInv'
  BY HeardStep, ClientStep DEF OneInv
<1>4. QED
  BY <1>1, <1>2, <1>3 DEF OneInv

LEMMA OneSafe == OneInv => KeysBeforeStart
<1> SUFFICES ASSUME OneInv, keyAvail PROVE \A n \in Node : keys[n] = AllKeys(n)
  BY DEF KeysBeforeStart
<1>1. Heard = Replica
  BY DEF OneInv, HeardInv
<1>2. ASSUME NEW s \in Replica
      PROVE  /\ keys[s] = AllKeys(s) /\ s \in up
             /\ Queued(s, Client) = {} /\ Buffered(s, Client) = {}
  <2>1. Done(s) /\ Queue(s, Client) = <<>> /\ mbuf[s][Client] = <<>>
    BY <1>1 DEF Heard
  <2>2. s \in up
    BY <2>1, DoneFacts DEF OneInv
  <2>3. QED
    BY <2>1, <2>2, EmptyRange DEF Done, Queued, Buffered
<1>3. keys[Client] = AllKeys(Client)
  <2>1. keys[Client] \subseteq AllKeys(Client)
    BY Constants DEF OneInv, Inv, TypeOK
  <2>2. ASSUME NEW x \in AllKeys(Client) PROVE x \in keys[Client]
    <3>1. PICK n \in Node, l \in Key : x = <<n, l>>
      BY KeyFacts
    <3>2. n # Client /\ l \in Range(Kinds(n, Client))
      BY <3>1, KeyFacts
    <3>3. n \in Replica /\ l \in Counted
      BY <3>1, <3>2, KindFacts DEF Node
    <3>4. QED
      BY <1>2, <3>1, <3>3 DEF OneInv, ClientInv
  <2>3. QED
    BY <2>1, <2>2
<1>4. QED
  BY <1>2, <1>3 DEF Node

(* KeysBeforeStart, for a replica with one instance thread: with any       *)
(* number of replicas, output threads and input threads of the client,     *)
(* although totKey++ is not atomic and a warm-up that ends in setup holds  *)
(* messages back, the client finds totKey at g_node_cnt only when every    *)
(* node has stored the keys of every other.  Several instance threads may  *)
(* each say READY, and then it is too early: see the run setup_ready.      *)
THEOREM KeysInvariant ==
  ASSUME OneWorker
  PROVE  Spec => []KeysBeforeStart
<1>1. Init => OneInv
  BY InitOne
<1>2. OneInv /\ [Next]_vars => OneInv'
  BY StepOne
<1>3. OneInv => KeysBeforeStart
  BY OneSafe
<1>4. QED
  BY <1>1, <1>2, <1>3, PTL DEF Spec
=============================================================================

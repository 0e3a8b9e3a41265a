-------------------------- MODULE CheckpointProofs --------------------------
(***************************************************************************)
(* Garbage collection is safe and complete for any number of checkpoints:  *)
(* an inductive invariant of Checkpoint, and what it implies.              *)
(***************************************************************************)
EXTENDS Checkpoint, FiniteSetTheorems, WellFoundedInduction, TLAPS

(* The thread has not compared its message with the last stable checkpoint *)
(* yet; has passed that comparison; has the manager; has passed            *)
(* set_curr_chkpt.                                                         *)
Early(c)   == pc[c] \in {"popped", "held"}
Active(c)  == pc[c] \in {"wanted", "compare", "store", "range", "release", "resume", "ready"}
Working(c) == pc[c] \in {"compare", "store", "range", "release", "resume", "ready"}
Past(c)    == pc[c] \in {"range", "release", "resume", "ready"}

IsChkpt(i) == \E k \in 1 .. taken : i = Chkpt(k)
dequeued   == taken - Len(work_queue)

(* Messages are numbered as they were sent, and taken in that order.       *)
QueueInv ==
  /\ Len(work_queue) <= taken
  /\ \A i \in 1 .. Len(work_queue) : work_queue[i] = Chkpt(dequeued + i)
  /\ \A c \in Thread : \/ msg[c] = 0 /\ pc[c] = "idle"
                       \/ \E k \in 1 .. dequeued : msg[c] = Chkpt(k)
  /\ msg[0] = msg[1] => msg[0] = 0

(* What a thread has announced. *)
HoldInv ==
  \A c \in Thread :
    /\ pc[c] = "held" \/ Active(c) => txn_chkpt_holding[c] = msg[c]
    /\ txn_chkpt_holding[c] = 0 \/ IsChkpt(txn_chkpt_holding[c])
    /\ is_chkpt_holding[c] => IsChkpt(txn_chkpt_holding[c])

(* Ranges end between checkpoints, so no thread is ever stalled.           *)
RangeInv ==
  /\ last_deleted_txn_man <= taken * Interval
  /\ \A k \in 1 .. MaxChkpt : last_deleted_txn_man # Chkpt(k)
  /\ \A c \in Thread : /\ \A k \in 1 .. MaxChkpt : start[c] # Chkpt(k)
                       /\ pc[c] # "release" => todo[c] = {}
                       /\ pc[c] = "release" => \A i \in todo[c] : i < del_range(c)
                       /\ ~is_chkpt_stalled[c]

(* g_last_stable_chkpt can fall back, but not behind a thread that still   *)
(* has to look at it with an older message.                                *)
StableInv ==
  \A c \in Thread :
    Past(c) /\ Early(Other(c)) /\ msg[Other(c)] < msg[c] => msg[c] <= g_last_stable_chkpt

(* A thread owns the manager of its message as long as it works with it.   *)
OwnInv ==
  \A c \in Thread : /\ txn_man[c] = IF Working(c) THEN "owned" ELSE "none"
                    /\ Active(Other(c)) => msg[Other(c)] \notin todo[c]

(* A manager below the last range deleted is a checkpoint's or about to be *)
(* released.                                                               *)
CollectInv ==
  \A i \in txn_table : i < last_deleted_txn_man =>
    \/ IsChkpt(i)
    \/ \E c \in Thread : /\ Collecting(c)
                         /\ i \in todo[c] \/ (i = start[c] /\ holding2[c] < del_range(c))

Inv == QueueInv /\ HoldInv /\ RangeInv /\ StableInv /\ OwnInv /\ CollectInv
-----------------------------------------------------------------------------
(* Arithmetic of checkpoints. *)
LEMMA Multiples ==
  ASSUME NEW k \in Int, NEW j \in Int, NEW n \in Nat, k < j
  PROVE  /\ k * n \in Int /\ j * n \in Int
         /\ k * n + n <= j * n
<1>1. (j - k - 1) * n >= 0
  BY SMT
<1>2. (j - k - 1) * n = j * n - k * n - n
  BY SMT
<1>3. QED
  BY <1>1, <1>2

LEMMA TxnNat ==
  /\ Interval \in Nat /\ Keep \in Nat /\ Keep > 0 /\ Back \in Nat /\ MaxChkpt \in Nat
  /\ Interval > Keep + Back /\ MaxChkpt > 0
  /\ MaxChkpt * Interval \in Nat /\ MaxChkpt * Interval >= Interval
  /\ 0 \in Txn
  /\ \A i \in Txn : i \in Nat
<1>1. /\ Interval \in Nat /\ Keep \in Nat /\ Keep > 0 /\ Back \in Nat /\ MaxChkpt \in Nat
      /\ Interval > Keep + Back /\ MaxChkpt > 0
  BY ConstantsAssumption
<1>2. MaxChkpt * Interval \in Nat /\ 0 * Interval + Interval <= MaxChkpt * Interval
  BY <1>1, Multiples
<1>3. MaxChkpt * Interval >= Interval
  BY <1>1, <1>2
<1>4. QED
  BY <1>1, <1>2, <1>3 DEF Txn

LEMMA ChkptOrder ==
  ASSUME NEW k \in Nat, NEW j \in Nat
  PROVE  /\ Chkpt(k) \in Int
         /\ k < j <=> Chkpt(k) < Chkpt(j)
         /\ k < j => Chkpt(k) + Interval <= Chkpt(j)
         /\ k = j <=> Chkpt(k) = Chkpt(j)
<1>1. Interval \in Nat /\ Interval > 0 /\ Back \in Nat
  BY TxnNat
<1>2. k < j => k * Interval + Interval <= j * Interval
  BY <1>1, Multiples
<1>3. j < k => j * Interval + Interval <= k * Interval
  BY <1>1, Multiples
<1>4. k * Interval \in Int /\ j * Interval \in Int
  BY <1>1
<1>5. QED
  BY <1>1, <1>2, <1>3, <1>4 DEF Chkpt

(* A checkpoint is known by a transaction, and the range it deletes ends   *)
(* at a transaction that no checkpoint is known by.                        *)
LEMMA ChkptTxn ==
  ASSUME NEW k \in 1 .. MaxChkpt
  PROVE  /\ Chkpt(k) \in Txn /\ Chkpt(k) > 0
         /\ Chkpt(k) - Keep \in Txn
         /\ Chkpt(k) < k * Interval
         /\ \A j \in 1 .. MaxChkpt : Chkpt(k) - Keep # Chkpt(j)
<1>1. k \in Nat /\ k >= 1 /\ k <= MaxChkpt
  BY TxnNat
<1>2. 0 * Interval + Interval <= k * Interval /\ k * Interval \in Int
  BY <1>1, TxnNat, Multiples
<1>3. k * Interval <= MaxChkpt * Interval
  <2>1. CASE k = MaxChkpt
    BY <2>1, TxnNat
  <2>2. CASE k < MaxChkpt
    <3>1. k * Interval + Interval <= MaxChkpt * Interval
      BY <1>1, <2>2, TxnNat, Multiples
    <3>2. QED
      BY <1>2, <3>1, TxnNat
  <2>3. QED
    BY <1>1, <2>1, <2>2, TxnNat
<1>4. Chkpt(k) = k * Interval - 1 - Back
  BY DEF Chkpt
<1>5. Chkpt(k) >= Keep /\ Chkpt(k) < MaxChkpt * Interval /\ Chkpt(k) \in Int
  BY <1>2, <1>3, <1>4, TxnNat
<1>6. Chkpt(k) \in Txn /\ Chkpt(k) > 0 /\ Chkpt(k) - Keep \in Txn /\ Chkpt(k) < k * Interval
  BY <1>2, <1>4, <1>5, TxnNat DEF Txn
<1>7. ASSUME NEW j \in 1 .. MaxChkpt
      PROVE  Chkpt(k) - Keep # Chkpt(j)
  <2>1. j \in Nat
    BY TxnNat
  <2>2. CASE j = k
    BY <1>5, <2>2, TxnNat
  <2>3. CASE k < j
    <3>1. Chkpt(k) < Chkpt(j) /\ Chkpt(j) \in Int
      BY <1>1, <2>1, <2>3, ChkptOrder
    <3>2. QED
      BY <1>5, <3>1, TxnNat
  <2>4. CASE j < k
    <3>1. Chkpt(j) + Interval <= Chkpt(k) /\ Chkpt(j) \in Int
      BY <1>1, <2>1, <2>4, ChkptOrder
    <3>2. QED
      BY <1>5, <3>1, TxnNat
  <2>5. QED
    BY <1>1, <2>1, <2>2, <2>3, <2>4
<1>8. QED
  BY <1>6, <1>7

(* The transactions executed between two checkpoints. *)
LEMMA ChunkTxn ==
  ASSUME NEW k \in Nat, k < MaxChkpt
  PROVE  /\ k * Interval \in Nat /\ (k + 1) * Interval \in Nat
         /\ k * Interval < (k + 1) * Interval
         /\ (k * Interval) .. ((k + 1) * Interval - 1) \subseteq Txn
<1>1. k * Interval \in Nat /\ (k + 1) * Interval \in Nat /\ (k + 1) * Interval = k * Interval + Interval
  BY TxnNat
<1>2. k * Interval + Interval <= MaxChkpt * Interval
  BY TxnNat, Multiples
<1>3. QED
  BY <1>1, <1>2, TxnNat DEF Txn

LEMMA MaxOfTwo ==
  ASSUME NEW a \in Int, NEW b \in Int
  PROVE  /\ Max({a, b}) \in {a, b} /\ Max({a, b}) >= a /\ Max({a, b}) >= b
<1>1. \E x \in {a, b} : \A y \in {a, b} : x >= y
  OBVIOUS
<1>2. QED
  BY <1>1 DEF Max

LEMMA MinOfTodo ==
  ASSUME NEW S \in SUBSET Nat, S # {}
  PROVE  Min(S) \in S
<1>1. PICK x \in S : \A y \in S : <<y, x>> \notin OpToRel(<, Nat)
  BY NatLessThanWellFounded, WFMin
<1>2. \A y \in S : ~(y < x)
  BY <1>1 DEF OpToRel
<1>3. \E z \in S : \A y \in S : z <= y
  BY <1>2
<1>4. QED
  BY <1>3 DEF Min
-----------------------------------------------------------------------------
LEMMA ThreadOther == \A c \in Thread : Other(c) \in Thread /\ Other(c) # c /\ Other(Other(c)) = c
                                       /\ \A e \in Thread : e = c \/ e = Other(c)
  BY DEF Thread, Other

(* The range moves on and never back. *)
LEMMA RangeEnd ==
  ASSUME TypeOK, NEW c \in Thread, choose_range(c)
  PROVE  /\ last_deleted_txn_man' \in {last_deleted_txn_man, msg[c] - Keep}
         /\ last_deleted_txn_man' >= last_deleted_txn_man
         /\ last_deleted_txn_man' >= msg[c] - Keep
<1>1. last_deleted_txn_man \in Int /\ msg[c] - Keep \in Int
  BY TxnNat DEF TypeOK
<1>2. last_deleted_txn_man' = Max({last_deleted_txn_man, msg[c] - Keep})
  BY DEF choose_range, del_range
<1>3. QED
  BY <1>1, <1>2, MaxOfTwo

LEMMA InitType == Init => TypeOK
  BY TxnNat DEF Init, TypeOK, Thread

(* Every step keeps the types. *)
LEMMA NextType ==
  ASSUME TypeOK, [Next]_vars
  PROVE  TypeOK'
<1> USE DEF TypeOK
<1>1. CASE UNCHANGED vars
  BY <1>1 DEF vars, globals, holding, locals
<1>2. CASE send_checkpoints
  <2>1. taken + 1 \in 1 .. MaxChkpt /\ taken' = taken + 1
    BY <1>2, TxnNat DEF send_checkpoints
  <2>2. Chkpt(taken') \in Txn
    BY <2>1, ChkptTxn
  <2>3. (taken * Interval) .. (taken' * Interval - 1) \subseteq Txn
    <3>1. taken \in Nat /\ taken < MaxChkpt
      BY <2>1, TxnNat
    <3>2. (taken * Interval) .. ((taken + 1) * Interval - 1) \subseteq Txn
      BY <3>1, ChunkTxn
    <3>3. QED
      BY <2>1, <3>2
  <2>4. QED
    BY <1>2, <2>1, <2>2, <2>3, TxnNat DEF send_checkpoints, holding, locals
<1>3. ASSUME NEW c \in Thread, ThreadNext(c)
      PROVE  TypeOK'
  <2>0. Other(c) \in Thread
    BY ThreadOther
  <2>1. CASE dequeue(c)
    BY <2>1 DEF dequeue, At, holding
  <2>2. CASE hold(c)
    BY <2>2 DEF hold, At, globals
  <2>3. CASE exception_msg_handling(c)
    BY <2>3 DEF exception_msg_handling, At, globals, holding
  <2>4. CASE get_transaction_manager(c)
    BY <2>4 DEF get_transaction_manager, At, holding
  <2>5. CASE set_curr_chkpt(c)
    <3>1. \E l \in {"store", "range"} : pc' = [pc EXCEPT ![c] = l]
      BY <2>5 DEF set_curr_chkpt, At
    <3>2. g_last_stable_chkpt' \in Txn
      BY <2>5 DEF set_curr_chkpt
    <3>3. QED
      BY <2>5, <3>1, <3>2 DEF set_curr_chkpt, holding
  <2>6. CASE choose_range(c)
    <3>1. msg[c] - Keep \in Int /\ last_deleted_txn_man \in Nat /\ msg[c] \in Txn
      BY TxnNat
    <3>2. last_deleted_txn_man' \in {last_deleted_txn_man, msg[c] - Keep}
          /\ last_deleted_txn_man' >= last_deleted_txn_man
      BY <2>6, RangeEnd
    <3>3. last_deleted_txn_man' \in Txn
      BY <3>1, <3>2, TxnNat DEF Txn
    <3>4. Obsolete(c) \in SUBSET Txn
      BY DEF Obsolete
    <3>5. todo' \in [Thread -> SUBSET Txn]
      <4>1. \E S \in SUBSET Txn : todo' = [todo EXCEPT ![c] = S]
        BY <2>6, <3>4, Zenon DEF choose_range
      <4>2. QED
        BY <4>1
    <3>6. start' \in [Thread -> Txn] /\ holding2' \in [Thread -> Txn]
      BY <2>0, <2>6 DEF choose_range
    <3>7. QED
      BY <2>6, <3>3, <3>5, <3>6 DEF choose_range, At, holding
  <2>7. CASE release_range(c)
    BY <2>0, <2>7 DEF release_range, release_txn_man, holding
  <2>8. CASE stall(c)
    <3>1. \E b \in BOOLEAN : is_chkpt_stalled' = [is_chkpt_stalled EXCEPT ![c] = b]
      BY <2>8, Zenon DEF stall
    <3>2. QED
      BY <2>8, <3>1 DEF stall, At, globals
  <2>9. CASE resume(c)
    <3>1. chkpt_semaphore' \in [Thread -> Nat]
      BY <2>9 DEF resume
    <3>2. QED
      BY <2>0, <2>9, <3>1 DEF resume, release_txn_man, At
  <2>10. CASE set_ready(c)
    BY <2>0, <2>10 DEF set_ready, At, globals
  <2>11. QED
    BY <1>3, <2>1, <2>2, <2>3, <2>4, <2>5, <2>6, <2>7, <2>8, <2>9, <2>10 DEF ThreadNext
<1>4. QED
  BY <1>1, <1>2, <1>3 DEF Next

(* The variables of the checkpoint threads and of the collection keep      *)
(* their types, for any number of checkpoints.                             *)
THEOREM TypeCorrect == Spec => []TypeOK
<1>1. QED
  BY InitType, NextType, PTL DEF Spec
-----------------------------------------------------------------------------
(* Init establishes the invariant, and each step keeps it. *)
LEMMA InitInv == Init => Inv
<1> SUFFICES ASSUME Init PROVE Inv
  OBVIOUS
<1>1. 0 \in Thread /\ 1 \in Thread
  BY DEF Thread
<1>2. QueueInv
  BY <1>1, TxnNat DEF Init, QueueInv, dequeued
<1>3. HoldInv
  BY DEF Init, HoldInv, Active
<1>4. RangeInv
  <2>1. \A k \in 1 .. MaxChkpt : Chkpt(k) # 0
    BY ChkptTxn
  <2>2. 0 * Interval = 0
    BY TxnNat
  <2>3. QED
    BY <2>1, <2>2 DEF Init, RangeInv
<1>5. StableInv /\ OwnInv /\ CollectInv
  BY ThreadOther DEF Init, StableInv, OwnInv, CollectInv, Past, Working, Active
<1>6. QED
  BY <1>2, <1>3, <1>4, <1>5 DEF Inv

LEMMA SendInv ==
  ASSUME TypeOK, TypeOK', Inv, send_checkpoints
  PROVE  Inv'
<1> USE DEF Inv
<1>0. /\ taken' = taken + 1 /\ taken \in Nat /\ taken + 1 \in 1 .. MaxChkpt
      /\ work_queue' = Append(work_queue, Chkpt(taken + 1)) /\ work_queue \in Seq(Txn)
      /\ txn_table' = txn_table \cup (taken * Interval) .. ((taken + 1) * Interval - 1)
      /\ UNCHANGED <<g_last_stable_chkpt, last_deleted_txn_man, txn_chkpt_holding, is_chkpt_holding,
                     is_chkpt_stalled, chkpt_semaphore, pc, msg, txn_man, start, holding2, todo>>
  BY TxnNat DEF send_checkpoints, TypeOK, holding, locals
<1>1. QueueInv'
  <2>1. Len(work_queue') = Len(work_queue) + 1 /\ dequeued' = dequeued
        /\ Len(work_queue) \in Nat
    BY <1>0 DEF dequeued
  <2>2. \A i \in 1 .. Len(work_queue') : work_queue'[i] = Chkpt(dequeued + i)
    BY <1>0, <2>1, SMTT(30) DEF QueueInv, dequeued
  <2>3. QED
    BY <1>0, <2>1, <2>2 DEF QueueInv
<1>2. \A i : IsChkpt(i) => IsChkpt(i)'
  BY <1>0 DEF IsChkpt
<1>3. HoldInv'
  BY <1>0, <1>2 DEF HoldInv, Active
<1>4. RangeInv'
  <2>1. taken * Interval \in Nat /\ (taken + 1) * Interval \in Nat /\ taken * Interval < (taken + 1) * Interval
    BY <1>0, TxnNat, ChunkTxn
  <2>2. last_deleted_txn_man \in Nat
    BY TxnNat DEF TypeOK
  <2>3. last_deleted_txn_man' <= taken' * Interval
    BY <1>0, <2>1, <2>2 DEF RangeInv
  <2>4. QED
    BY <1>0, <2>3 DEF RangeInv, del_range
<1>5. StableInv' /\ OwnInv'
  BY <1>0 DEF StableInv, OwnInv, Past, Early, Working, Active
<1>6. CollectInv'
  <2>1. taken * Interval \in Nat /\ (taken + 1) * Interval \in Nat /\ last_deleted_txn_man \in Nat
    BY <1>0, TxnNat, ChunkTxn DEF TypeOK
  <2>2. \A i \in txn_table' : i < last_deleted_txn_man => i \in txn_table
    BY <1>0, <2>1 DEF RangeInv
  <2>3. QED
    BY <1>0, <1>2, <2>2 DEF CollectInv, Collecting, del_range
<1>7. QED
  BY <1>1, <1>3, <1>4, <1>5, <1>6

(* A message is taken: it is younger than the other thread's.              *)
LEMMA DequeueInv ==
  ASSUME TypeOK, TypeOK', Inv, NEW c \in Thread, dequeue(c)
  PROVE  Inv'
<1> DEFINE d == Other(c)
<1> USE DEF Inv
<1>0. /\ work_queue # <<>> /\ work_queue \in Seq(Txn) /\ work_queue' = Tail(work_queue)
      /\ pc[c] = "idle" /\ pc' = [pc EXCEPT ![c] = "popped"]
      /\ msg' = [msg EXCEPT ![c] = Head(work_queue)]
      /\ UNCHANGED <<taken, txn_table, g_last_stable_chkpt, last_deleted_txn_man, txn_chkpt_holding,
                     is_chkpt_holding, is_chkpt_stalled, chkpt_semaphore, txn_man, start, holding2, todo>>
  BY DEF dequeue, At, TypeOK, holding
<1>1. /\ d \in Thread /\ d # c /\ Other(d) = c /\ \A e \in Thread : e = c \/ e = d
      /\ pc'[c] = "popped" /\ pc'[d] = pc[d] /\ msg'[d] = msg[d] /\ msg'[c] = Head(work_queue)
  BY <1>0, ThreadOther DEF TypeOK
<1>2. /\ Len(work_queue) \in Nat /\ Len(work_queue) >= 1 /\ Len(work_queue') = Len(work_queue) - 1
      /\ \A i \in 1 .. Len(work_queue') : work_queue'[i] = work_queue[i + 1]
      /\ Head(work_queue) = work_queue[1]
      /\ taken \in Nat /\ taken <= MaxChkpt
  BY <1>0, TxnNat DEF TypeOK
<1>3. /\ dequeued \in Nat /\ dequeued' = dequeued + 1 /\ dequeued + 1 <= taken
      /\ msg'[c] = Chkpt(dequeued + 1)
  BY <1>0, <1>1, <1>2 DEF dequeued, QueueInv
<1>4. msg[d] < msg'[c] /\ msg'[c] > 0 /\ msg[d] \in Int /\ msg'[c] \in Int
  <2>1. dequeued + 1 \in 1 .. MaxChkpt /\ dequeued + 1 \in Nat
    BY <1>2, <1>3, TxnNat
  <2>2. msg'[c] > 0
    BY <1>3, <2>1, ChkptTxn
  <2>3. ASSUME NEW k \in 1 .. dequeued, msg[d] = Chkpt(k)
        PROVE  msg[d] < msg'[c]
    <3>1. k \in Nat /\ k < dequeued + 1
      BY <1>3
    <3>2. QED
      BY <1>3, <2>1, <2>3, <3>1, ChkptOrder
  <2>4. msg[d] \in Int /\ msg'[c] \in Int
    <3>1. msg[d] \in Txn /\ msg'[c] \in Txn
      BY <1>1 DEF TypeOK
    <3>2. QED
      BY <3>1, TxnNat
  <2>5. QED
    BY <1>1, <2>2, <2>3, <2>4 DEF QueueInv
<1>5. QueueInv'
  <2>1. \A i \in 1 .. Len(work_queue') : work_queue'[i] = Chkpt(dequeued' + i)
    <3> SUFFICES ASSUME NEW i \in 1 .. Len(work_queue') PROVE work_queue'[i] = Chkpt(dequeued' + i)
      OBVIOUS
    <3>1. i + 1 \in 1 .. Len(work_queue)
      BY <1>2
    <3>2. work_queue'[i] = Chkpt(dequeued + (i + 1))
      BY <1>2, <3>1 DEF QueueInv
    <3>3. dequeued + (i + 1) = dequeued' + i
      BY <1>2, <1>3
    <3>4. QED
      BY <3>2, <3>3
  <2>2. \A e \in Thread : \/ msg'[e] = 0 /\ pc'[e] = "idle"
                          \/ \E k \in 1 .. dequeued' : msg'[e] = Chkpt(k)
    <3>1. \E k \in 1 .. dequeued' : msg'[c] = Chkpt(k)
      BY <1>3
    <3>2. \/ msg'[d] = 0 /\ pc'[d] = "idle"
          \/ \E k \in 1 .. dequeued' : msg'[d] = Chkpt(k)
      BY <1>1, <1>3 DEF QueueInv
    <3>3. QED
      BY <1>1, <3>1, <3>2
  <2>3. msg'[0] # msg'[1]
    <3>1. msg'[c] # msg'[d]
      BY <1>1, <1>4
    <3>2. QED
      BY <1>1, <3>1 DEF Thread
  <2>4. QED
    BY <1>0, <1>2, <2>1, <2>2, <2>3 DEF QueueInv
<1>6. HoldInv'
  BY <1>0, <1>1 DEF HoldInv, Active, IsChkpt
<1>7. RangeInv'
  <2>1. \A e \in Thread : pc'[e] = "release" => pc[e] = "release" /\ del_range(e)' = del_range(e)
    BY <1>0, <1>1 DEF del_range
  <2>2. \A e \in Thread : pc'[e] # "release" => pc[e] # "release"
    BY <1>0, <1>1
  <2>3. QED
    BY <1>0, <2>1, <2>2 DEF RangeInv
<1>8. StableInv'
  <2>1. ~(msg'[c] < msg'[d])
    BY <1>1, <1>4
  <2>2. QED
    BY <1>0, <1>1, <2>1 DEF StableInv, Past, Early
<1>9. OwnInv'
  <2>1. \A e \in Thread : Working(e)' <=> Working(e)
    BY <1>0, <1>1 DEF Working
  <2>2. ~Active(c)' /\ (Active(d)' <=> Active(d)) /\ msg'[d] = msg[d]
    BY <1>1 DEF Active
  <2>3. QED
    BY <1>0, <1>1, <2>1, <2>2 DEF OwnInv
<1>10. CollectInv'
  <2>1. \A e \in Thread : Collecting(e) => Collecting(e)' /\ del_range(e)' = del_range(e)
    BY <1>0, <1>1 DEF Collecting, del_range
  <2>2. QED
    BY <1>0, <2>1 DEF CollectInv, IsChkpt
<1>11. QED
  BY <1>5, <1>6, <1>7, <1>8, <1>9, <1>10

(* The message is announced. *)
LEMMA HoldStepInv ==
  ASSUME TypeOK, Inv, NEW c \in Thread, hold(c)
  PROVE  Inv'
<1> DEFINE d == Other(c)
<1> USE DEF Inv
<1>0. /\ pc[c] = "popped" /\ pc' = [pc EXCEPT ![c] = "held"]
      /\ txn_chkpt_holding' = [txn_chkpt_holding EXCEPT ![c] = msg[c]]
      /\ is_chkpt_holding' = [is_chkpt_holding EXCEPT ![c] = TRUE]
      /\ UNCHANGED <<taken, work_queue, txn_table, g_last_stable_chkpt, last_deleted_txn_man,
                     is_chkpt_stalled, msg, txn_man, start, holding2, todo>>
  BY DEF hold, At, globals
<1>1. /\ d \in Thread /\ d # c /\ Other(d) = c /\ \A e \in Thread : e = c \/ e = d
      /\ pc'[c] = "held" /\ pc'[d] = pc[d]
      /\ txn_chkpt_holding'[c] = msg[c] /\ txn_chkpt_holding'[d] = txn_chkpt_holding[d]
      /\ is_chkpt_holding'[d] = is_chkpt_holding[d]
  BY <1>0, ThreadOther DEF TypeOK
<1>2. QueueInv'
  BY <1>0, <1>1 DEF QueueInv, dequeued
<1>3. HoldInv'
  <2>1. \E k \in 1 .. dequeued : msg[c] = Chkpt(k)
    BY <1>0 DEF QueueInv
  <2>2. dequeued \in Int /\ taken \in Int /\ dequeued <= taken
    BY DEF dequeued, TypeOK
  <2>3. IsChkpt(msg[c])
    BY <2>1, <2>2 DEF IsChkpt
  <2>4. QED
    BY <1>0, <1>1, <2>3 DEF HoldInv, Active, IsChkpt
<1>4. RangeInv'
  BY <1>0, <1>1 DEF RangeInv, del_range
<1>5. StableInv'
  BY <1>0, <1>1 DEF StableInv, Past, Early
<1>6. OwnInv'
  BY <1>0, <1>1 DEF OwnInv, Working, Active
<1>7. CollectInv'
  BY <1>0, <1>1 DEF CollectInv, Collecting, del_range, IsChkpt
<1>8. QED
  BY <1>2, <1>3, <1>4, <1>5, <1>6, <1>7

(* A message older than the last stable checkpoint is dropped; one that    *)
(* passes is not in the other thread's range.                              *)
LEMMA ExceptionInv ==
  ASSUME TypeOK, Inv, NEW c \in Thread, exception_msg_handling(c)
  PROVE  Inv'
<1> DEFINE d == Other(c)
<1> USE DEF Inv
<1>0. /\ pc[c] = "held"
      /\ \/ pc' = [pc EXCEPT ![c] = "idle"]
         \/ msg[c] > g_last_stable_chkpt /\ pc' = [pc EXCEPT ![c] = "wanted"]
      /\ UNCHANGED <<taken, work_queue, txn_table, g_last_stable_chkpt, last_deleted_txn_man,
                     txn_chkpt_holding, is_chkpt_holding, is_chkpt_stalled, msg, txn_man, start,
                     holding2, todo>>
  BY DEF exception_msg_handling, At, globals, holding
<1>1. /\ d \in Thread /\ d # c /\ Other(d) = c /\ \A e \in Thread : e = c \/ e = d
      /\ pc'[c] = "idle" \/ (pc'[c] = "wanted" /\ msg[c] > g_last_stable_chkpt)
      /\ pc'[d] = pc[d]
  BY <1>0, ThreadOther DEF TypeOK
<1>2. QueueInv'
  BY <1>0, <1>1 DEF QueueInv, dequeued
<1>3. HoldInv'
  BY <1>0, <1>1 DEF HoldInv, Active, IsChkpt
<1>4. RangeInv'
  BY <1>0, <1>1 DEF RangeInv, del_range
<1>5. StableInv'
  BY <1>0, <1>1 DEF StableInv, Past, Early
<1>6. OwnInv'
  <2>1. ASSUME pc'[c] = "wanted"
        PROVE  msg[c] \notin todo[d]
    <3>1. msg[c] \in Int /\ msg[d] \in Int /\ g_last_stable_chkpt \in Int /\ Keep \in Nat
      BY <1>1, TxnNat DEF TypeOK
    <3>2. SUFFICES ASSUME msg[c] \in todo[d] PROVE FALSE
      OBVIOUS
    <3>3. pc[d] = "release" /\ msg[c] < msg[d] - Keep
      BY <1>1, <3>2 DEF RangeInv, del_range
    <3>4. msg[d] <= g_last_stable_chkpt
      BY <1>0, <1>1, <3>1, <3>3 DEF StableInv, Past, Early
    <3>5. QED
      BY <1>1, <2>1, <3>1, <3>3, <3>4
  <2>2. \A e \in Thread : Working(e)' <=> Working(e)
    BY <1>0, <1>1 DEF Working
  <2>3. (Active(d)' <=> Active(d)) /\ (Active(c)' => pc'[c] = "wanted")
    BY <1>1 DEF Active
  <2>4. QED
    BY <1>0, <1>1, <2>1, <2>2, <2>3 DEF OwnInv
<1>7. CollectInv'
  BY <1>0, <1>1 DEF CollectInv, Collecting, del_range, IsChkpt
<1>8. QED
  BY <1>2, <1>3, <1>4, <1>5, <1>6, <1>7

(* The message of a thread that is not idle is a checkpoint. *)
LEMMA MsgChkpt ==
  ASSUME TypeOK, QueueInv, NEW c \in Thread, pc[c] # "idle"
  PROVE  \E k \in 1 .. taken : k \in 1 .. MaxChkpt /\ msg[c] = Chkpt(k)
<1>1. PICK k \in 1 .. dequeued : msg[c] = Chkpt(k)
  BY DEF QueueInv
<1>2. dequeued \in Int /\ taken \in Int /\ dequeued <= taken /\ taken <= MaxChkpt
  BY TxnNat DEF dequeued, TypeOK
<1>3. QED
  BY <1>1, <1>2, TxnNat

(* The manager of the message is owned, and is a checkpoint's. *)
LEMMA GetInv ==
  ASSUME TypeOK, Inv, NEW c \in Thread, get_transaction_manager(c)
  PROVE  Inv'
<1> DEFINE d == Other(c)
<1> USE DEF Inv
<1>0. /\ pc[c] = "wanted" /\ pc' = [pc EXCEPT ![c] = "compare"]
      /\ txn_table' = txn_table \cup {msg[c]}
      /\ txn_man' = [txn_man EXCEPT ![c] = "owned"]
      /\ UNCHANGED <<taken, work_queue, g_last_stable_chkpt, last_deleted_txn_man,
                     txn_chkpt_holding, is_chkpt_holding, is_chkpt_stalled, msg, start,
                     holding2, todo>>
  BY DEF get_transaction_manager, At, holding
<1>1. /\ d \in Thread /\ d # c /\ Other(d) = c /\ \A e \in Thread : e = c \/ e = d
      /\ pc'[c] = "compare" /\ pc'[d] = pc[d]
      /\ txn_man'[c] = "owned" /\ txn_man'[d] = txn_man[d]
  BY <1>0, ThreadOther DEF TypeOK
<1>2. QueueInv'
  BY <1>0, <1>1 DEF QueueInv, dequeued
<1>3. HoldInv'
  BY <1>0, <1>1 DEF HoldInv, Active, IsChkpt
<1>4. RangeInv'
  BY <1>0, <1>1 DEF RangeInv, del_range
<1>5. StableInv'
  BY <1>0, <1>1 DEF StableInv, Past, Early
<1>6. OwnInv'
  <2>1. Working(c)' /\ (Working(d)' <=> Working(d)) /\ Active(c) /\ (Active(d)' <=> Active(d))
    BY <1>0, <1>1 DEF Working, Active
  <2>2. QED
    BY <1>0, <1>1, <2>1 DEF OwnInv
<1>7. CollectInv'
  <2>1. IsChkpt(msg[c])'
    BY <1>0, MsgChkpt DEF IsChkpt
  <2>2. \A e \in Thread : Collecting(e) => Collecting(e)'
    BY <1>0, <1>1 DEF Collecting
  <2>3. QED
    BY <1>0, <2>1, <2>2 DEF CollectInv, del_range, IsChkpt
<1>8. QED
  BY <1>2, <1>3, <1>4, <1>5, <1>6, <1>7

(* The checkpoint is stable once the thread has passed set_curr_chkpt.     *)
LEMMA StableStepInv ==
  ASSUME TypeOK, Inv, NEW c \in Thread, set_curr_chkpt(c)
  PROVE  Inv'
<1> DEFINE d == Other(c)
<1> USE DEF Inv
<1>0. /\ \/ pc[c] = "compare" /\ pc' = [pc EXCEPT ![c] = "store"]
            /\ g_last_stable_chkpt' = g_last_stable_chkpt
         \/ pc[c] \in {"compare", "store"} /\ pc' = [pc EXCEPT ![c] = "range"]
            /\ (g_last_stable_chkpt' = msg[c] \/ msg[c] <= g_last_stable_chkpt')
      /\ UNCHANGED <<taken, work_queue, txn_table, last_deleted_txn_man,
                     txn_chkpt_holding, is_chkpt_holding, is_chkpt_stalled, msg, txn_man, start,
                     holding2, todo>>
  BY DEF set_curr_chkpt, At, holding
<1>1. /\ d \in Thread /\ d # c /\ Other(d) = c /\ \A e \in Thread : e = c \/ e = d
      /\ pc[c] \in {"compare", "store"} /\ pc'[d] = pc[d]
      /\ pc'[c] = "store" \/ (pc'[c] = "range" /\ msg[c] <= g_last_stable_chkpt')
  <2>1. msg[c] \in Int
    BY TxnNat DEF TypeOK
  <2>2. QED
    BY <1>0, <2>1, ThreadOther DEF TypeOK
<1>2. QueueInv'
  BY <1>0, <1>1 DEF QueueInv, dequeued
<1>3. HoldInv'
  BY <1>0, <1>1 DEF HoldInv, Active, IsChkpt
<1>4. RangeInv'
  BY <1>0, <1>1 DEF RangeInv, del_range
<1>5. StableInv'
  BY <1>0, <1>1 DEF StableInv, Past, Early
<1>6. OwnInv'
  <2>1. \A e \in Thread : (Working(e)' <=> Working(e)) /\ (Active(e)' <=> Active(e))
    BY <1>0, <1>1 DEF Working, Active
  <2>2. QED
    BY <1>0, <1>1, <2>1 DEF OwnInv
<1>7. CollectInv'
  BY <1>0, <1>1 DEF CollectInv, Collecting, del_range, IsChkpt
<1>8. QED
  BY <1>2, <1>3, <1>4, <1>5, <1>6, <1>7

(* The range is chosen: it leaves out the manager that the other thread    *)
(* works with, and all it leaves out is a checkpoint's or start.           *)
LEMMA ChooseInv ==
  ASSUME TypeOK, Inv, NEW c \in Thread, choose_range(c)
  PROVE  Inv'
<1> DEFINE d == Other(c)
<1> USE DEF Inv
<1>0. /\ pc[c] = "range" /\ pc' = [pc EXCEPT ![c] = "release"]
      /\ start' = [start EXCEPT ![c] = last_deleted_txn_man]
      /\ holding2' = [holding2 EXCEPT ![c] = txn_chkpt_holding[d]]
      /\ todo' = [todo EXCEPT ![c] = Obsolete(c)]
      /\ UNCHANGED <<taken, work_queue, txn_table, g_last_stable_chkpt,
                     txn_chkpt_holding, is_chkpt_holding, is_chkpt_stalled, msg, txn_man>>
  BY DEF choose_range, At, holding
<1>1. /\ d \in Thread /\ d # c /\ Other(d) = c /\ \A e \in Thread : e = c \/ e = d
      /\ pc'[c] = "release" /\ pc'[d] = pc[d]
      /\ start'[c] = last_deleted_txn_man /\ start'[d] = start[d]
      /\ holding2'[c] = txn_chkpt_holding[d] /\ holding2'[d] = holding2[d]
      /\ todo'[c] = Obsolete(c) /\ todo'[d] = todo[d]
  BY <1>0, ThreadOther DEF TypeOK
<1>2. /\ last_deleted_txn_man' \in {last_deleted_txn_man, msg[c] - Keep}
      /\ last_deleted_txn_man' >= last_deleted_txn_man
  BY RangeEnd
<1>3. /\ last_deleted_txn_man \in Nat /\ msg[c] \in Nat /\ Keep \in Nat
      /\ txn_chkpt_holding[d] \in Nat
  BY <1>1, TxnNat DEF TypeOK
<1>4. QueueInv'
  BY <1>0, <1>1 DEF QueueInv, dequeued
<1>5. HoldInv'
  BY <1>0, <1>1 DEF HoldInv, Active, IsChkpt
<1>6. RangeInv'
  <2>1. PICK k \in 1 .. taken : k \in 1 .. MaxChkpt /\ msg[c] = Chkpt(k)
    BY <1>0, MsgChkpt
  <2>2. /\ Chkpt(k) < k * Interval
        /\ \A j \in 1 .. MaxChkpt : Chkpt(k) - Keep # Chkpt(j)
    BY <2>1, ChkptTxn
  <2>3. k * Interval <= taken * Interval /\ k * Interval \in Int /\ taken * Interval \in Int
    <3>1. taken \in Nat /\ k \in Nat /\ k <= taken
      BY DEF TypeOK
    <3>2. k < taken => k * Interval + Interval <= taken * Interval
      BY <3>1, TxnNat, Multiples
    <3>3. k * Interval \in Int /\ taken * Interval \in Int
      BY <3>1, TxnNat
    <3>4. CASE k = taken
      BY <3>3, <3>4
    <3>5. CASE k < taken
      BY <3>2, <3>3, <3>5, TxnNat
    <3>6. QED
      BY <3>1, <3>4, <3>5
  <2>4. last_deleted_txn_man' <= taken' * Interval
    BY <1>0, <1>2, <1>3, <2>1, <2>2, <2>3 DEF RangeInv
  <2>5. \A j \in 1 .. MaxChkpt : last_deleted_txn_man' # Chkpt(j)
    BY <1>2, <2>1, <2>2 DEF RangeInv
  <2>6. \A e \in Thread : /\ pc'[e] # "release" => todo'[e] = {}
                          /\ pc'[e] = "release" => \A i \in todo'[e] : i < del_range(e)'
    BY <1>0, <1>1 DEF RangeInv, del_range, Obsolete
  <2>7. \A e \in Thread, j \in 1 .. MaxChkpt : start'[e] # Chkpt(j)
    BY <1>1 DEF RangeInv
  <2>8. \A e \in Thread : ~is_chkpt_stalled'[e]
    BY <1>0 DEF RangeInv
  <2>9. QED
    BY <2>4, <2>5, <2>6, <2>7, <2>8 DEF RangeInv
<1>7. StableInv'
  BY <1>0, <1>1 DEF StableInv, Past, Early
<1>8. OwnInv'
  <2>1. \A e \in Thread : (Working(e)' <=> Working(e)) /\ (Active(e)' <=> Active(e))
    BY <1>0, <1>1 DEF Working, Active
  <2>2. Active(d) => msg[d] \notin Obsolete(c)
    BY <1>1, <1>3 DEF HoldInv, Obsolete
  <2>3. QED
    BY <1>0, <1>1, <2>1, <2>2 DEF OwnInv
<1>9. CollectInv'
  <2>0. SUFFICES ASSUME NEW i \in txn_table, i < last_deleted_txn_man'
                 PROVE  \/ IsChkpt(i)
                        \/ \E e \in Thread : /\ Collecting(e)'
                                             /\ \/ i \in todo'[e]
                                                \/ i = start'[e] /\ holding2'[e] < del_range(e)'
    BY <1>0 DEF CollectInv, IsChkpt
  <2>1. i \in Txn /\ i \in Nat /\ Collecting(c)' /\ del_range(c)' = msg[c] - Keep
    BY <1>0, <1>1, TxnNat DEF TypeOK, Collecting, del_range
  <2>2. CASE i < last_deleted_txn_man
    <3>1. \/ IsChkpt(i)
          \/ \E e \in Thread : /\ Collecting(e)
                               /\ i \in todo[e] \/ (i = start[e] /\ holding2[e] < del_range(e))
      BY <2>2 DEF CollectInv
    <3>2. ~Collecting(c) /\ (Collecting(d) => Collecting(d)') /\ del_range(d)' = del_range(d)
      BY <1>0, <1>1 DEF Collecting, del_range
    <3>3. QED
      BY <1>1, <3>1, <3>2
  <2>3. CASE i >= last_deleted_txn_man
    <3>1. i < msg[c] - Keep
      BY <1>2, <1>3, <2>0, <2>1, <2>3
    <3>2. CASE i # txn_chkpt_holding[d]
      <4>1. i \in Obsolete(c)
        BY <1>3, <2>1, <2>3, <3>1, <3>2 DEF Obsolete, del_range
      <4>2. QED
        BY <1>1, <2>1, <4>1
    <3>3. CASE i = txn_chkpt_holding[d]
      <4>1. i = 0 \/ IsChkpt(i)
        BY <1>1, <3>3 DEF HoldInv
      <4>2. i = 0 => i = start'[c] /\ holding2'[c] < msg[c] - Keep
        BY <1>1, <1>3, <2>1, <2>3, <3>1, <3>3
      <4>3. QED
        BY <2>1, <4>1, <4>2
    <3>4. QED
      BY <3>2, <3>3
  <2>4. QED
    BY <1>3, <2>1, <2>2, <2>3
<1>10. QED
  BY <1>4, <1>5, <1>6, <1>7, <1>8, <1>9

(* A manager is released: not the one that the other thread works with.    *)
LEMMA ReleaseInv ==
  ASSUME TypeOK, Inv, NEW c \in Thread, release_range(c)
  PROVE  Inv'
<1> DEFINE d == Other(c)
           m == Min(todo[c])
<1> USE DEF Inv
<1>0. /\ pc[c] = "release" /\ todo[c] # {}
      /\ txn_table' = txn_table \ {m}
      /\ txn_man' = [txn_man EXCEPT ![d] = IF @ = "owned" /\ msg[d] = m THEN "released" ELSE @]
      /\ todo' = [todo EXCEPT ![c] = @ \ {m}]
      /\ UNCHANGED <<taken, work_queue, g_last_stable_chkpt, last_deleted_txn_man,
                     txn_chkpt_holding, is_chkpt_holding, is_chkpt_stalled, pc, msg, start,
                     holding2>>
  BY DEF release_range, release_txn_man, holding
<1> HIDE DEF m
<1>1. /\ d \in Thread /\ d # c /\ Other(d) = c /\ \A e \in Thread : e = c \/ e = d
      /\ todo'[c] = todo[c] \ {m} /\ todo'[d] = todo[d]
      /\ txn_man'[c] = txn_man[c]
      /\ txn_man'[d] = IF txn_man[d] = "owned" /\ msg[d] = m THEN "released" ELSE txn_man[d]
  BY <1>0, ThreadOther DEF TypeOK
<1>2. m \in todo[c]
  <2>1. todo[c] \in SUBSET Nat
    BY TxnNat DEF TypeOK
  <2>2. QED
    BY <1>0, <2>1, MinOfTodo DEF m
<1>3. QueueInv'
  BY <1>0 DEF QueueInv, dequeued
<1>4. HoldInv'
  BY <1>0 DEF HoldInv, Active, IsChkpt
<1>5. RangeInv'
  <2>1. \A e \in Thread : todo'[e] \subseteq todo[e] /\ del_range(e)' = del_range(e)
    BY <1>0, <1>1 DEF del_range
  <2>2. QED
    BY <1>0, <2>1 DEF RangeInv
<1>6. StableInv'
  BY <1>0 DEF StableInv, Past, Early
<1>7. OwnInv'
  <2>1. \A e \in Thread : (Working(e)' <=> Working(e)) /\ (Active(e)' <=> Active(e))
    BY <1>0 DEF Working, Active
  <2>2. txn_man'[d] = txn_man[d]
    <3>1. txn_man[d] = "owned" => Active(d)
      BY <1>1 DEF OwnInv, Working, Active
    <3>2. Active(d) => msg[d] # m
      BY <1>1, <1>2 DEF OwnInv
    <3>3. QED
      BY <1>1, <3>1, <3>2
  <2>3. QED
    BY <1>0, <1>1, <2>1, <2>2 DEF OwnInv
<1>8. CollectInv'
  <2>1. \A e \in Thread : /\ Collecting(e)' <=> Collecting(e)
                          /\ del_range(e)' = del_range(e)
    BY <1>0 DEF Collecting, del_range
  <2>2. \A i \in txn_table', e \in Thread : i \in todo[e] => i \in todo'[e]
    BY <1>0, <1>1
  <2>3. QED
    BY <1>0, <2>1, <2>2 DEF CollectInv, IsChkpt
<1>9. QED
  BY <1>3, <1>4, <1>5, <1>6, <1>7, <1>8

(* No thread stalls: start is never a manager that can be held. *)
LEMMA StallInv ==
  ASSUME TypeOK, Inv, NEW c \in Thread, stall(c)
  PROVE  Inv'
<1> DEFINE d == Other(c)
<1> USE DEF Inv
<1>0. /\ pc[c] = "release" /\ todo[c] = {} /\ pc' = [pc EXCEPT ![c] = "resume"]
      /\ is_chkpt_stalled' = [is_chkpt_stalled EXCEPT ![c] =
                                /\ holding2[c] < del_range(c)
                                /\ is_chkpt_holding[d]
                                /\ txn_chkpt_holding[d] = start[c]]
      /\ UNCHANGED <<taken, work_queue, txn_table, g_last_stable_chkpt, last_deleted_txn_man,
                     txn_chkpt_holding, is_chkpt_holding, msg, txn_man, start, holding2, todo>>
  BY DEF stall, At, globals
<1>1. /\ d \in Thread /\ d # c /\ Other(d) = c /\ \A e \in Thread : e = c \/ e = d
      /\ pc'[c] = "resume" /\ pc'[d] = pc[d]
  BY <1>0, ThreadOther DEF TypeOK
<1>2. \A e \in Thread : ~is_chkpt_stalled'[e]
  <2>1. ~(is_chkpt_holding[d] /\ txn_chkpt_holding[d] = start[c])
    <3>1. taken \in Int /\ taken <= MaxChkpt /\ MaxChkpt \in Int
      BY TxnNat DEF TypeOK
    <3>2. IsChkpt(txn_chkpt_holding[d]) => \E k \in 1 .. MaxChkpt : txn_chkpt_holding[d] = Chkpt(k)
      BY <3>1 DEF IsChkpt
    <3>3. QED
      BY <1>1, <3>2 DEF HoldInv, RangeInv
  <2>2. is_chkpt_stalled' = [is_chkpt_stalled EXCEPT ![c] = FALSE]
    BY <1>0, <2>1, Zenon
  <2>3. QED
    BY <2>2 DEF RangeInv, TypeOK
<1>3. QueueInv'
  BY <1>0, <1>1 DEF QueueInv, dequeued
<1>4. HoldInv'
  BY <1>0, <1>1 DEF HoldInv, Active, IsChkpt
<1>5. RangeInv'
  BY <1>0, <1>1, <1>2 DEF RangeInv, del_range
<1>6. StableInv'
  BY <1>0, <1>1 DEF StableInv, Past, Early
<1>7. OwnInv'
  <2>1. \A e \in Thread : (Working(e)' <=> Working(e)) /\ (Active(e)' <=> Active(e))
    BY <1>0, <1>1 DEF Working, Active
  <2>2. msg' = msg /\ txn_man' = txn_man /\ todo' = todo
    BY <1>0
  <2>3. QED
    BY <1>1, <2>1, <2>2 DEF OwnInv
<1>8. CollectInv'
  <2>1. \A e \in Thread : /\ Collecting(e)' <=> Collecting(e)
                          /\ del_range(e)' = del_range(e)
    BY <1>0, <1>1 DEF Collecting, del_range
  <2>2. QED
    BY <1>0, <2>1 DEF CollectInv, IsChkpt
<1>9. QED
  BY <1>3, <1>4, <1>5, <1>6, <1>7, <1>8

(* The manager of start is released last: it is not a checkpoint's.        *)
LEMMA ResumeInv ==
  ASSUME TypeOK, Inv, NEW c \in Thread, resume(c)
  PROVE  Inv'
<1> DEFINE d == Other(c)
<1> USE DEF Inv
<1>0. /\ pc[c] = "resume" /\ pc' = [pc EXCEPT ![c] = "ready"]
      /\ is_chkpt_stalled' = [is_chkpt_stalled EXCEPT ![c] = FALSE]
      /\ UNCHANGED <<taken, work_queue, g_last_stable_chkpt, last_deleted_txn_man,
                     txn_chkpt_holding, is_chkpt_holding, msg, start, holding2, todo>>
  BY DEF resume, At
<1>1. /\ d \in Thread /\ d # c /\ Other(d) = c /\ \A e \in Thread : e = c \/ e = d
      /\ pc'[c] = "ready" /\ pc'[d] = pc[d]
  BY <1>0, ThreadOther DEF TypeOK
<1>2. \A e \in Thread : ~is_chkpt_stalled'[e]
  BY <1>0 DEF RangeInv, TypeOK
<1>3. txn_man' = txn_man
  <2>1. \/ txn_man' = txn_man
        \/ txn_man' = [txn_man EXCEPT ![d] = IF @ = "owned" /\ msg[d] = start[c] THEN "released" ELSE @]
    BY DEF resume, release_txn_man
  <2>2. ~(txn_man[d] = "owned" /\ msg[d] = start[c])
    <3>1. txn_man[d] = "owned" => pc[d] # "idle"
      BY <1>1 DEF OwnInv, Working
    <3>2. pc[d] # "idle" => \E k \in 1 .. MaxChkpt : msg[d] = Chkpt(k)
      BY <1>1, MsgChkpt
    <3>3. QED
      BY <3>1, <3>2 DEF RangeInv
  <2>3. QED
    BY <1>1, <2>1, <2>2 DEF TypeOK
<1>4. /\ txn_table' \subseteq txn_table
      /\ holding2[c] < del_range(c) => start[c] \notin txn_table'
  <2>1. holding2[c] \in Int /\ del_range(c) \in Int
    BY TxnNat DEF TypeOK, del_range
  <2>2. QED
    BY <2>1 DEF resume, release_txn_man
<1>5. QueueInv'
  BY <1>0, <1>1 DEF QueueInv, dequeued
<1>6. HoldInv'
  BY <1>0, <1>1 DEF HoldInv, Active, IsChkpt
<1>7. RangeInv'
  BY <1>0, <1>1, <1>2 DEF RangeInv, del_range
<1>8. StableInv'
  BY <1>0, <1>1 DEF StableInv, Past, Early
<1>9. OwnInv'
  <2>1. \A e \in Thread : (Working(e)' <=> Working(e)) /\ (Active(e)' <=> Active(e))
    BY <1>0, <1>1 DEF Working, Active
  <2>2. msg' = msg /\ txn_man' = txn_man /\ todo' = todo
    BY <1>0, <1>3
  <2>3. QED
    BY <1>1, <2>1, <2>2 DEF OwnInv
<1>10. CollectInv'
  <2>1. todo[c] = {}
    BY <1>0 DEF RangeInv
  <2>2. /\ Collecting(d)' <=> Collecting(d)
        /\ \A e \in Thread : del_range(e)' = del_range(e)
    BY <1>0, <1>1 DEF Collecting, del_range
  <2>3. QED
    BY <1>0, <1>1, <1>4, <2>1, <2>2 DEF CollectInv, IsChkpt
<1>11. QED
  BY <1>5, <1>6, <1>7, <1>8, <1>9, <1>10

(* The manager is given back. *)
LEMMA ReadyInv ==
  ASSUME TypeOK, Inv, NEW c \in Thread, set_ready(c)
  PROVE  Inv'
<1> DEFINE d == Other(c)
<1> USE DEF Inv
<1>0. /\ pc[c] = "ready" /\ pc' = [pc EXCEPT ![c] = "idle"]
      /\ txn_man' = [txn_man EXCEPT ![c] = "none"]
      /\ is_chkpt_holding' = [is_chkpt_holding EXCEPT ![c] = FALSE]
      /\ UNCHANGED <<taken, work_queue, txn_table, g_last_stable_chkpt, last_deleted_txn_man,
                     txn_chkpt_holding, is_chkpt_stalled, msg, start, holding2, todo>>
  BY DEF set_ready, At, globals
<1>1. /\ d \in Thread /\ d # c /\ Other(d) = c /\ \A e \in Thread : e = c \/ e = d
      /\ pc'[c] = "idle" /\ pc'[d] = pc[d]
      /\ txn_man'[c] = "none" /\ txn_man'[d] = txn_man[d]
      /\ ~is_chkpt_holding'[c] /\ is_chkpt_holding'[d] = is_chkpt_holding[d]
  BY <1>0, ThreadOther DEF TypeOK
<1>2. QueueInv'
  BY <1>0, <1>1 DEF QueueInv, dequeued
<1>3. HoldInv'
  BY <1>0, <1>1 DEF HoldInv, Active, IsChkpt
<1>4. RangeInv'
  BY <1>0, <1>1 DEF RangeInv, del_range
<1>5. StableInv'
  BY <1>0, <1>1 DEF StableInv, Past, Early
<1>6. OwnInv'
  <2>1. ~Working(c)' /\ ~Active(c)' /\ (Working(d)' <=> Working(d)) /\ (Active(d)' <=> Active(d))
    BY <1>1 DEF Working, Active
  <2>2. msg' = msg /\ todo' = todo
    BY <1>0
  <2>3. QED
    BY <1>1, <2>1, <2>2 DEF OwnInv
<1>7. CollectInv'
  BY <1>0, <1>1 DEF CollectInv, Collecting, del_range, IsChkpt
<1>8. QED
  BY <1>2, <1>3, <1>4, <1>5, <1>6, <1>7

LEMMA NextInv ==
  ASSUME TypeOK, TypeOK', Inv, [Next]_vars
  PROVE  Inv'
<1>1. CASE UNCHANGED vars
  BY <1>1 DEF vars, globals, holding, locals, Inv, QueueInv, HoldInv, RangeInv, StableInv, OwnInv,
              CollectInv, Early, Active, Working, Past, IsChkpt, dequeued, del_range, Collecting
<1>2. ASSUME NEW c \in Thread, ThreadNext(c)
      PROVE  Inv'
  BY <1>2, DequeueInv, HoldStepInv, ExceptionInv, GetInv, StableStepInv, ChooseInv, ReleaseInv,
     StallInv, ResumeInv, ReadyInv DEF ThreadNext
<1>3. QED
  BY <1>1, <1>2, SendInv DEF Next

LEMMA InvHolds == Spec => [](TypeOK /\ Inv)
<1>1. Init => TypeOK /\ Inv
  BY InitType, InitInv
<1>2. TypeOK /\ Inv /\ [Next]_vars => (TypeOK /\ Inv)'
  BY NextType, NextInv
<1>3. QED
  BY <1>1, <1>2, PTL DEF Spec

(* set_ready finds the manager it is to give back: the other thread never  *)
(* releases it, whatever the order in which the two take messages, announce *)
(* them and choose their ranges, so "assert(ready)" holds.                 *)
THEOREM ManagerStaysOwned == Spec => []StillOwned
<1>1. TypeOK /\ Inv => StillOwned
  BY DEF Inv, OwnInv, StillOwned, Working
<1>2. QED
  BY <1>1, InvHolds, PTL

(* When no thread is releasing, every manager below the last range deleted *)
(* is a checkpoint's: no transaction's manager is forgotten, although the  *)
(* threads' ranges overlap.                                                *)
THEOREM CollectionComplete == Spec => []Collected
<1>1. TypeOK /\ Inv => Collected
  BY DEF Inv, CollectInv, Collected, IsChkpt
<1>2. QED
  BY <1>1, InvHolds, PTL

(* The wait of one checkpoint thread for the other is dead code: ranges    *)
(* end Keep > 0 transactions before a checkpoint, so start is never the    *)
(* manager that the other thread holds.                                    *)
THEOREM NeverStalls == Spec => []\A c \in Thread : ~is_chkpt_stalled[c]
<1>1. TypeOK /\ Inv => \A c \in Thread : ~is_chkpt_stalled[c]
  BY DEF Inv, RangeInv
<1>2. QED
  BY <1>1, InvHolds, PTL
=============================================================================

----------------------------- MODULE Checkpoint -----------------------------
(***************************************************************************)
(* Checkpoints and garbage collection on one replica.                      *)
(*                                                                         *)
(* Every Interval transactions the execution thread enqueues a message to  *)
(* its own replica; two checkpoint threads take these messages and release *)
(* the transaction managers up to Keep transactions before the checkpoint. *)
(* A thread is to leave alone the manager that the other one is working    *)
(* with.  Each access under g_checkpointing_lock, each release and each    *)
(* unlocked access to g_last_stable_chkpt is a step.                       *)
(***************************************************************************)
EXTENDS Integers, Sequences, FiniteSetsExt

CONSTANTS
  Interval,     \* txn_per_chkpt()
  Keep,         \* 16 * batch_size * NODE_CNT
  Back,         \* 5: a checkpoint is known by a transaction before its last one
  MaxChkpt      \* bound: the number of checkpoints

(* The shipped Interval is twice Keep; del_range must not wrap below 0.    *)
ASSUME ConstantsAssumption ==
  /\ Interval \in Nat /\ Keep \in Nat \ {0} /\ Back \in Nat /\ MaxChkpt \in Nat
  /\ Interval > Keep + Back /\ MaxChkpt > 0

Txn       == 0 .. (MaxChkpt * Interval - 1)
Chkpt(k)  == k * Interval - 1 - Back
Thread    == {0, 1}
Other(c)  == 1 - c

VARIABLES
  taken,                \* checkpoints enqueued so far
  work_queue,           \* their messages
  txn_table,            \* transactions that have a manager
  g_last_stable_chkpt, last_deleted_txn_man,
  txn_chkpt_holding, is_chkpt_holding, is_chkpt_stalled, chkpt_semaphore,
  (* local to a checkpoint thread *)
  pc, msg,
  txn_man,              \* "none", "owned", or "released" by the other thread
  start, holding2,      \* what last_deleted_txn and the other thread's holding were
  todo                  \* what is left to release

globals == <<taken, work_queue, txn_table, g_last_stable_chkpt, last_deleted_txn_man>>
holding == <<txn_chkpt_holding, is_chkpt_holding, is_chkpt_stalled, chkpt_semaphore>>
locals  == <<pc, msg, txn_man, start, holding2, todo>>
vars    == <<globals, holding, locals>>

TypeOK ==
  /\ taken \in 0 .. MaxChkpt
  /\ work_queue \in Seq(Txn)
  /\ txn_table \subseteq Txn
  /\ g_last_stable_chkpt \in Txn /\ last_deleted_txn_man \in Txn
  /\ txn_chkpt_holding \in [Thread -> Txn]
  /\ is_chkpt_holding \in [Thread -> BOOLEAN]
  /\ is_chkpt_stalled \in [Thread -> BOOLEAN]
  /\ chkpt_semaphore \in [Thread -> Nat]
  /\ pc \in [Thread -> {"idle", "popped", "held", "wanted", "compare", "store", "range",
                        "release", "resume", "ready"}]
  /\ msg \in [Thread -> Txn]
  /\ txn_man \in [Thread -> {"none", "owned", "released"}]
  /\ start \in [Thread -> Txn] /\ holding2 \in [Thread -> Txn]
  /\ todo \in [Thread -> SUBSET Txn]

Init ==
  /\ taken = 0 /\ work_queue = <<>> /\ txn_table = {}
  /\ g_last_stable_chkpt = 0 /\ last_deleted_txn_man = 0
  /\ txn_chkpt_holding = [c \in Thread |-> 0]
  /\ is_chkpt_holding = [c \in Thread |-> FALSE]
  /\ is_chkpt_stalled = [c \in Thread |-> FALSE]
  /\ chkpt_semaphore = [c \in Thread |-> 0]
  /\ pc = [c \in Thread |-> "idle"]
  /\ msg = [c \in Thread |-> 0]
  /\ txn_man = [c \in Thread |-> "none"]
  /\ start = [c \in Thread |-> 0] /\ holding2 = [c \in Thread |-> 0]
  /\ todo = [c \in Thread |-> {}]

At(c, from, to) == pc[c] = from /\ pc' = [pc EXCEPT ![c] = to]
-----------------------------------------------------------------------------
(* The execution thread has executed the next Interval transactions, each  *)
(* of which has its manager.                                               *)
send_checkpoints ==
  /\ taken < MaxChkpt
  /\ taken' = taken + 1
  /\ txn_table' = txn_table \cup (taken * Interval) .. (taken' * Interval - 1)
  /\ work_queue' = Append(work_queue, Chkpt(taken'))
  /\ UNCHANGED <<g_last_stable_chkpt, last_deleted_txn_man, holding, locals>>

(* A message leaves the queue before it is announced as held. *)
dequeue(c) ==
  /\ work_queue # <<>>
  /\ At(c, "idle", "popped")
  /\ msg' = [msg EXCEPT ![c] = Head(work_queue)]
  /\ work_queue' = Tail(work_queue)
  /\ UNCHANGED <<taken, txn_table, g_last_stable_chkpt, last_deleted_txn_man, holding,
                 txn_man, start, holding2, todo>>

hold(c) ==
  /\ At(c, "popped", "held")
  /\ txn_chkpt_holding' = [txn_chkpt_holding EXCEPT ![c] = msg[c]]
  /\ is_chkpt_holding' = [is_chkpt_holding EXCEPT ![c] = TRUE]
  /\ UNCHANGED <<globals, is_chkpt_stalled, chkpt_semaphore, msg, txn_man, start, holding2, todo>>

(* Mutant: a message is not compared with the last stable checkpoint.      *)
exception_msg_handling_NoFilter(c) ==
  /\ At(c, "held", "wanted")
  /\ UNCHANGED <<globals, holding, msg, txn_man, start, holding2, todo>>

(* A message older than the last stable checkpoint is dropped, and stays   *)
(* announced as held.                                                      *)
exception_msg_handling(c) ==
  /\ \/ msg[c] <= g_last_stable_chkpt /\ At(c, "held", "idle")
     \/ msg[c] > g_last_stable_chkpt /\ At(c, "held", "wanted")
  /\ UNCHANGED <<globals, holding, msg, txn_man, start, holding2, todo>>

(* The manager of the message is looked up, or created, and owned.         *)
(* chkpt_cnt is 1: the first message makes the checkpoint stable.          *)
get_transaction_manager(c) ==
  /\ At(c, "wanted", "compare")
  /\ txn_table' = txn_table \cup {msg[c]}
  /\ txn_man' = [txn_man EXCEPT ![c] = "owned"]
  /\ UNCHANGED <<taken, work_queue, g_last_stable_chkpt, last_deleted_txn_man, holding, msg,
                 start, holding2, todo>>

(* set_curr_chkpt, without a lock: the comparison and the store. *)
set_curr_chkpt(c) ==
  /\ \/ /\ msg[c] > g_last_stable_chkpt /\ At(c, "compare", "store")
        /\ UNCHANGED g_last_stable_chkpt
     \/ /\ msg[c] <= g_last_stable_chkpt /\ At(c, "compare", "range")
        /\ UNCHANGED g_last_stable_chkpt
     \/ /\ At(c, "store", "range")
        /\ g_last_stable_chkpt' = msg[c]
  /\ UNCHANGED <<taken, work_queue, txn_table, last_deleted_txn_man, holding, msg, txn_man,
                 start, holding2, todo>>

(* Mutant: the range reaches beyond the checkpoint.                        *)
del_range_Ahead(c) == msg[c] + Keep

(* The managers a checkpoint releases: those from the last range deleted   *)
(* on, except the one the other thread announced last.                     *)
del_range(c) == msg[c] - Keep

Obsolete(c) == {i \in Txn : /\ i < del_range(c)
                            /\ \/ i >= last_deleted_txn_man /\ i < txn_chkpt_holding[Other(c)]
                               \/ i > txn_chkpt_holding[Other(c)]}

choose_range(c) ==
  /\ At(c, "range", "release")
  /\ start' = [start EXCEPT ![c] = last_deleted_txn_man]
  /\ holding2' = [holding2 EXCEPT ![c] = txn_chkpt_holding[Other(c)]]
  /\ todo' = [todo EXCEPT ![c] = Obsolete(c)]
  /\ last_deleted_txn_man' = Max({last_deleted_txn_man, del_range(c)})
  /\ UNCHANGED <<taken, work_queue, txn_table, g_last_stable_chkpt, holding, msg, txn_man>>

(* The manager of i goes back to the pool, also when the other thread owns *)
(* it.                                                                     *)
release_txn_man(c, i) ==
  /\ txn_table' = txn_table \ {i}
  /\ txn_man' = [txn_man EXCEPT ![Other(c)] =
                   IF @ = "owned" /\ msg[Other(c)] = i THEN "released" ELSE @]

release_range(c) ==
  /\ pc[c] = "release" /\ todo[c] # {}
  /\ release_txn_man(c, Min(todo[c]))
  /\ todo' = [todo EXCEPT ![c] = @ \ {Min(@)}]
  /\ UNCHANGED <<taken, work_queue, g_last_stable_chkpt, last_deleted_txn_man, holding, pc, msg,
                 start, holding2>>

(* Mutant: the thread waits whenever the other one is announced as holding *)
(* a manager.                                                              *)
stall_Any(c) ==
  /\ todo[c] = {}
  /\ At(c, "release", "resume")
  /\ is_chkpt_stalled' = [is_chkpt_stalled EXCEPT ![c] = is_chkpt_holding[Other(c)]]
  /\ UNCHANGED <<globals, txn_chkpt_holding, is_chkpt_holding, chkpt_semaphore, msg, txn_man,
                 start, holding2, todo>>

(* When a manager was left out: wait for the other thread, if start is the *)
(* manager it holds.                                                       *)
stall(c) ==
  /\ todo[c] = {}
  /\ At(c, "release", "resume")
  /\ is_chkpt_stalled' = [is_chkpt_stalled EXCEPT ![c] =
                            /\ holding2[c] < del_range(c)
                            /\ is_chkpt_holding[Other(c)]
                            /\ txn_chkpt_holding[Other(c)] = start[c]]
  /\ UNCHANGED <<globals, txn_chkpt_holding, is_chkpt_holding, chkpt_semaphore, msg, txn_man,
                 start, holding2, todo>>

(* Mutant: the manager left out of the range is not released.              *)
resume_NoRelease(c) ==
  /\ At(c, "resume", "ready")
  /\ is_chkpt_stalled[c] => chkpt_semaphore[c] > 0
  /\ chkpt_semaphore' = [chkpt_semaphore EXCEPT ![c] = IF is_chkpt_stalled[c] THEN @ - 1 ELSE @]
  /\ is_chkpt_stalled' = [is_chkpt_stalled EXCEPT ![c] = FALSE]
  /\ UNCHANGED <<globals, txn_chkpt_holding, is_chkpt_holding, msg, txn_man, start, holding2,
                 todo>>

(* The manager of start is released last. *)
resume(c) ==
  /\ At(c, "resume", "ready")
  /\ is_chkpt_stalled[c] => chkpt_semaphore[c] > 0
  /\ chkpt_semaphore' = [chkpt_semaphore EXCEPT ![c] = IF is_chkpt_stalled[c] THEN @ - 1 ELSE @]
  /\ is_chkpt_stalled' = [is_chkpt_stalled EXCEPT ![c] = FALSE]
  /\ \/ holding2[c] < del_range(c) /\ release_txn_man(c, start[c])
     \/ holding2[c] >= del_range(c) /\ UNCHANGED <<txn_table, txn_man>>
  /\ UNCHANGED <<taken, work_queue, g_last_stable_chkpt, last_deleted_txn_man, txn_chkpt_holding,
                 is_chkpt_holding, msg, start, holding2, todo>>

(* The end of the loop of run: the manager is given back, which fails when *)
(* it was released meanwhile, and a thread waiting for it goes on.         *)
set_ready(c) ==
  /\ txn_man[c] = "owned"
  /\ At(c, "ready", "idle")
  /\ txn_man' = [txn_man EXCEPT ![c] = "none"]
  /\ is_chkpt_holding' = [is_chkpt_holding EXCEPT ![c] = FALSE]
  /\ chkpt_semaphore' = [chkpt_semaphore EXCEPT ![Other(c)] =
                           IF is_chkpt_stalled[Other(c)] THEN @ + 1 ELSE @]
  /\ UNCHANGED <<globals, txn_chkpt_holding, is_chkpt_stalled, msg, start, holding2, todo>>
-----------------------------------------------------------------------------
ThreadNext(c) ==
  \/ dequeue(c)
  \/ hold(c)
  \/ exception_msg_handling(c)
  \/ get_transaction_manager(c)
  \/ set_curr_chkpt(c)
  \/ choose_range(c)
  \/ release_range(c)
  \/ stall(c)
  \/ resume(c)
  \/ set_ready(c)

Next == send_checkpoints \/ \E c \in Thread : ThreadNext(c)

Spec == Init /\ [][Next]_vars

(* Every thread that is not blocked goes on; transactions keep coming.     *)
FairSpec == Spec /\ WF_vars(send_checkpoints) /\ \A c \in Thread : WF_vars(ThreadNext(c))
-----------------------------------------------------------------------------
Collecting(c) == pc[c] \in {"release", "resume"}

(* Garbage collection is complete but for the checkpoints themselves: when *)
(* no thread is releasing, the only managers left of the transactions      *)
(* deleted are those that were left out for being held, although the       *)
(* threads' ranges overlap and each reads what the other holds only once.  *)
Collected ==
  (\A c \in Thread : ~Collecting(c)) =>
    \A i \in txn_table : i < last_deleted_txn_man => \E k \in 1 .. taken : i = Chkpt(k)

(* No thread's manager is released while it works with it: set_ready would *)
(* find it ready already, and "assert(ready)" fail.  A thread announces    *)
(* what it holds only after it has taken the message, and the other may    *)
(* have read the announcement before that; what saves it is that the       *)
(* message is then older than the last stable checkpoint.                  *)
StillOwned == \A c \in Thread : pc[c] = "ready" => txn_man[c] = "owned"

(* No thread waits for the other for ever, although a thread that drops a  *)
(* message stays announced as holding it: all checkpoints are taken and    *)
(* collected for.                                                          *)
AllCollected ==
  <>(/\ taken = MaxChkpt /\ work_queue = <<>>
     /\ \A c \in Thread : pc[c] = "idle"
     /\ last_deleted_txn_man = Chkpt(MaxChkpt) - Keep)
=============================================================================

--------------------------- MODULE WorkerThreads ----------------------------
(***************************************************************************)
(* The threads of one replica that share its slots: an instance thread for *)
(* some of the instances, which takes votes and GENERICs from two queues;  *)
(* the proposal thread, which proposes a client batch in a view the        *)
(* replica leads; the batch thread, which sends the GENERIC for it; and    *)
(* the input threads, which fill the queues.  The threads sleep on         *)
(* semaphores, and whoever works on a slot owns its transaction manager    *)
(* through a compare-and-swap of txn_ready.                                *)
(*                                                                         *)
(* Each access to shared state is a step of its own, with one exception: a *)
(* sem_post is joined to the write it announces by enqueue_batch, by the   *)
(* steps that put a message back and by advance_view (set_view and the     *)
(* posts behind it).  In the code the token comes a moment later, and the  *)
(* thread it is for sleeps until then.                                     *)
(*                                                                         *)
(* The other replicas are the environment: they send a GENERIC for a view  *)
(* they lead and a vote for every GENERIC.  A PROPOSAL, which is not       *)
(* waited for by any thread, is taken to arrive with its GENERIC; what     *)
(* certificates say is the subject of SpotLess.                            *)
(***************************************************************************)
EXTENDS Integers, SequencesExt, FiniteSetsExt, Tally

CONSTANTS
  NODE_CNT,
  MULTI_INSTANCES,
  MULTI_THREADS,
  g_node_id,
  Input,                \* the input threads for other replicas
  Voter,                \* bound: the replicas whose votes arrive, in a slot
  MaxView,              \* bound: views in which votes are sent
  MaxBatches            \* bound: client batches

ASSUME ThreadsAssumption ==
  /\ NODE_CNT \in Nat \ {0} /\ MULTI_INSTANCES \in 1 .. NODE_CNT
  /\ MULTI_THREADS \in 1 .. MULTI_INSTANCES /\ g_node_id \in 0 .. (NODE_CNT - 1)
  /\ IsFiniteSet(Input) /\ MaxView \in Nat /\ MaxBatches \in Nat
  /\ Voter \in [(0 .. (MULTI_INSTANCES - 1)) \X (0 .. MaxView) -> SUBSET ((0 .. (NODE_CNT - 1)) \ {g_node_id})]

Node     == 0 .. (NODE_CNT - 1)
Instance == 0 .. (MULTI_INSTANCES - 1)
Worker   == 0 .. (MULTI_THREADS - 1)
Slot     == Instance \X (0 .. MaxView)
nf       == NODE_CNT - (NODE_CNT + 1) \div 3      \* f is rounded up

get_view_primary(view, i) == (view + i) % NODE_CNT
Leads(s) == get_view_primary(s[2], s[1]) = g_node_id
Thread(i) == i % MULTI_THREADS

Msg(rtype, s, from) == [rtype |-> rtype, slot |-> s, from |-> from]
Messages == [rtype : {"GENERIC", "SYNC", "GENERIC_P"}, slot : Slot, from : Node]
NoSlot   == <<0, 0>>

VARIABLES
  view, next_send_view, last_sent_view, incomplete_proposal_cnt,
  clb_cnt,              \* client batches in the queue of an instance
  idx, proposalInstance, expectedInstance,
  worker_queue_semaphore, new_txn_semaphore, proposal_semaphore,
  prior_queue, prior_cnt, work_queue, temp_queue,
  txn_ready, voters, generic_received, new_viewed,  \* the transaction manager of a slot
  proposer, batcher,    \* the two sending threads: what they do, for which slot
  worker,               \* an instance thread: what it does, with which message
  input,                \* an input thread
  generic_out,          \* slots whose GENERIC has been sent
  arrived               \* messages of other replicas that have come in

queues   == <<prior_queue, prior_cnt, work_queue, temp_queue>>
sems     == <<worker_queue_semaphore, new_txn_semaphore, proposal_semaphore>>
manager  == <<txn_ready, voters, generic_received, new_viewed>>
sending  == <<next_send_view, last_sent_view, incomplete_proposal_cnt, clb_cnt, idx,
              proposalInstance, expectedInstance>>
outside  == <<generic_out, arrived>>
vars == <<view, sending, sems, queues, manager, proposer, batcher, worker, input, outside>>

BatchSem    == MULTI_THREADS + 1
ProposalSem == MULTI_THREADS

TypeOK ==
  /\ view \in [Instance -> 0 .. MaxView]
  /\ next_send_view \in [Instance -> Nat] /\ last_sent_view \in [Instance -> Nat]
  /\ incomplete_proposal_cnt \in [Instance -> Nat] /\ clb_cnt \in [Instance -> Nat]
  /\ idx \in Instance /\ proposalInstance \in Instance /\ expectedInstance \in Instance
  /\ worker_queue_semaphore \in [0 .. BatchSem -> Nat]
  /\ new_txn_semaphore \in Nat /\ proposal_semaphore \in Nat
  /\ prior_queue \in [Worker -> Seq(Messages)] /\ work_queue \in [Worker -> Seq(Messages)]
  /\ prior_cnt \in [Worker -> Nat] /\ temp_queue \in [Instance -> Seq(Messages)]
  /\ txn_ready \in [Slot -> BOOLEAN] /\ voters \in [Slot -> SUBSET Node]
  /\ generic_received \in [Slot -> BOOLEAN] /\ new_viewed \in [Slot -> BOOLEAN]
  /\ proposer \in [at : {"idle", "wait", "scan", "take", "fill", "retake", "send", "count"}, slot : Slot]
  /\ batcher \in [at : {"idle", "wait", "scan", "found", "take", "send", "vote"}, slot : Slot]
  /\ worker \in [Worker -> [at : {"idle", "awake", "take", "process"}, msg : Messages]]
  /\ input \in [Input -> [at : {"idle", "push", "count", "post"}, msg : Messages]]
  /\ generic_out \subseteq Slot /\ arrived \subseteq Messages

(* The instances whose first view the replica leads. *)
First == Cardinality({i \in Instance : Leads(<<i, 0>>)})

NoMsg == Msg("SYNC", NoSlot, 0)

Init ==
  /\ view = [i \in Instance |-> 0]
  /\ next_send_view = [i \in Instance |-> (NODE_CNT + g_node_id - i) % NODE_CNT]
  /\ last_sent_view = [i \in Instance |-> 0]
  /\ incomplete_proposal_cnt = [i \in Instance |-> 0] /\ clb_cnt = [i \in Instance |-> 0]
  /\ idx = 0 /\ proposalInstance = 0 /\ expectedInstance = 0
  /\ worker_queue_semaphore = [t \in 0 .. BatchSem |-> 0]
  /\ new_txn_semaphore = (IF g_node_id < MULTI_INSTANCES THEN 1 ELSE 0) /\ proposal_semaphore = First
  /\ prior_queue = [t \in Worker |-> <<>>] /\ prior_cnt = [t \in Worker |-> 0]
  /\ work_queue = [t \in Worker |-> <<>>] /\ temp_queue = [i \in Instance |-> <<>>]
  /\ txn_ready = [s \in Slot |-> TRUE] /\ voters = [s \in Slot |-> {}]
  /\ generic_received = [s \in Slot |-> FALSE] /\ new_viewed = [s \in Slot |-> FALSE]
  /\ proposer = [at |-> "idle", slot |-> NoSlot] /\ batcher = [at |-> "idle", slot |-> NoSlot]
  /\ worker = [t \in Worker |-> [at |-> "idle", msg |-> NoMsg]]
  /\ input = [k \in Input |-> [at |-> "idle", msg |-> NoMsg]]
  /\ generic_out = {} /\ arrived = {}
-----------------------------------------------------------------------------
(* QWorkQueue::enqueue of a client batch: the first queue from idx on that *)
(* is empty, or else the first that is shortest.                           *)
Round(from) == [k \in 1 .. MULTI_INSTANCES |-> (from + k - 1) % MULTI_INSTANCES]
shortest(from) ==
  LET least == Min(Range(clb_cnt))
      order == Round(from)
  IN  order[Min({k \in DOMAIN order : clb_cnt[order[k]] = least})]

enqueue_batch ==
  LET q == shortest(idx) IN
  /\ Total(clb_cnt) + Cardinality({s \in Slot : Leads(s) /\ s[2] < next_send_view[s[1]]}) < MaxBatches
  /\ clb_cnt' = [clb_cnt EXCEPT ![q] = @ + 1]
  /\ idx' = (q + 1) % MULTI_INSTANCES
  /\ worker_queue_semaphore' = [worker_queue_semaphore EXCEPT ![BatchSem] = @ + 1, ![ProposalSem] = @ + 1]
  /\ UNCHANGED <<view, next_send_view, last_sent_view, incomplete_proposal_cnt, proposalInstance,
                 expectedInstance, new_txn_semaphore, proposal_semaphore, queues, manager, proposer,
                 batcher, worker, input, outside>>
-----------------------------------------------------------------------------
(* A message of another replica.  A view begins for the others when this   *)
(* one has done what they cannot do without it.                            *)
Begun(s) ==
  \A v \in 0 .. (s[2] - 1) : LET u == <<s[1], v>> IN
    IF Leads(u) THEN u \in generic_out ELSE nf < NODE_CNT \/ g_node_id \in voters[u]
Sendable(m) ==
  /\ m.slot[2] < MaxView /\ Begun(m.slot)
  /\ CASE m.rtype = "GENERIC" -> ~Leads(m.slot) /\ m.from = get_view_primary(m.slot[2], m.slot[1])
       [] m.rtype = "SYNC"    -> m.from \in Voter[m.slot] /\ (Leads(m.slot) => m.slot \in generic_out)
       [] OTHER -> FALSE

(* server_recv_loop: the last message of a buffer is enqueued first, then  *)
(* the others; messages come in in any order here.                         *)
receive(k) ==
  /\ input[k].at = "idle"
  /\ \E m \in Messages \ arrived :
       /\ Sendable(m)
       /\ arrived' = arrived \cup {m}
       /\ input' = [input EXCEPT ![k] = [at |-> "push", msg |-> m]]
  /\ UNCHANGED <<view, sending, sems, queues, manager, proposer, batcher, worker, generic_out>>

(* QWorkQueue::enqueue: a GENERIC goes to the prior queue, whose length is *)
(* counted beside it; the semaphore comes last.                            *)
IsPrior(m) == m.rtype = "GENERIC"
push(m) ==
  LET t == Thread(m.slot[1]) IN
  IF IsPrior(m)
  THEN prior_queue' = [prior_queue EXCEPT ![t] = Append(@, m)] /\ UNCHANGED work_queue
  ELSE work_queue' = [work_queue EXCEPT ![t] = Append(@, m)] /\ UNCHANGED prior_queue
post(t) == worker_queue_semaphore' = [worker_queue_semaphore EXCEPT ![t] = @ + 1]

(* Mutant: the length of the prior queue is not counted. *)
AfterPush_NoCount(m) == "post"

AfterPush(m) == IF IsPrior(m) THEN "count" ELSE "post"

enqueue_push(k) ==
  /\ input[k].at = "push" /\ push(input[k].msg)
  /\ input' = [input EXCEPT ![k].at = AfterPush(input[k].msg)]
  /\ UNCHANGED <<view, sending, sems, prior_cnt, temp_queue, manager, proposer, batcher, worker, outside>>

enqueue_count(k) ==
  LET t == Thread(input[k].msg.slot[1]) IN
  /\ input[k].at = "count"
  /\ prior_cnt' = [prior_cnt EXCEPT ![t] = @ + 1]
  /\ input' = [input EXCEPT ![k].at = "post"]
  /\ UNCHANGED <<view, sending, sems, prior_queue, work_queue, temp_queue, manager, proposer, batcher,
                 worker, outside>>

enqueue_post(k) ==
  /\ input[k].at = "post" /\ post(Thread(input[k].msg.slot[1]))
  /\ input' = [input EXCEPT ![k].at = "idle", ![k].msg = NoMsg]
  /\ UNCHANGED <<view, sending, new_txn_semaphore, proposal_semaphore, queues, manager, proposer,
                 batcher, worker, outside>>
-----------------------------------------------------------------------------
(* The proposal thread: a client batch and a view to propose it in, then   *)
(* round the instances until both are found.  A batch comes from the       *)
(* instance's own queue or that of one that is not behind it.              *)
proposer_wait ==
  /\ proposer.at = "idle" /\ worker_queue_semaphore[ProposalSem] > 0
  /\ worker_queue_semaphore' = [worker_queue_semaphore EXCEPT ![ProposalSem] = @ - 1]
  /\ proposer' = [proposer EXCEPT !.at = "wait"]
  /\ UNCHANGED <<view, sending, new_txn_semaphore, proposal_semaphore, queues, manager, batcher, worker, input, outside>>

proposer_wait_view ==
  /\ proposer.at = "wait" /\ proposal_semaphore > 0
  /\ proposal_semaphore' = proposal_semaphore - 1
  /\ proposer' = [proposer EXCEPT !.at = "scan"]
  /\ UNCHANGED <<view, sending, worker_queue_semaphore, new_txn_semaphore, queues, manager, batcher, worker, input, outside>>

Before(i) == (i + MULTI_INSTANCES - 1) % MULTI_INSTANCES
Usable(p, i) == clb_cnt[i] > 0 /\ (i = p \/ view[i] >= view[p])

dequeue_proposal ==
  LET p     == proposalInstance
      order == Round(p)
      found == {k \in DOMAIN order : next_send_view[p] <= view[p] /\ Usable(p, order[k])}
  IN
  /\ proposer.at = "scan"
  /\ proposalInstance' = Before(p)
  /\ IF found = {} THEN UNCHANGED <<clb_cnt, last_sent_view, next_send_view, proposer>>
     ELSE /\ clb_cnt' = [clb_cnt EXCEPT ![order[Min(found)]] = @ - 1]
          /\ last_sent_view' = [last_sent_view EXCEPT ![p] = next_send_view[p]]
          /\ next_send_view' = [next_send_view EXCEPT ![p] = @ + NODE_CNT]
          /\ proposer' = [at |-> "take", slot |-> <<p, next_send_view[p]>>]
  /\ UNCHANGED <<view, incomplete_proposal_cnt, idx, expectedInstance, sems, queues, manager, batcher, worker, input, outside>>

(* create_and_send_hotstuff_prepare: the manager is waited for, filled in, *)
(* given back, and taken again for the hash.                               *)
unset_ready(s) == txn_ready[s] /\ txn_ready' = [txn_ready EXCEPT ![s] = FALSE]

proposer_take ==
  /\ proposer.at \in {"take", "retake"} /\ unset_ready(proposer.slot)
  /\ proposer' = [proposer EXCEPT !.at = IF @ = "take" THEN "fill" ELSE "send"]
  /\ UNCHANGED <<view, sending, sems, queues, voters, generic_received, new_viewed, batcher, worker, input, outside>>

init_txn_man ==
  /\ proposer.at = "fill"
  /\ txn_ready' = [txn_ready EXCEPT ![proposer.slot] = TRUE]
  /\ proposer' = [proposer EXCEPT !.at = "retake"]
  /\ UNCHANGED <<view, sending, sems, queues, voters, generic_received, new_viewed, batcher, worker, input, outside>>

(* Mutant: the manager is not given back. *)
create_and_send_hotstuff_prepare_Kept ==
  /\ proposer.at = "send"
  /\ proposer' = [proposer EXCEPT !.at = "count"]
  /\ UNCHANGED <<view, sending, sems, queues, manager, batcher, worker, input, outside>>

create_and_send_hotstuff_prepare ==
  /\ proposer.at = "send"
  /\ txn_ready' = [txn_ready EXCEPT ![proposer.slot] = TRUE]
  /\ proposer' = [proposer EXCEPT !.at = "count"]
  /\ UNCHANGED <<view, sending, sems, queues, voters, generic_received, new_viewed, batcher, worker, input, outside>>

inc_incomplete_proposal_cnt ==
  /\ proposer.at = "count"
  /\ incomplete_proposal_cnt' = [incomplete_proposal_cnt EXCEPT ![proposer.slot[1]] = @ + 1]
  /\ proposer' = [at |-> "idle", slot |-> NoSlot]
  /\ UNCHANGED <<view, next_send_view, last_sent_view, clb_cnt, idx, proposalInstance, expectedInstance,
                 sems, queues, manager, batcher, worker, input, outside>>
-----------------------------------------------------------------------------
(* The batch thread: a client batch and a view to lead, then round the     *)
(* instances until one has been proposed in.                               *)
batcher_wait ==
  /\ batcher.at = "idle" /\ worker_queue_semaphore[BatchSem] > 0
  /\ worker_queue_semaphore' = [worker_queue_semaphore EXCEPT ![BatchSem] = @ - 1]
  /\ batcher' = [batcher EXCEPT !.at = "wait"]
  /\ UNCHANGED <<view, sending, new_txn_semaphore, proposal_semaphore, queues, manager, proposer, worker, input, outside>>

batcher_wait_view ==
  /\ batcher.at = "wait" /\ new_txn_semaphore > 0
  /\ new_txn_semaphore' = new_txn_semaphore - 1
  /\ batcher' = [batcher EXCEPT !.at = "scan"]
  /\ UNCHANGED <<view, sending, worker_queue_semaphore, proposal_semaphore, queues, manager, proposer, worker, input, outside>>

(* Mutant: a GENERIC in every view the replica leads. *)
Proposed_Led(e) == Leads(<<e, view[e]>>)

Proposed(e) == incomplete_proposal_cnt[e] # 0 /\ Leads(<<e, view[e]>>)

(* The count and the view are read under separate locks, which is as good  *)
(* as together: only this thread lowers the count.                         *)
dequeue_generic ==
  LET e == expectedInstance IN
  /\ batcher.at = "scan"
  /\ IF Proposed(e)
     THEN batcher' = [batcher EXCEPT !.at = "found"] /\ UNCHANGED expectedInstance
     ELSE expectedInstance' = Before(e) /\ UNCHANGED batcher
  /\ UNCHANGED <<view, next_send_view, last_sent_view, incomplete_proposal_cnt, clb_cnt, idx,
                 proposalInstance, sems, queues, manager, proposer, worker, input, outside>>

(* Mutant: the slot is that of the next proposal. *)
dec_incomplete_proposal_cnt_Next ==
  LET e == expectedInstance IN
  /\ batcher.at = "found"
  /\ batcher' = [at |-> "take", slot |-> <<e, next_send_view[e]>>]
  /\ incomplete_proposal_cnt' = [incomplete_proposal_cnt EXCEPT ![e] = @ - 1]
  /\ expectedInstance' = Before(e)
  /\ UNCHANGED <<view, next_send_view, last_sent_view, clb_cnt, idx, proposalInstance, sems, queues,
                 manager, proposer, worker, input, outside>>

(* The slot of the GENERIC comes from last_sent_view, read after them.     *)
dec_incomplete_proposal_cnt ==
  LET e == expectedInstance IN
  /\ batcher.at = "found"
  /\ batcher' = [at |-> "take", slot |-> <<e, last_sent_view[e]>>]
  /\ incomplete_proposal_cnt' = [incomplete_proposal_cnt EXCEPT ![e] = @ - 1]
  /\ expectedInstance' = Before(e)
  /\ UNCHANGED <<view, next_send_view, last_sent_view, clb_cnt, idx, proposalInstance, sems, queues,
                 manager, proposer, worker, input, outside>>

(* A GENERIC_MSG_P whose manager is taken goes back to a queue; its        *)
(* instance_id was never set, so that is the queue of any instance thread. *)
batcher_take ==
  LET s == batcher.slot IN
  /\ batcher.at = "take"
  /\ IF txn_ready[s]
     THEN /\ unset_ready(s)
          /\ batcher' = [batcher EXCEPT !.at = "send"]
          /\ UNCHANGED <<work_queue, worker_queue_semaphore>>
     ELSE /\ \E t \in Worker : /\ work_queue' = [work_queue EXCEPT ![t] = Append(@, Msg("GENERIC_P", s, g_node_id))]
                               /\ post(t)
          /\ batcher' = [at |-> "idle", slot |-> NoSlot]
          /\ UNCHANGED txn_ready
  /\ UNCHANGED <<view, sending, new_txn_semaphore, proposal_semaphore, prior_queue, prior_cnt, temp_queue,
                 voters, generic_received, new_viewed, proposer, worker, input, outside>>

(* Mutant: the manager is given back before the vote. *)
send_hotstuff_generic_Released ==
  /\ batcher.at = "send"
  /\ generic_out' = generic_out \cup {batcher.slot}
  /\ batcher' = [batcher EXCEPT !.at = "vote"]
  /\ txn_ready' = [txn_ready EXCEPT ![batcher.slot] = TRUE]
  /\ UNCHANGED <<view, sending, sems, queues, voters, generic_received, new_viewed, proposer, worker, input, arrived>>

send_hotstuff_generic ==
  /\ batcher.at = "send"
  /\ generic_out' = generic_out \cup {batcher.slot}
  /\ batcher' = [batcher EXCEPT !.at = "vote"]
  /\ UNCHANGED <<view, sending, sems, queues, manager, proposer, worker, input, arrived>>

(* The primary's own vote.  It may complete a quorum but does not advance  *)
(* the view.                                                               *)
Vote(s) ==
  /\ generic_received' = [generic_received EXCEPT ![s] = TRUE]
  /\ voters' = [voters EXCEPT ![s] = @ \cup {g_node_id}]
  /\ new_viewed' = [new_viewed EXCEPT ![s] = @ \/ Cardinality(voters[s] \cup {g_node_id}) = nf]

process_hotstuff_generic_p ==
  LET s == batcher.slot IN
  /\ batcher.at = "vote" /\ Vote(s)
  /\ txn_ready' = [txn_ready EXCEPT ![s] = TRUE]
  /\ batcher' = [at |-> "idle", slot |-> NoSlot]
  /\ UNCHANGED <<view, sending, sems, queues, proposer, worker, input, outside>>
-----------------------------------------------------------------------------
(* An instance thread: one message for one token, a GENERIC first. *)
worker_wait(t) ==
  /\ worker[t].at = "idle" /\ worker_queue_semaphore[t] > 0
  /\ worker_queue_semaphore' = [worker_queue_semaphore EXCEPT ![t] = @ - 1]
  /\ worker' = [worker EXCEPT ![t].at = "awake"]
  /\ UNCHANGED <<view, sending, new_txn_semaphore, proposal_semaphore, queues, manager, proposer, batcher, input, outside>>

(* check_view parks a GENERIC for a later view, exception_msg_handling     *)
(* drops a vote for a past one.                                            *)
check_view(m) == m.rtype = "GENERIC" /\ view[m.slot[1]] < m.slot[2]
exception_msg_handling(m) == m.rtype = "SYNC" /\ m.slot[2] < view[m.slot[1]]

Got(t, m) ==
  /\ temp_queue' = IF check_view(m) THEN [temp_queue EXCEPT ![m.slot[1]] = Append(@, m)] ELSE temp_queue
  /\ worker' = [worker EXCEPT ![t] = IF check_view(m) \/ exception_msg_handling(m)
                                     THEN [at |-> "idle", msg |-> NoMsg] ELSE [at |-> "take", msg |-> m]]
  /\ UNCHANGED worker_queue_semaphore

PriorVisible(t) == prior_cnt[t] > 0 /\ prior_queue[t] # <<>>

dequeue(t) ==
  /\ worker[t].at = "awake"
  /\ IF PriorVisible(t)
     THEN /\ Got(t, Head(prior_queue[t]))
          /\ prior_queue' = [prior_queue EXCEPT ![t] = Tail(@)] /\ prior_cnt' = [prior_cnt EXCEPT ![t] = @ - 1]
          /\ UNCHANGED work_queue
     ELSE /\ UNCHANGED <<prior_queue, prior_cnt>>
          /\ IF work_queue[t] # <<>>
             THEN /\ Got(t, Head(work_queue[t]))
                  /\ work_queue' = [work_queue EXCEPT ![t] = Tail(@)]
             ELSE /\ post(t)
                  /\ worker' = [worker EXCEPT ![t].at = "idle"]
                  /\ UNCHANGED <<work_queue, temp_queue>>
  /\ UNCHANGED <<view, sending, new_txn_semaphore, proposal_semaphore, manager, proposer, batcher, input, outside>>

(* A message whose manager is taken goes back to the end of its queue.     *)
(* Mutant: it is dropped.                                                  *)
put_back_Dropped(m) == UNCHANGED <<prior_queue, prior_cnt, work_queue, worker_queue_semaphore>>

put_back(m) ==
  /\ push(m) /\ post(Thread(m.slot[1]))
  /\ prior_cnt' = IF IsPrior(m) THEN [prior_cnt EXCEPT ![Thread(m.slot[1])] = @ + 1] ELSE prior_cnt

worker_take(t) ==
  LET m == worker[t].msg IN
  /\ worker[t].at = "take"
  /\ IF txn_ready[m.slot]
     THEN /\ unset_ready(m.slot)
          /\ worker' = [worker EXCEPT ![t].at = "process"]
          /\ UNCHANGED <<prior_queue, prior_cnt, work_queue, worker_queue_semaphore>>
     ELSE /\ put_back(m)
          /\ worker' = [worker EXCEPT ![t] = [at |-> "idle", msg |-> NoMsg]]
          /\ UNCHANGED txn_ready
  /\ UNCHANGED <<view, sending, new_txn_semaphore, proposal_semaphore, temp_queue, voters, generic_received,
                 new_viewed, proposer, batcher, input, outside>>

(* advance_view and set_view: what was parked for the instance comes back, *)
(* and the sending threads are woken if the replica leads the new view.    *)
(* Mutant: of the view that is left. *)
LeadsNext_Old(i) == Leads(<<i, view[i]>>)

LeadsNext(i) == Leads(<<i, view[i] + 1>>)

advance_view(i) ==
  LET t    == Thread(i)
      n    == Len(temp_queue[i])
      lead == IF LeadsNext(i) THEN 1 ELSE 0
  IN
  /\ view' = [view EXCEPT ![i] = @ + 1]
  /\ prior_queue' = [prior_queue EXCEPT ![t] = @ \o temp_queue[i]]
  /\ prior_cnt' = [prior_cnt EXCEPT ![t] = @ + n]
  /\ temp_queue' = [temp_queue EXCEPT ![i] = <<>>]
  /\ worker_queue_semaphore' = [worker_queue_semaphore EXCEPT ![t] = @ + n]
  /\ new_txn_semaphore' = new_txn_semaphore + lead
  /\ proposal_semaphore' = proposal_semaphore + lead
Stay == UNCHANGED <<view, prior_queue, prior_cnt, temp_queue, sems>>

(* hotstuff_new_viewed: the vote that makes the quorum.                    *)
AddVote(s, r) ==
  LET all == voters[s] \cup {r}
      now == ~new_viewed[s] /\ r \notin voters[s] /\ Cardinality(all) = nf
  IN
  /\ voters' = IF new_viewed[s] THEN voters ELSE [voters EXCEPT ![s] = all]
  /\ new_viewed' = [new_viewed EXCEPT ![s] = @ \/ now]
  /\ UNCHANGED generic_received
  /\ IF now /\ generic_received[s] THEN advance_view(s[1]) ELSE Stay

process(t) ==
  LET m == worker[t].msg
      s == m.slot
  IN
  /\ worker[t].at = "process"
  /\ CASE m.rtype = "SYNC" -> AddVote(s, m.from) /\ UNCHANGED generic_out
       [] m.rtype = "GENERIC" -> /\ Vote(s)
                                 /\ IF new_viewed'[s] THEN advance_view(s[1]) ELSE Stay
                                 /\ UNCHANGED generic_out
       [] m.rtype = "GENERIC_P" -> Vote(s) /\ Stay /\ generic_out' = generic_out \cup {s}
  /\ txn_ready' = [txn_ready EXCEPT ![s] = TRUE]
  /\ worker' = [worker EXCEPT ![t] = [at |-> "idle", msg |-> NoMsg]]
  /\ UNCHANGED <<sending, work_queue, proposer, batcher, input, arrived>>
-----------------------------------------------------------------------------
Proposer == \/ proposer_wait \/ proposer_wait_view \/ dequeue_proposal \/ proposer_take
            \/ init_txn_man \/ create_and_send_hotstuff_prepare \/ inc_incomplete_proposal_cnt
Batcher  == \/ batcher_wait \/ batcher_wait_view \/ dequeue_generic \/ dec_incomplete_proposal_cnt
            \/ batcher_take \/ send_hotstuff_generic \/ process_hotstuff_generic_p
Handler(t) == worker_wait(t) \/ dequeue(t) \/ worker_take(t) \/ process(t)
Receiver(k) == receive(k) \/ enqueue_push(k) \/ enqueue_count(k) \/ enqueue_post(k)

Next ==
  \/ enqueue_batch
  \/ Proposer
  \/ Batcher
  \/ \E t \in Worker : Handler(t)
  \/ \E k \in Input : Receiver(k)

(* Every thread runs on; clients send and messages arrive. *)
Spec ==
  /\ Init /\ [][Next]_vars
  /\ WF_vars(enqueue_batch) /\ WF_vars(Proposer) /\ WF_vars(Batcher)
  /\ \A t \in Worker : WF_vars(Handler(t))
  /\ \A k \in Input : WF_vars(Receiver(k))
-----------------------------------------------------------------------------
In(thread, places) == IF thread.at \in places THEN 1 ELSE 0
Led == {i \in Instance : Leads(<<i, view[i]>>)}

(* The tokens of the sending threads are exactly the work there is for     *)
(* them: proposal_semaphore counts the instances the replica leads and has *)
(* not proposed in, new_txn_semaphore those it has not sent the GENERIC    *)
(* for, and the thread's own semaphore the client batches for that.  A     *)
(* token too few and a thread sleeps for ever, one too many and it spins   *)
(* for ever.                                                               *)
SendingTokens ==
  /\ worker_queue_semaphore[ProposalSem] + In(proposer, {"wait", "scan"}) = Total(clb_cnt)
  /\ proposal_semaphore + In(proposer, {"scan"}) = Cardinality({i \in Led : next_send_view[i] <= view[i]})
  /\ new_txn_semaphore + In(batcher, {"scan", "found"}) =
       Cardinality({i \in Led : <<i, view[i]>> \notin generic_out})
       - In(batcher, {"take", "send"})

(* An instance thread that was let through by its semaphore finds a        *)
(* message, although messages, their count and the token are added one     *)
(* after the other and a GENERIC overtakes votes.                          *)
TokenFindsMessage ==
  \A t \in Worker : worker[t].at = "awake" => PriorVisible(t) \/ work_queue[t] # <<>>

(* A GENERIC_MSG_P never loses its manager to another thread and so is     *)
(* never put into a queue, which would be that of an arbitrary instance.   *)
GenericStays ==
  \A t \in Worker : \A m \in Range(work_queue[t]) : m.rtype # "GENERIC_P"

(* A GENERIC leaves for the view its instance is in, which the replica     *)
(* leads, and once, although the count, the view and last_sent_view it is  *)
(* made from are read under separate locks while the proposal thread and   *)
(* the instance thread go on.                                              *)
GenericOfView ==
  batcher.at \in {"take", "send"} =>
    LET s == batcher.slot IN Leads(s) /\ s[2] = view[s[1]] /\ s \notin generic_out

(* In a view the replica leads its own vote is counted first, however soon *)
(* the others answer its GENERIC: the batch thread casts it but does not   *)
(* advance the view, so it must not be the one that completes the quorum.  *)
OwnVoteFirst ==
  \A s \in Slot : Leads(s) /\ voters[s] # {} => g_node_id \in voters[s]

(* No thread waits for another for ever: as long as clients send and the   *)
(* other replicas answer, every instance goes on to the last view.         *)
Advances == <>(\A i \in Instance : view[i] = MaxView)
=============================================================================

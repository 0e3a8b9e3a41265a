------------------------------ MODULE SpotLess ------------------------------
(***************************************************************************)
(* One consensus instance of SpotLess, run by NODE_CNT replicas.           *)
(*                                                                         *)
(* Every view v of the instance has one primary, which broadcasts a        *)
(* PROPOSAL (the batch of transactions of the slot) and, once it reaches   *)
(* the view, a GENERIC carrying the quorum certificate it prepared last.   *)
(* A replica that accepts the GENERIC broadcasts a SYNC, its vote; nf      *)
(* votes together with PROPOSAL and GENERIC take a replica to the next     *)
(* view.  A block is executed when its view and the two following views    *)
(* have been certified.  With Faulty # {} the module describes the build   *)
(* with SpotLess_FAIL, where the replicas in Faulty go silent at           *)
(* CRASH_VIEW and the others vote their views away when a timer expires.   *)
(*                                                                         *)
(* A batch is identified with its slot, the view it is proposed in, and so *)
(* is its hash: no build modelled here makes two batches for one slot.     *)
(* Genesis stands for the empty hash.  A message handler is one action;    *)
(* messages are never removed from the network variables, and a handler    *)
(* that would ignore a message is not enabled for it.                      *)
(***************************************************************************)
EXTENDS Integers, FiniteSets

CONSTANTS
  NODE_CNT,     \* number of replicas
  Instance,     \* the instance, which shifts the rotation of the primaries
  Faulty,       \* replicas that stop at CRASH_VIEW; {} in the default build
  CRASH_VIEW,   \* the view from which the replicas in Faulty drop messages
  MaxView,      \* bound: the last view in which anything is proposed
  Ahead         \* bound: how far beyond its own view a replica takes messages

ASSUME ConstantsAssumption ==
  /\ NODE_CNT \in Nat /\ NODE_CNT >= 3
  /\ Instance \in 0 .. (NODE_CNT - 1)
  /\ Faulty \subseteq 0 .. (NODE_CNT - 1)
  /\ CRASH_VIEW \in Nat
  /\ MaxView \in Nat
  /\ Ahead \in Nat

Replica == 0 .. (NODE_CNT - 1)
Slot    == 0 .. MaxView
Genesis == -1
Hash    == {Genesis} \cup Slot

(* f, and the size of a quorum. *)
g_min_invalid_nodes ==
  IF NODE_CNT % 3 = 1 THEN (NODE_CNT - 1) \div 3 ELSE (NODE_CNT - 1) \div 3 + 1
nf == NODE_CNT - g_min_invalid_nodes

get_view_primary(v) == (v + Instance) % NODE_CNT

(* A quorum certificate.  DefaultQC is what indexing a std::unordered_map  *)
(* with an absent key inserts and returns.                                 *)
QuorumCertificate == [genesis : BOOLEAN, viewNumber : Slot, batch_hash : Hash, parent_hash : Hash]
GenesisQC == [genesis |-> TRUE,  viewNumber |-> 0, batch_hash |-> Genesis, parent_hash |-> Genesis]
DefaultQC == [genesis |-> FALSE, viewNumber |-> 0, batch_hash |-> Genesis, parent_hash |-> Genesis]

-----------------------------------------------------------------------------
VARIABLES
  (* the network: everything sent so far *)
  proposals,          \* PROPOSAL: the slots proposed
  generics,           \* GENERIC messages
  syncs,              \* SYNC messages that are votes
  non_votes,          \* SYNC messages with non_vote set
  (* a replica's view of the instance *)
  view,               \* current view
  chain,              \* certificates and the EXECUTE messages they caused
  skips,              \* EXECUTE messages with valid = false, by slot
  temp_queue,         \* parked GENERIC messages, by their view
  (* the transaction manager of each slot *)
  proposal_received, generic_received, sync_sent, new_viewed, hash_voters, highQC,
  (* the proposal and the batch thread *)
  next_send_view, last_sent_view, incomplete_proposal_cnt,
  (* the timer and the votes against a view *)
  waiting, fault_voters

network == <<proposals, generics, syncs, non_votes>>
txnMan  == <<proposal_received, generic_received, sync_sent, new_viewed, hash_voters, highQC>>
sending == <<next_send_view, last_sent_view, incomplete_proposal_cnt>>
vars    == <<network, view, chain, skips, temp_queue, txnMan, sending, waiting, fault_voters>>

GenericMsg == [slot : Slot, view : Slot, src : Replica, highQC : QuorumCertificate]
SyncMsg    == [slot : Slot, view : Slot, src : Replica]
NonVoteMsg == [view : Slot, src : Replica]

(* hash_to_QC with the set of its keys, the two certificates of the        *)
(* instance, and how many EXECUTE messages were enqueued for each block.   *)
Chain == [hash_to_QC : [Hash -> QuorumCertificate], keys : SUBSET Hash,
          g_preparedQC : QuorumCertificate, g_lockedQC : QuorumCertificate,
          executes : [Hash -> Nat]]

TypeOK ==
  /\ proposals \subseteq Slot
  /\ generics \subseteq GenericMsg
  /\ syncs \subseteq SyncMsg
  /\ non_votes \subseteq NonVoteMsg
  /\ view \in [Replica -> 0 .. MaxView + 1]
  /\ chain \in [Replica -> Chain]
  /\ skips \in [Replica -> [Slot -> Nat]]
  /\ temp_queue \in [Replica -> SUBSET Slot]
  /\ proposal_received \in [Replica -> SUBSET Slot]
  /\ generic_received \in [Replica -> SUBSET Slot]
  /\ sync_sent \in [Replica -> SUBSET Slot]
  /\ new_viewed \in [Replica -> SUBSET Slot]
  /\ hash_voters \in [Replica -> [Slot -> SUBSET Replica]]
  /\ highQC \in [Replica -> [Slot -> QuorumCertificate]]
  /\ next_send_view \in [Replica -> Nat]
  /\ last_sent_view \in [Replica -> Slot]
  /\ incomplete_proposal_cnt \in [Replica -> Nat]
  /\ waiting \in [Replica -> BOOLEAN]
  /\ fault_voters \in [Replica -> [Slot -> SUBSET Replica]]

Init ==
  /\ proposals = {} /\ generics = {} /\ syncs = {} /\ non_votes = {}
  /\ view = [r \in Replica |-> 0]
  /\ chain = [r \in Replica |->
                [hash_to_QC |-> [h \in Hash |-> IF h = Genesis THEN GenesisQC ELSE DefaultQC],
                 keys |-> {Genesis}, g_preparedQC |-> GenesisQC, g_lockedQC |-> GenesisQC,
                 executes |-> [h \in Hash |-> 0]]]
  /\ skips = [r \in Replica |-> [s \in Slot |-> 0]]
  /\ temp_queue = [r \in Replica |-> {}]
  /\ proposal_received = [r \in Replica |-> {}]
  /\ generic_received = [r \in Replica |-> {}]
  /\ sync_sent = [r \in Replica |-> {}]
  /\ new_viewed = [r \in Replica |-> {}]
  /\ hash_voters = [r \in Replica |-> [s \in Slot |-> {}]]
  /\ highQC = [r \in Replica |-> [s \in Slot |-> DefaultQC]]
  /\ next_send_view = [r \in Replica |-> (NODE_CNT + r - Instance) % NODE_CNT]
  /\ last_sent_view = [r \in Replica |-> 0]
  /\ incomplete_proposal_cnt = [r \in Replica |-> 0]
  /\ waiting = [r \in Replica |-> FALSE]
  /\ fault_voters = [r \in Replica |-> [s \in Slot |-> {}]]
-----------------------------------------------------------------------------
(* Certificates.  The operators of this section map the record chain[r] to *)
(* its next value; they run inside one handler.                            *)

SafeNode(c, QC) ==
  \/ QC.viewNumber = c.g_lockedQC.viewNumber /\ QC.batch_hash = c.g_lockedQC.batch_hash
  \/ QC.viewNumber > c.g_lockedQC.viewNumber
  \/ QC.viewNumber = 0 /\ c.g_lockedQC.genesis

(* Both set_g_preparedQC and set_g_lockedQC. *)
Newer(QC, old) == IF QC.viewNumber > old.viewNumber \/ old.genesis THEN QC ELSE old

(* The entries of hash_to_QC visited when walking from h to its ancestors: *)
(* the least set with h and, for each member, its parent, as far as they   *)
(* are in the map.  An entry with the empty hash ends the walk, because it *)
(* is erased before its parent, the empty hash again, is looked up.        *)
Ancestors(map, keys, h) ==
  {g \in keys : \A S \in SUBSET keys :
     /\ h \in keys => h \in S
     /\ \A a \in S : map[a].batch_hash # Genesis /\ map[a].parent_hash \in keys
                       => map[a].parent_hash \in S
     => g \in S}

(* The blocks send_execute_msg_hotstuff sends an EXECUTE for and erases:   *)
(* the one of slot s and its ancestors still in the map.                   *)
send_execute_msg_hotstuff(map, keys, s) ==
  {map[g].batch_hash : g \in Ancestors(map, keys, map[s].parent_hash)} \cup {s}

(* Mutant: executed blocks stay in hash_to_QC.                             *)
update_lockQC_NoErase(c, QC, v, s) ==
  LET B2  == c.hash_to_QC[QC.parent_hash]
      B3  == c.hash_to_QC[B2.parent_hash]
      one   == QC.viewNumber + 1 = v
      two   == one /\ B2.viewNumber + 2 = v
      three == two /\ B3.viewNumber + 3 = v
      sent == send_execute_msg_hotstuff(c.hash_to_QC, c.keys, s - 2)
  IN  [c EXCEPT !.g_preparedQC = IF one THEN Newer(QC, @) ELSE @,
                !.g_lockedQC = IF two THEN Newer(B2, @) ELSE @,
                !.executes = IF ~three THEN @ ELSE
                  [h \in Hash |-> IF h \in sent THEN c.executes[h] + 1 ELSE c.executes[h]]]

(* Mutant: the view of the third certificate is not looked at.             *)
update_lockQC_AnyThird(c, QC, v, s) ==
  LET B2  == c.hash_to_QC[QC.parent_hash]
      one == QC.viewNumber + 1 = v
      two == one /\ B2.viewNumber + 2 = v
      sent == IF two /\ s >= 2 THEN send_execute_msg_hotstuff(c.hash_to_QC, c.keys, s - 2) ELSE {}
  IN  [hash_to_QC |-> [h \in Hash |-> IF h \in sent THEN DefaultQC ELSE c.hash_to_QC[h]],
       keys |-> c.keys \ sent,
       g_preparedQC |-> IF one THEN Newer(QC, c.g_preparedQC) ELSE c.g_preparedQC,
       g_lockedQC |-> IF two THEN Newer(B2, c.g_lockedQC) ELSE c.g_lockedQC,
       executes |-> [h \in Hash |-> IF h \in sent THEN c.executes[h] + 1 ELSE c.executes[h]]]

(* Certificates of three consecutive views ending just before v: the first *)
(* is prepared, the second locked, and the block of the third executed.    *)
(* s is the slot of the first.  Reading hash_to_QC inserts absent keys.    *)
update_lockQC(c, QC, v, s) ==
  LET map == c.hash_to_QC
      B2  == map[QC.parent_hash]
      B3  == map[B2.parent_hash]
      one   == QC.viewNumber + 1 = v
      two   == one /\ B2.viewNumber + 2 = v
      three == two /\ B3.viewNumber + 3 = v
      keys  == c.keys \cup {QC.parent_hash, B2.parent_hash}
                      \cup (IF three THEN {B3.batch_hash} ELSE {})
      sent  == IF three THEN send_execute_msg_hotstuff(map, keys, s - 2) ELSE {}
  IN  [hash_to_QC   |-> [h \in Hash |-> IF h \in sent THEN DefaultQC ELSE map[h]],
       keys         |-> keys \ sent,
       g_preparedQC |-> IF one THEN Newer(QC, c.g_preparedQC) ELSE c.g_preparedQC,
       g_lockedQC   |-> IF two THEN Newer(B2, c.g_lockedQC) ELSE c.g_lockedQC,
       executes     |-> [h \in Hash |-> IF h \in sent THEN c.executes[h] + 1 ELSE c.executes[h]]]

StoreQC(c, QC) ==
  [hash_to_QC   |-> [c.hash_to_QC EXCEPT ![QC.batch_hash] = QC],
   keys         |-> c.keys \cup {QC.batch_hash},
   g_preparedQC |-> c.g_preparedQC,
   g_lockedQC   |-> c.g_lockedQC,
   executes     |-> c.executes]

(* Mutant: the certificate gets the view that is entered.                  *)
GenericQC_NextView(v, s, high) ==
  [genesis |-> FALSE, viewNumber |-> IF high.genesis THEN 0 ELSE v + 1,
   batch_hash |-> s, parent_hash |-> high.batch_hash]

(* The certificate advance_view makes for slot s of view v from the        *)
(* GENERIC's certificate, and what becomes of the chain.                   *)
GenericQC(v, s, high) ==
  [genesis |-> FALSE, viewNumber |-> IF high.genesis THEN 0 ELSE v,
   batch_hash |-> s, parent_hash |-> high.batch_hash]
-----------------------------------------------------------------------------
(* Pieces of the handlers. *)

(* In the build with SpotLess_FAIL the instance threads of a faulty        *)
(* replica drop every message once the replica has reached CRASH_VIEW; its *)
(* proposal thread and its batch thread go on.  The second conjunct bounds *)
(* the views.                                                              *)
Crashed(r) == r \in Faulty /\ view[r] >= CRASH_VIEW
Running(r) == ~Crashed(r) /\ view[r] \in Slot

(* The timer of the view entered: none for its primary, none without       *)
(* SpotLess_FAIL.                                                          *)
setTimer(r, v) ==
  waiting' = [waiting EXCEPT ![r] = IF r = get_view_primary(v) THEN @ ELSE Faulty # {}]

(* Every parked message goes back to the work queue. *)
reenqueue(r) == temp_queue' = [temp_queue EXCEPT ![r] = {}]

(* Mutant: parked messages stay parked.                                    *)
set_view_NoReenqueue(r, v) ==
  /\ view' = [view EXCEPT ![r] = v]
  /\ setTimer(r, v)
  /\ UNCHANGED temp_queue

(* A new view, and the timer that the callers of set_view set with it.     *)
set_view(r, v) ==
  /\ view' = [view EXCEPT ![r] = v]
  /\ reenqueue(r)
  /\ setTimer(r, v)

(* The end of a handler on slot s: with PROPOSAL, GENERIC and nf votes the *)
(* replica advances, from whatever view it is in; w is the state of the    *)
(* timer and c the chain where it does not.                                *)
advance_view(r, s, ready, c, high, w) ==
  IF ready
  THEN /\ LET QC == GenericQC(view[r], s, high) IN
          \E stored \in {StoreQC(c, QC)} :
            chain' = [chain EXCEPT ![r] = update_lockQC(stored, QC, view[r] + 1, s)]
       /\ set_view(r, view[r] + 1)
  ELSE /\ chain' = [chain EXCEPT ![r] = c]
       /\ waiting' = [waiting EXCEPT ![r] = w]
       /\ UNCHANGED <<view, temp_queue>>

(* Adding a vote to a slot: the nf-th sets new_viewed, and from then on    *)
(* the voters are not looked at again (the model drops them).              *)
Quorum(r, s, q) == s \notin new_viewed[r] /\ Cardinality(hash_voters[r][s] \cup {q}) = nf

AddVote(r, s, q) ==
  /\ new_viewed' = [new_viewed EXCEPT ![r] = IF Quorum(r, s, q) THEN @ \cup {s} ELSE @]
  /\ hash_voters' = [hash_voters EXCEPT ![r][s] =
                       IF Quorum(r, s, q) \/ s \in new_viewed[r] THEN {} ELSE @ \cup {q}]

(* The replica's own vote, broadcast once, with its current view.          *)
send_hotstuff_newview(r, s) ==
  IF s \in sync_sent[r] THEN UNCHANGED <<syncs, sync_sent, new_viewed, hash_voters>>
  ELSE /\ sync_sent' = [sync_sent EXCEPT ![r] = @ \cup {s}]
       /\ syncs' = syncs \cup {[slot |-> s, view |-> view[r], src |-> r]}
       /\ AddVote(r, s, r)
-----------------------------------------------------------------------------
(* The proposal thread and the batch thread. *)

(* The proposal thread takes a client batch for the next view this replica *)
(* leads (ROUNDS_IN_ADVANCE = 0) and broadcasts it; client batches are     *)
(* always at hand.                                                         *)
Propose(r) ==
  LET v == next_send_view[r] IN
  /\ v <= view[r] /\ v \in Slot
  /\ proposals' = proposals \cup {v}
  /\ proposal_received' = [proposal_received EXCEPT ![r] = @ \cup {v}]
  /\ last_sent_view' = [last_sent_view EXCEPT ![r] = v]
  /\ next_send_view' = [next_send_view EXCEPT ![r] = @ + NODE_CNT]
  /\ incomplete_proposal_cnt' = [incomplete_proposal_cnt EXCEPT ![r] = @ + 1]
  /\ UNCHANGED <<generics, syncs, non_votes, view, chain, skips, temp_queue, generic_received,
                 sync_sent, new_viewed, hash_voters, highQC, waiting, fault_voters>>

(* Mutant: the GENERIC carries the locked certificate.                     *)
process_hotstuff_generic_p_Locked(r) ==
  LET s == last_sent_view[r]
      high == chain[r].g_lockedQC
  IN
  /\ incomplete_proposal_cnt[r] # 0
  /\ view[r] \in Slot /\ get_view_primary(view[r]) = r
  /\ incomplete_proposal_cnt' = [incomplete_proposal_cnt EXCEPT ![r] = @ - 1]
  /\ generics' = generics \cup {[slot |-> s, view |-> view[r], src |-> r, highQC |-> high]}
  /\ highQC' = [highQC EXCEPT ![r][s] = high]
  /\ generic_received' = [generic_received EXCEPT ![r] = @ \cup {s}]
  /\ send_hotstuff_newview(r, s)
  /\ UNCHANGED <<proposals, non_votes, view, chain, skips, temp_queue, proposal_received,
                 next_send_view, last_sent_view, waiting, fault_voters>>

(* The batch thread sends the GENERIC of the last proposal when the        *)
(* replica leads its current view, and votes.                              *)
process_hotstuff_generic_p(r) ==
  LET s == last_sent_view[r]
      high == chain[r].g_preparedQC
  IN
  /\ incomplete_proposal_cnt[r] # 0
  /\ view[r] \in Slot /\ get_view_primary(view[r]) = r
  /\ incomplete_proposal_cnt' = [incomplete_proposal_cnt EXCEPT ![r] = @ - 1]
  /\ generics' = generics \cup {[slot |-> s, view |-> view[r], src |-> r, highQC |-> high]}
  /\ highQC' = [highQC EXCEPT ![r][s] = high]
  /\ generic_received' = [generic_received EXCEPT ![r] = @ \cup {s}]
  /\ send_hotstuff_newview(r, s)
  /\ UNCHANGED <<proposals, non_votes, view, chain, skips, temp_queue, proposal_received,
                 next_send_view, last_sent_view, waiting, fault_voters>>
-----------------------------------------------------------------------------
(* The instance thread. *)

(* Mutant: a proposal that comes last does not take the replica on.        *)
process_hotstuff_proposal_NoAdvance(r, s) ==
  /\ Running(r) /\ s <= view[r] + Ahead
  /\ s \in proposals \ proposal_received[r]
  /\ proposal_received' = [proposal_received EXCEPT ![r] = @ \cup {s}]
  /\ UNCHANGED <<network, view, chain, skips, temp_queue, generic_received, sync_sent, new_viewed,
                 hash_voters, highQC, sending, waiting, fault_voters>>

process_hotstuff_proposal(r, s) ==
  /\ Running(r) /\ s <= view[r] + Ahead
  /\ s \in proposals \ proposal_received[r]
  /\ proposal_received' = [proposal_received EXCEPT ![r] = @ \cup {s}]
  /\ advance_view(r, s, s \in new_viewed[r] \cap generic_received[r],
                  chain[r], highQC[r][s], waiting[r])
  /\ UNCHANGED <<network, skips, generic_received, sync_sent, new_viewed, hash_voters, highQC,
                 sending, fault_voters>>

(* A GENERIC of a later view waits in temp_queue for the next set_view.    *)
check_view(r, m) ==
  /\ Running(r) /\ m.src # r
  /\ m.view > view[r] /\ m.view <= view[r] + Ahead
  /\ m.view \notin temp_queue[r]
  /\ temp_queue' = [temp_queue EXCEPT ![r] = @ \cup {m.view}]
  /\ UNCHANGED <<network, view, chain, skips, txnMan, sending, waiting, fault_voters>>

process_hotstuff_generic(r, m) ==
  LET s  == m.slot
      c1 == StoreQC(chain[r], m.highQC)
      c2 == IF m.highQC.viewNumber > chain[r].g_preparedQC.viewNumber
            THEN update_lockQC(c1, m.highQC, m.view, s - 1) ELSE c1
      voted == s \in new_viewed[r] \/ (s \notin sync_sent[r] /\ Quorum(r, s, r))
  IN
  /\ Running(r)
  /\ m.view <= view[r] /\ m.view \notin temp_queue[r]
  /\ s \notin generic_received[r]
  /\ get_view_primary(view[r]) = m.src
  /\ SafeNode(chain[r], m.highQC)
  /\ highQC' = [highQC EXCEPT ![r][s] = m.highQC]
  /\ generic_received' = [generic_received EXCEPT ![r] = @ \cup {s}]
  /\ send_hotstuff_newview(r, s)
  /\ advance_view(r, s, voted /\ s \in proposal_received[r], c2, m.highQC, FALSE)
  /\ UNCHANGED <<proposals, generics, non_votes, skips, proposal_received, sending, fault_voters>>

(* A vote of another replica: late ones are dropped, early ones counted.   *)
process_hotstuff_new_view(r, m) ==
  LET s == m.slot IN
  /\ Running(r) /\ m.src # r
  /\ m.view >= view[r] /\ m.view <= view[r] + Ahead
  /\ s \notin new_viewed[r] /\ m.src \notin hash_voters[r][s]
  /\ AddVote(r, s, m.src)
  /\ advance_view(r, s, Quorum(r, s, m.src) /\ s \in proposal_received[r] \cap generic_received[r],
                  chain[r], highQC[r][s], waiting[r])
  /\ UNCHANGED <<network, skips, proposal_received, generic_received, sync_sent, highQC,
                 sending, fault_voters>>
-----------------------------------------------------------------------------
(* Giving up a view, in the build with SpotLess_FAIL and TIMER_MANAGER. *)

(* With q, nf replicas are against view w.                                 *)
sufficient_voters(r, w, q) == Cardinality(fault_voters[r][w] \cup {q}) >= nf

(* check_timers looks only at views led by a replica in Faulty, and        *)
(* check_time_out only beyond CRASH_VIEW; time itself is not modelled.     *)
check_timers(r) == waiting[r] /\ view[r] > CRASH_VIEW /\ get_view_primary(view[r]) \in Faulty

(* Mutant: f + 1 votes give a view up.                                     *)
advance_failed_view_FPlusOne(r, w, q, running) ==
  /\ fault_voters' = [fault_voters EXCEPT ![r][w] = @ \cup {q}]
  /\ IF Cardinality(fault_voters[r][w] \cup {q}) >= g_min_invalid_nodes + 1
     THEN /\ skips' = [skips EXCEPT ![r][w] = @ + 1]
          /\ set_view(r, w + 1)
     ELSE /\ waiting' = [waiting EXCEPT ![r] = running]
          /\ UNCHANGED <<skips, view, temp_queue>>

(* Mutant: the EXECUTE without a batch is for the slot before.             *)
advance_failed_view_SlotBefore(r, w, q, running) ==
  /\ fault_voters' = [fault_voters EXCEPT ![r][w] = @ \cup {q}]
  /\ IF sufficient_voters(r, w, q)
     THEN /\ skips' = [skips EXCEPT ![r][w - 1] = @ + 1]
          /\ set_view(r, w + 1)
     ELSE /\ waiting' = [waiting EXCEPT ![r] = running]
          /\ UNCHANGED <<skips, view, temp_queue>>

(* The vote of q against view w; the nf-th gives up w, whatever the        *)
(* replica's view is, and hands an EXECUTE without a batch to the          *)
(* execution thread.                                                       *)
advance_failed_view(r, w, q, running) ==
  /\ fault_voters' = [fault_voters EXCEPT ![r][w] = @ \cup {q}]
  /\ IF sufficient_voters(r, w, q)
     THEN /\ skips' = [skips EXCEPT ![r][w] = @ + 1]
          /\ set_view(r, w + 1)
     ELSE /\ waiting' = [waiting EXCEPT ![r] = running]
          /\ UNCHANGED <<skips, view, temp_queue>>

(* Mutant: the replica does not count its own vote against the view.       *)
send_failed_new_view_NoOwnVote(r) ==
  LET w == view[r] IN
  /\ r \notin Faulty /\ w \in Slot
  /\ check_timers(r)
  /\ non_votes' = non_votes \cup {[view |-> w, src |-> r]}
  /\ waiting' = [waiting EXCEPT ![r] = FALSE]
  /\ UNCHANGED <<proposals, generics, syncs, view, chain, skips, temp_queue, txnMan, sending,
                 fault_voters>>

(* The timer expires.                                                      *)
send_failed_new_view(r) ==
  LET w == view[r] IN
  /\ r \notin Faulty /\ w \in Slot
  /\ check_timers(r)
  /\ non_votes' = non_votes \cup {[view |-> w, src |-> r]}
  /\ IF Cardinality(fault_voters[r][w]) >= nf
     THEN /\ waiting' = [waiting EXCEPT ![r] = FALSE]
          /\ UNCHANGED <<skips, view, temp_queue, fault_voters>>
     ELSE advance_failed_view(r, w, r, FALSE)
  /\ UNCHANGED <<proposals, generics, syncs, chain, txnMan, sending>>

process_failed_new_view(r, m) ==
  /\ Running(r) /\ m.src # r
  /\ m.view >= view[r] /\ m.view <= view[r] + Ahead
  /\ Cardinality(fault_voters[r][m.view]) < nf /\ m.src \notin fault_voters[r][m.view]
  /\ advance_failed_view(r, m.view, m.src, waiting[r])
  /\ UNCHANGED <<network, chain, txnMan, sending>>
-----------------------------------------------------------------------------
ReplicaNext(r) ==
  \/ Propose(r)
  \/ process_hotstuff_generic_p(r)
  \/ \E s \in proposals : process_hotstuff_proposal(r, s)
  \/ \E m \in generics : check_view(r, m)
  \/ \E m \in generics : process_hotstuff_generic(r, m)
  \/ \E m \in syncs : process_hotstuff_new_view(r, m)
  \/ send_failed_new_view(r)
  \/ \E m \in non_votes : process_failed_new_view(r, m)

Next == \E r \in Replica : ReplicaNext(r)

Spec == Init /\ [][Next]_vars

(* The system does not stop while a thread has a message to take, a batch  *)
(* to send or a timer to expire.  No fairness between the threads or the   *)
(* messages is assumed: views are bounded and each step uses something up. *)
FairSpec == Spec /\ WF_vars(Next)
-----------------------------------------------------------------------------
Correct == Replica \ Faulty

Voters(v)   == {q \in Replica : \E m \in syncs : m.slot = v /\ m.src = q}
Deniers(v)  == {q \in Replica : [view |-> v, src |-> q] \in non_votes}
Executed(r) == {s \in Slot : chain[r].executes[s] > 0}
Settled(r)  == Executed(r) \cup {s \in Slot : skips[r][s] > 0}

(* A replica leaves a view only behind a quorum: nf replicas voted for the *)
(* slot of every view it has passed, or nf replicas gave the view up.      *)
(* Votes are counted out of order and for later views, so the count and    *)
(* the view it takes a replica out of may come apart.                      *)
ViewQuorum ==
  \A r \in Replica, v \in Slot :
    v < view[r] => Cardinality(Voters(v)) >= nf \/ Cardinality(Deniers(v)) >= nf

(* The lock behind a commit: when send_execute_msg_hotstuff has enqueued   *)
(* the block of slot v anywhere, nf replicas have locked view v or a later *)
(* one, so that SafeNode of those replicas refuses any branch without v.   *)
CommitLocked ==
  \A r \in Replica : \A v \in Executed(r) :
    Cardinality({q \in Replica : /\ ~chain[q].g_lockedQC.genesis
                                 /\ chain[q].g_lockedQC.viewNumber >= v}) >= nf

(* The execution thread waits for each slot in turn, so every slot must    *)
(* reach it once: never twice, never as a batch on one replica and as      *)
(* given up on another.                                                    *)
Agreement ==
  \A s \in Slot :
    /\ \A r \in Replica : chain[r].executes[s] + skips[r][s] <= 1
    /\ \A q, r \in Replica : ~(s \in Executed(q) /\ skips[r][s] > 0)

(* A certified block is never orphaned: every GENERIC of a later view      *)
(* carries a certificate at least as recent, also when the views between   *)
(* were given up.  An orphaned block would never be executed.              *)
NoOrphan ==
  \A m \in generics, v \in Slot :
    v < m.view /\ Cardinality(Voters(v)) >= nf
      => ~m.highQC.genesis /\ m.highQC.viewNumber >= v

(* The GENERIC of the view a replica is in gets through: it is not left    *)
(* behind in temp_queue, comes from the primary and is safe.  A GENERIC is *)
(* sent once, so a replica that refuses or misplaces it stays in its view. *)
GenericAccepted ==
  \A r \in Correct : \A m \in generics :
    m.view = view[r] /\ m.slot \notin generic_received[r]
      => /\ m.src # r => m.view \notin temp_queue[r]
         /\ get_view_primary(view[r]) = m.src
         /\ SafeNode(chain[r], m.highQC)

(* The proposal thread and the batch thread agree: the GENERIC sent in a   *)
(* view is for the slot proposed for that view, and a vote is cast in the  *)
(* view of its slot, although last_sent_view, incomplete_proposal_cnt and  *)
(* the view are read at different times by different threads.              *)
SlotOfView ==
  /\ \A m \in generics : m.slot = m.view /\ m.slot \in proposals
  /\ \A m \in syncs : m.slot = m.view

(* A replica that is to execute a block has the block's transactions.      *)
BatchKnown == \A r \in Replica : Executed(r) \subseteq proposal_received[r]

(* Three consecutive views with primaries that do not crash.               *)
Committing(s) ==
  s + 2 \in Slot /\ \A v \in s .. s + 2 : get_view_primary(v) \in Correct

(* Every correct replica leaves every view, and a block followed by two    *)
(* more views with correct primaries reaches the execution thread of every *)
(* correct replica, together with all slots before it.                     *)
AllExecuted ==
  <>(\A r \in Correct :
       /\ view[r] = MaxView + 1
       /\ \A s \in Slot : Committing(s) => s \in Executed(r) /\ 0 .. s \subseteq Settled(r))
-----------------------------------------------------------------------------
(* What the execution thread makes of the EXECUTE messages: the slots in   *)
(* order, as far as there is no gap.                                       *)
NoBatch == -2

Ledger(r) ==
  LET n == CHOOSE k \in 0 .. MaxView + 1 :
             /\ 0 .. (k - 1) \subseteq Settled(r)
             /\ k \notin Settled(r)
  IN  [i \in 1 .. n |-> IF i - 1 \in Executed(r) THEN i - 1 ELSE NoBatch]

Log == INSTANCE ReplicatedLog WITH Entry <- Slot \cup {NoBatch}, ledger <- [r \in Replica |-> Ledger(r)]

(* The instance is one log: each replica's ledger only grows, and any two  *)
(* agree as far as both reach.                                             *)
ReplicatedLog == Log!Spec
=============================================================================

---------------------------- MODULE SpotLessInv ----------------------------
(***************************************************************************)
(* The inductive invariant behind the safety of SpotLess.  Which views are *)
(* certified and which are given up is determined by Faulty and            *)
(* CRASH_VIEW, so what a replica knows of the chain is a function of the   *)
(* view it is in, also when the views of silent primaries were skipped.    *)
(***************************************************************************)
EXTENDS SpotLess

(* The silent replicas the build with SpotLess_FAIL has in a deployment    *)
(* its constants are made for: never two in a row in the rotation of the   *)
(* primaries, and, if there are any, so many that every replica left is    *)
(* needed for a quorum.  The default build has none.                       *)
Tolerated ==
  /\ \A r \in Faulty : (r + 1) % NODE_CNT \notin Faulty
  /\ Faulty # {} => Cardinality(Correct) <= nf

(* The views whose primary is silent; every other view is certified before *)
(* a replica leaves it.  Prev(v) is the certified view before v.           *)
Dead(v) == v > CRASH_VIEW /\ get_view_primary(v) \in Faulty
Prev(v) == IF Dead(v - 1) THEN v - 2 ELSE v - 1

Two(a)   == ~Dead(a) /\ ~Dead(a + 1)
Three(a) == ~Dead(a) /\ ~Dead(a + 1) /\ ~Dead(a + 2)

(* Three certified views in a row, the first not before h, end before u.   *)
Committed(u, h) == \E a \in Slot : Three(a) /\ a + 3 <= u /\ h <= a

(* The certificate of view v, and what a replica that has just entered     *)
(* view u keeps: the last certificate is prepared, everything committed    *)
(* was executed once and erased, and the last view followed directly by    *)
(* another certified view is locked.                                       *)
QCAt(v) == IF v = Genesis THEN GenesisQC
           ELSE [genesis |-> FALSE, viewNumber |-> v, batch_hash |-> v, parent_hash |-> Prev(v)]

KeysAt(u) == {h \in Hash : h < u /\ ~Dead(h) /\ ~Committed(u, h)}
MapAt(u)  == [h \in Hash |-> IF h \in KeysAt(u) THEN QCAt(h) ELSE DefaultQC]
ExecAt(u) == [h \in Hash |-> IF ~Dead(h) /\ Committed(u, h) THEN 1 ELSE 0]

LockAt(QC, u) ==
  \/ QC = GenesisQC /\ \A a \in Slot : Two(a) => a + 2 > u
  \/ \E a \in Slot : /\ QC = QCAt(a) /\ Two(a) /\ a + 2 <= u
                     /\ \A b \in Slot : Two(b) /\ b + 2 <= u => b <= a

ChainAt(c, u) ==
  /\ c.hash_to_QC = MapAt(u) /\ c.keys = KeysAt(u)
  /\ c.g_preparedQC = QCAt(Prev(u)) /\ LockAt(c.g_lockedQC, u)
  /\ c.executes = ExecAt(u)

(* A silent replica that lagged behind when its messages were still taken  *)
(* can be lifted over the views in between by votes against a later view:  *)
(* its chain stays at the view it came from.                               *)
Lost(r) == r \in Faulty /\ view[r] > CRASH_VIEW
At(r)   == IF ~Lost(r) THEN view[r]
           ELSE IF chain[r].g_preparedQC.genesis THEN 0 ELSE chain[r].g_preparedQC.viewNumber + 1

ChainInv ==
  \A r \in Replica :
    /\ ChainAt(chain[r], At(r))
    /\ Lost(r) => At(r) <= CRASH_VIEW /\ get_view_primary(view[r]) \notin Faulty

(* Only views of silent primaries are given up, each once, by replicas     *)
(* that have got there; who counts a vote against a view, counts a real one. *)
FailInv ==
  /\ \A m \in non_votes : m.src \in Correct /\ Dead(m.view) /\ m.view <= view[m.src]
  /\ \A r \in Replica, s \in Slot :
       /\ fault_voters[r][s] \subseteq Deniers(s)
       /\ skips[r][s] <= 1
       /\ skips[r][s] > 0 => Dead(s) /\ s < view[r]
       /\ Dead(s) /\ s < At(r) => skips[r][s] = 1

(* Each GENERIC is for the slot of its view, by its primary, on top of the *)
(* last certificate.                                                       *)
GenericInv ==
  \A m \in generics :
    /\ m.slot = m.view /\ m.slot \in proposals /\ ~Dead(m.slot)
    /\ m.src = get_view_primary(m.slot)
    /\ m.highQC = QCAt(Prev(m.slot))

(* What a replica has seen of a slot, against its view. *)
PassedInv ==
  \A r \in Replica, s \in Slot :
    s < At(r) /\ ~Dead(s)
      => s \in generic_received[r] /\ s \in proposal_received[r] /\ s \in new_viewed[r]

ReceivedInv ==
  \A r \in Replica : \A s \in generic_received[r] :
    /\ s <= At(r)
    /\ highQC[r][s] = QCAt(Prev(s))
    /\ \E m \in generics : m.slot = s

ParkedInv == \A r \in Replica : \A v \in temp_queue[r] : v > view[r]

(* Votes are real: those counted were sent, each after its GENERIC. *)
VoteInv ==
  /\ \A m \in syncs : m.slot = m.view /\ m.slot \in generic_received[m.src]
  /\ \A r \in Replica, s \in Slot : hash_voters[r][s] \subseteq Voters(s)
  /\ \A r \in Replica : \A s \in new_viewed[r] : Cardinality(Voters(s)) >= nf

(* At most one proposal waits for its GENERIC, and it is for a view no     *)
(* replica can have passed; a replica that was lifted sends no GENERIC.    *)
SendInv ==
  \A r \in Replica :
    /\ get_view_primary(next_send_view[r]) = r
    /\ \A m \in generics : m.src = r => m.slot < next_send_view[r]
    /\ incomplete_proposal_cnt[r] # 0 /\ ~Lost(r) =>
         /\ incomplete_proposal_cnt[r] = 1
         /\ last_sent_view[r] <= view[r]
         /\ last_sent_view[r] \in proposals
         /\ next_send_view[r] = last_sent_view[r] + NODE_CNT
         /\ get_view_primary(last_sent_view[r]) = r
         /\ \A m \in generics : m.slot # last_sent_view[r]

(* The inductive invariant: advance_view, update_lockQC, the votes against *)
(* a view and the threads that send PROPOSAL and GENERIC keep the chain of *)
(* every replica in step with its view.                                    *)
LinearChain ==
  ChainInv /\ FailInv /\ ViewQuorum /\ GenericInv /\ PassedInv /\ ReceivedInv /\ ParkedInv
    /\ VoteInv /\ SendInv
=============================================================================

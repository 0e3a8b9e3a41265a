--------------------------- MODULE SpotLessProofs ---------------------------
(***************************************************************************)
(* SpotLess, for every number of replicas, every instance, every           *)
(* CRASH_VIEW and every bound on the views.  First its types, and facts    *)
(* about its operators: the rotation of the primaries, and what            *)
(* advance_view and update_lockQC make of the chain of a replica that goes *)
(* from view v to view v + 1.  Then safety, with no silent replica or with *)
(* the ones Tolerated describes: LinearChain is an inductive invariant,    *)
(* and the safety properties and the refinement follow from it.            *)
(***************************************************************************)
EXTENDS SpotLessInv, Sequences, FiniteSetTheorems, WellFoundedInduction, TLAPS

(* Operators on certificates keep their types. *)
LEMMA QCTypes ==
  /\ GenesisQC \in QuorumCertificate
  /\ DefaultQC \in QuorumCertificate
  /\ Slot \subseteq Hash /\ Slot \subseteq Nat /\ Genesis \in Hash /\ Genesis \notin Slot
  /\ 0 \in Slot /\ MaxView \in Nat
  BY ConstantsAssumption DEF GenesisQC, DefaultQC, QuorumCertificate, Slot, Hash, Genesis

(* Entering a certificate in hash_to_QC keeps the record well formed. *)
LEMMA StoreQCType ==
  ASSUME NEW c \in Chain, NEW QC \in QuorumCertificate
  PROVE  StoreQC(c, QC) \in Chain
  BY DEF StoreQC, Chain, QuorumCertificate

(* The certificate advance_view makes is well formed. *)
LEMMA GenericQCType ==
  ASSUME NEW v \in Slot, NEW s \in Slot, NEW high \in QuorumCertificate
  PROVE  GenericQC(v, s, high) \in QuorumCertificate
  BY QCTypes DEF GenericQC, QuorumCertificate

(* set_g_preparedQC and set_g_lockedQC keep a certificate a certificate. *)
LEMMA NewerType ==
  ASSUME NEW QC \in QuorumCertificate, NEW old \in QuorumCertificate
  PROVE  Newer(QC, old) \in QuorumCertificate
  BY DEF Newer

(* update_lockQC keeps the record well formed, whatever it executes. *)
LEMMA UpdateLockType ==
  ASSUME NEW c \in Chain, NEW QC \in QuorumCertificate, NEW v, NEW s
  PROVE  update_lockQC(c, QC, v, s) \in Chain
<1> DEFINE map == c.hash_to_QC
           B2  == map[QC.parent_hash]
           B3  == map[B2.parent_hash]
           one   == QC.viewNumber + 1 = v
           two   == one /\ B2.viewNumber + 2 = v
           three == two /\ B3.viewNumber + 3 = v
           keys  == c.keys \cup {QC.parent_hash, B2.parent_hash}
                           \cup (IF three THEN {B3.batch_hash} ELSE {})
           sent  == IF three THEN send_execute_msg_hotstuff(map, keys, s - 2) ELSE {}
           prep  == IF one THEN Newer(QC, c.g_preparedQC) ELSE c.g_preparedQC
           lock  == IF two THEN Newer(B2, c.g_lockedQC) ELSE c.g_lockedQC
           map2  == [h \in Hash |-> IF h \in sent THEN DefaultQC ELSE map[h]]
           exec2 == [h \in Hash |-> IF h \in sent THEN c.executes[h] + 1 ELSE c.executes[h]]
<1>1. /\ map \in [Hash -> QuorumCertificate] /\ c.keys \subseteq Hash
      /\ c.g_preparedQC \in QuorumCertificate /\ c.g_lockedQC \in QuorumCertificate
      /\ c.executes \in [Hash -> Nat]
  BY DEF Chain
<1>2. QC.parent_hash \in Hash
  BY DEF QuorumCertificate
<1>3. B2 \in QuorumCertificate /\ B2.parent_hash \in Hash
  BY <1>1, <1>2 DEF QuorumCertificate
<1>4. B3 \in QuorumCertificate /\ B3.batch_hash \in Hash
  BY <1>1, <1>3 DEF QuorumCertificate
<1>5. keys \ sent \subseteq Hash
  BY <1>1, <1>2, <1>3, <1>4
<1>6. prep \in QuorumCertificate /\ lock \in QuorumCertificate
  BY <1>1, <1>3, NewerType
<1>7. map2 \in [Hash -> QuorumCertificate]
  BY <1>1, QCTypes
<1>8. exec2 \in [Hash -> Nat]
  BY <1>1
<1>9. update_lockQC(c, QC, v, s) =
        [hash_to_QC |-> map2, keys |-> keys \ sent, g_preparedQC |-> prep, g_lockedQC |-> lock,
         executes |-> exec2]
  BY DEF update_lockQC
<1> HIDE DEF map2, keys, sent, prep, lock, exec2
<1>10. QED
  BY <1>5, <1>6, <1>7, <1>8, <1>9 DEF Chain

-----------------------------------------------------------------------------
(* Pieces of the handlers keep the types of the variables they assign. *)

(* set_view keeps view, temp_queue and timer in their types. *)
LEMMA SetViewType ==
  ASSUME TypeOK, NEW r \in Replica, NEW v \in Slot, set_view(r, v + 1)
  PROVE  /\ view' \in [Replica -> 0 .. MaxView + 1]
         /\ temp_queue' \in [Replica -> SUBSET Slot]
         /\ waiting' \in [Replica -> BOOLEAN]
<1>1. v + 1 \in 0 .. MaxView + 1
  BY ConstantsAssumption DEF Slot
<1>2. view' \in [Replica -> 0 .. MaxView + 1]
  BY <1>1 DEF TypeOK, set_view, reenqueue, setTimer
<1>3. temp_queue' \in [Replica -> SUBSET Slot]
  BY DEF TypeOK, set_view, reenqueue, setTimer
<1>4. waiting' \in [Replica -> BOOLEAN]
  <2> DEFINE b == IF r = get_view_primary(v + 1) THEN waiting[r] ELSE Faulty # {}
  <2>1. waiting \in [Replica -> BOOLEAN] /\ waiting' = [waiting EXCEPT ![r] = b]
    BY DEF TypeOK, set_view, reenqueue, setTimer
  <2>2. b \in BOOLEAN
    BY <2>1
  <2> HIDE DEF b
  <2>3. QED
    BY <2>1, <2>2
<1>5. QED
  BY <1>2, <1>3, <1>4

(* advance_view, taken or not, keeps chain and view in their types. *)
LEMMA AdvanceViewType ==
  ASSUME TypeOK, NEW r \in Replica, NEW s \in Slot, NEW ready \in BOOLEAN, NEW c \in Chain,
         NEW high \in QuorumCertificate, NEW w \in BOOLEAN, view[r] \in Slot,
         advance_view(r, s, ready, c, high, w)
  PROVE  /\ chain' \in [Replica -> Chain]
         /\ view' \in [Replica -> 0 .. MaxView + 1]
         /\ temp_queue' \in [Replica -> SUBSET Slot]
         /\ waiting' \in [Replica -> BOOLEAN]
<1>1. CASE ready
  <2> DEFINE QC == GenericQC(view[r], s, high)
             new == update_lockQC(StoreQC(c, QC), QC, view[r] + 1, s)
  <2>1. chain' = [chain EXCEPT ![r] = new] /\ set_view(r, view[r] + 1)
    BY <1>1 DEF advance_view
  <2>2. QC \in QuorumCertificate
    BY GenericQCType
  <2>3. new \in Chain
    BY <2>2, StoreQCType, UpdateLockType
  <2> HIDE DEF new
  <2>4. chain' \in [Replica -> Chain]
    BY <2>1, <2>3 DEF TypeOK
  <2>5. QED
    BY <2>1, <2>4, SetViewType
<1>2. CASE ~ready
  <2>1. /\ chain' = [chain EXCEPT ![r] = c]
        /\ waiting' = [waiting EXCEPT ![r] = w]
        /\ view' = view /\ temp_queue' = temp_queue
    BY <1>2 DEF advance_view
  <2>2. QED
    BY <2>1 DEF TypeOK
<1>3. QED
  BY <1>1, <1>2

(* Counting a vote keeps the voters of a slot a set of replicas. *)
LEMMA AddVoteType ==
  ASSUME TypeOK, NEW r \in Replica, NEW s \in Slot, NEW q \in Replica, AddVote(r, s, q)
  PROVE  /\ new_viewed' \in [Replica -> SUBSET Slot]
         /\ hash_voters' \in [Replica -> [Slot -> SUBSET Replica]]
  BY DEF TypeOK, AddVote

(* send_hotstuff_newview sends a SYNC for a slot and a view in bounds. *)
LEMMA SendNewViewType ==
  ASSUME TypeOK, NEW r \in Replica, NEW s \in Slot, view[r] \in Slot, send_hotstuff_newview(r, s)
  PROVE  /\ syncs' \subseteq SyncMsg
         /\ sync_sent' \in [Replica -> SUBSET Slot]
         /\ new_viewed' \in [Replica -> SUBSET Slot]
         /\ hash_voters' \in [Replica -> [Slot -> SUBSET Replica]]
<1>1. CASE s \in sync_sent[r]
  BY <1>1 DEF TypeOK, send_hotstuff_newview
<1>2. CASE s \notin sync_sent[r]
  <2>1. AddVote(r, s, r)
    BY <1>2 DEF send_hotstuff_newview
  <2>2. [slot |-> s, view |-> view[r], src |-> r] \in SyncMsg
    BY DEF SyncMsg
  <2>3. /\ new_viewed' \in [Replica -> SUBSET Slot]
        /\ hash_voters' \in [Replica -> [Slot -> SUBSET Replica]]
    BY <2>1, AddVoteType
  <2>4. /\ sync_sent' = [sync_sent EXCEPT ![r] = @ \cup {s}]
        /\ syncs' = syncs \cup {[slot |-> s, view |-> view[r], src |-> r]}
    BY <1>2 DEF send_hotstuff_newview
  <2>5. syncs' \subseteq SyncMsg
    BY <2>2, <2>4 DEF TypeOK
  <2>6. sync_sent' \in [Replica -> SUBSET Slot]
    BY <2>4 DEF TypeOK
  <2>7. QED
    BY <2>3, <2>5, <2>6
<1>3. QED
  BY <1>1, <1>2

(* Giving a view up keeps the types, from whatever view it is done. *)
LEMMA AdvanceFailedViewType ==
  ASSUME TypeOK, NEW r \in Replica, NEW w \in Slot, NEW q \in Replica, NEW running \in BOOLEAN,
         advance_failed_view(r, w, q, running)
  PROVE  /\ fault_voters' \in [Replica -> [Slot -> SUBSET Replica]]
         /\ skips' \in [Replica -> [Slot -> Nat]]
         /\ view' \in [Replica -> 0 .. MaxView + 1]
         /\ temp_queue' \in [Replica -> SUBSET Slot]
         /\ waiting' \in [Replica -> BOOLEAN]
<1> DEFINE voters == fault_voters[r][w] \cup {q}
<1>1. fault_voters' \in [Replica -> [Slot -> SUBSET Replica]]
  BY DEF TypeOK, advance_failed_view
<1>2. CASE Cardinality(voters) >= nf
  <2>1. skips' = [skips EXCEPT ![r][w] = @ + 1] /\ set_view(r, w + 1)
    BY <1>2 DEF advance_failed_view, sufficient_voters
  <2>2. skips' \in [Replica -> [Slot -> Nat]]
    BY <2>1 DEF TypeOK
  <2>3. QED
    BY <1>1, <2>1, <2>2, SetViewType
<1>3. CASE ~(Cardinality(voters) >= nf)
  <2>1. /\ waiting' = [waiting EXCEPT ![r] = running]
        /\ skips' = skips /\ view' = view /\ temp_queue' = temp_queue
    BY <1>3 DEF advance_failed_view, sufficient_voters
  <2>2. QED
    BY <1>1, <2>1 DEF TypeOK
<1>4. QED
  BY <1>2, <1>3
-----------------------------------------------------------------------------
(* Every handler keeps TypeOK. *)

(* The state parser sets up is well typed. *)
LEMMA InitType == Init => TypeOK
<1> SUFFICES ASSUME Init PROVE TypeOK
  OBVIOUS
<1>1. chain \in [Replica -> Chain]
  BY QCTypes DEF Init, Chain
<1>2. next_send_view \in [Replica -> Nat]
  BY ConstantsAssumption DEF Init, Replica
<1>3. view \in [Replica -> 0 .. MaxView + 1]
  BY ConstantsAssumption DEF Init
<1>4. QED
  BY <1>1, <1>2, <1>3, QCTypes DEF Init, TypeOK

(* Every handler keeps the type invariant. *)
LEMMA NextType ==
  ASSUME TypeOK, [Next]_vars
  PROVE  TypeOK'
<1>1. CASE UNCHANGED vars
  BY <1>1 DEF TypeOK, vars, network, txnMan, sending
<1>2. ASSUME NEW r \in Replica, Propose(r)
      PROVE  TypeOK'
  BY <1>2, ConstantsAssumption DEF Propose, TypeOK
<1>3. ASSUME NEW r \in Replica, process_hotstuff_generic_p(r)
      PROVE  TypeOK'
  <2> DEFINE s == last_sent_view[r]
             high == chain[r].g_preparedQC
             m == [slot |-> s, view |-> view[r], src |-> r, highQC |-> high]
  <2>1. s \in Slot /\ view[r] \in Slot /\ high \in QuorumCertificate
    BY <1>3 DEF TypeOK, process_hotstuff_generic_p, Chain
  <2>2. /\ syncs' \subseteq SyncMsg
        /\ sync_sent' \in [Replica -> SUBSET Slot]
        /\ new_viewed' \in [Replica -> SUBSET Slot]
        /\ hash_voters' \in [Replica -> [Slot -> SUBSET Replica]]
    BY <1>3, <2>1, SendNewViewType DEF process_hotstuff_generic_p
  <2>3. generics' \subseteq GenericMsg
    <3>1. m \in GenericMsg
      BY <2>1 DEF GenericMsg
    <3>2. generics' = generics \cup {m}
      BY <1>3 DEF process_hotstuff_generic_p
    <3> HIDE DEF m
    <3>3. QED
      BY <3>1, <3>2 DEF TypeOK
  <2>4. highQC' \in [Replica -> [Slot -> QuorumCertificate]]
    BY <1>3, <2>1 DEF process_hotstuff_generic_p, TypeOK
  <2>5. incomplete_proposal_cnt' \in [Replica -> Nat]
    <3>1. /\ incomplete_proposal_cnt \in [Replica -> Nat]
          /\ incomplete_proposal_cnt[r] # 0
          /\ incomplete_proposal_cnt' = [incomplete_proposal_cnt EXCEPT ![r] = @ - 1]
      BY <1>3 DEF process_hotstuff_generic_p, TypeOK
    <3>2. QED
      BY <3>1
  <2>6. generic_received' \in [Replica -> SUBSET Slot]
    BY <1>3, <2>1 DEF process_hotstuff_generic_p, TypeOK
  <2>7. QED
    BY <1>3, <2>2, <2>3, <2>4, <2>5, <2>6 DEF process_hotstuff_generic_p, TypeOK
<1>4. ASSUME NEW r \in Replica, NEW s \in proposals, process_hotstuff_proposal(r, s)
      PROVE  TypeOK'
  <2>1. s \in Slot /\ view[r] \in Slot /\ chain[r] \in Chain /\ highQC[r][s] \in QuorumCertificate
        /\ waiting[r] \in BOOLEAN
    BY <1>4 DEF TypeOK, process_hotstuff_proposal, Running
  <2>2. advance_view(r, s, s \in new_viewed[r] \cap generic_received[r],
                     chain[r], highQC[r][s], waiting[r])
    BY <1>4 DEF process_hotstuff_proposal
  <2>3. /\ chain' \in [Replica -> Chain] /\ view' \in [Replica -> 0 .. MaxView + 1]
        /\ temp_queue' \in [Replica -> SUBSET Slot] /\ waiting' \in [Replica -> BOOLEAN]
    <3> DEFINE ready == s \in new_viewed[r] \cap generic_received[r]
    <3>1. ready \in BOOLEAN /\ advance_view(r, s, ready, chain[r], highQC[r][s], waiting[r])
      BY <2>2
    <3> HIDE DEF ready
    <3>2. QED
      BY <2>1, <3>1, AdvanceViewType
  <2>4. QED
    BY <1>4, <2>1, <2>3 DEF process_hotstuff_proposal, network, sending, TypeOK
<1>5. ASSUME NEW r \in Replica, NEW m \in generics, check_view(r, m)
      PROVE  TypeOK'
  <2>1. m.view \in Slot
    BY DEF TypeOK, GenericMsg
  <2>2. QED
    BY <1>5, <2>1 DEF check_view, network, txnMan, sending, TypeOK
<1>6. ASSUME NEW r \in Replica, NEW m \in generics, process_hotstuff_generic(r, m)
      PROVE  TypeOK'
  <2> DEFINE s  == m.slot
             c1 == StoreQC(chain[r], m.highQC)
             c2 == IF m.highQC.viewNumber > chain[r].g_preparedQC.viewNumber
                   THEN update_lockQC(c1, m.highQC, m.view, s - 1) ELSE c1
             voted == s \in new_viewed[r] \/ (s \notin sync_sent[r] /\ Quorum(r, s, r))
             ready == voted /\ s \in proposal_received[r]
  <2>1. m \in GenericMsg /\ s \in Slot /\ m.highQC \in QuorumCertificate
    BY DEF TypeOK, GenericMsg
  <2>2. view[r] \in Slot /\ chain[r] \in Chain
    BY <1>6 DEF TypeOK, process_hotstuff_generic, Running
  <2>3. c1 \in Chain
    BY <2>1, <2>2, StoreQCType
  <2>4. c2 \in Chain
    <3> HIDE DEF c1
    <3> QED BY <2>1, <2>3, UpdateLockType
  <2>5. /\ advance_view(r, s, ready, c2, m.highQC, FALSE)
        /\ send_hotstuff_newview(r, s)
        /\ highQC' = [highQC EXCEPT ![r][s] = m.highQC]
        /\ generic_received' = [generic_received EXCEPT ![r] = @ \cup {s}]
        /\ UNCHANGED <<proposals, generics, non_votes, skips, proposal_received, sending, fault_voters>>
    BY <1>6 DEF process_hotstuff_generic
  <2> HIDE DEF c2
  <2>6. /\ chain' \in [Replica -> Chain] /\ view' \in [Replica -> 0 .. MaxView + 1]
        /\ temp_queue' \in [Replica -> SUBSET Slot] /\ waiting' \in [Replica -> BOOLEAN]
    <3> ready \in BOOLEAN
      OBVIOUS
    <3> HIDE DEF ready
    <3> QED BY <2>1, <2>2, <2>4, <2>5, AdvanceViewType
  <2>7. /\ syncs' \subseteq SyncMsg
        /\ sync_sent' \in [Replica -> SUBSET Slot]
        /\ new_viewed' \in [Replica -> SUBSET Slot]
        /\ hash_voters' \in [Replica -> [Slot -> SUBSET Replica]]
    BY <2>1, <2>2, <2>5, SendNewViewType
  <2>8. QED
    BY <2>1, <2>5, <2>6, <2>7 DEF TypeOK, sending
<1>7. ASSUME NEW r \in Replica, NEW m \in syncs, process_hotstuff_new_view(r, m)
      PROVE  TypeOK'
  <2> DEFINE s == m.slot
             ready == Quorum(r, s, m.src) /\ s \in proposal_received[r] \cap generic_received[r]
  <2>1. s \in Slot /\ m.src \in Replica
    BY DEF TypeOK, SyncMsg
  <2>2. view[r] \in Slot /\ chain[r] \in Chain /\ highQC[r][s] \in QuorumCertificate
        /\ waiting[r] \in BOOLEAN
    BY <1>7, <2>1 DEF TypeOK, process_hotstuff_new_view, Running
  <2>3. /\ AddVote(r, s, m.src)
        /\ advance_view(r, s, ready, chain[r], highQC[r][s], waiting[r])
        /\ UNCHANGED <<network, skips, proposal_received, generic_received, sync_sent, highQC,
                       sending, fault_voters>>
    BY <1>7 DEF process_hotstuff_new_view
  <2>4. /\ chain' \in [Replica -> Chain] /\ view' \in [Replica -> 0 .. MaxView + 1]
        /\ temp_queue' \in [Replica -> SUBSET Slot] /\ waiting' \in [Replica -> BOOLEAN]
    <3> ready \in BOOLEAN
      OBVIOUS
    <3> HIDE DEF ready
    <3> QED BY <2>1, <2>2, <2>3, AdvanceViewType
  <2>5. /\ new_viewed' \in [Replica -> SUBSET Slot]
        /\ hash_voters' \in [Replica -> [Slot -> SUBSET Replica]]
    BY <2>1, <2>3, AddVoteType
  <2>6. QED
    BY <2>3, <2>4, <2>5 DEF TypeOK, network, sending
<1>8. ASSUME NEW r \in Replica, send_failed_new_view(r)
      PROVE  TypeOK'
  <2> DEFINE w == view[r]
  <2>1. w \in Slot /\ [view |-> w, src |-> r] \in NonVoteMsg
    BY <1>8 DEF send_failed_new_view, NonVoteMsg
  <2>2. /\ non_votes' = non_votes \cup {[view |-> w, src |-> r]}
        /\ UNCHANGED <<proposals, generics, syncs, chain, txnMan, sending>>
    BY <1>8 DEF send_failed_new_view
  <2>3. /\ fault_voters' \in [Replica -> [Slot -> SUBSET Replica]]
        /\ skips' \in [Replica -> [Slot -> Nat]]
        /\ view' \in [Replica -> 0 .. MaxView + 1]
        /\ temp_queue' \in [Replica -> SUBSET Slot]
        /\ waiting' \in [Replica -> BOOLEAN]
    <3>1. CASE Cardinality(fault_voters[r][w]) >= nf
      BY <1>8, <3>1 DEF send_failed_new_view, TypeOK
    <3>2. CASE ~(Cardinality(fault_voters[r][w]) >= nf)
      <4>1. advance_failed_view(r, w, r, FALSE)
        BY <1>8, <3>2 DEF send_failed_new_view
      <4>2. QED
        BY <2>1, <4>1, AdvanceFailedViewType
    <3>3. QED
      BY <3>1, <3>2
  <2>4. QED
    BY <2>1, <2>2, <2>3 DEF TypeOK, txnMan, sending
<1>9. ASSUME NEW r \in Replica, NEW m \in non_votes, process_failed_new_view(r, m)
      PROVE  TypeOK'
  <2>1. m.view \in Slot /\ m.src \in Replica /\ waiting[r] \in BOOLEAN
    BY DEF TypeOK, NonVoteMsg
  <2>2. /\ advance_failed_view(r, m.view, m.src, waiting[r])
        /\ UNCHANGED <<network, chain, txnMan, sending>>
    BY <1>9 DEF process_failed_new_view
  <2>3. /\ fault_voters' \in [Replica -> [Slot -> SUBSET Replica]]
        /\ skips' \in [Replica -> [Slot -> Nat]]
        /\ view' \in [Replica -> 0 .. MaxView + 1]
        /\ temp_queue' \in [Replica -> SUBSET Slot]
        /\ waiting' \in [Replica -> BOOLEAN]
    BY <2>1, <2>2, AdvanceFailedViewType
  <2>4. QED
    BY <2>2, <2>3 DEF TypeOK, network, txnMan, sending
<1>10. QED
  BY <1>1, <1>2, <1>3, <1>4, <1>5, <1>6, <1>7, <1>8, <1>9 DEF Next, ReplicaNext

(* Every reachable state is well typed: in particular no handler gives a   *)
(* certificate a view beyond MaxView or counts incomplete_proposal_cnt     *)
(* below zero, with or without failing replicas.                           *)
THEOREM TypeCorrect == Spec => []TypeOK
<1>1. Init => TypeOK
  BY InitType
<1>2. TypeOK /\ [Next]_vars => TypeOK'
  BY NextType
<1>3. QED
  BY <1>1, <1>2, PTL DEF Spec
-----------------------------------------------------------------------------
(* Arithmetic of the rotation of primaries. *)
LEMMA DivMod ==
  ASSUME NEW a \in Int, NEW n \in Nat, n >= 1
  PROVE  a = n * (a \div n) + (a % n) /\ a % n \in 0 .. (n - 1) /\ a \div n \in Int
  OBVIOUS

(* The only multiple of n between -n and n is 0. *)
LEMMA SmallMultiple ==
  ASSUME NEW n \in Nat, n >= 1, NEW d \in Int, NEW e \in Int, e > -n, e < n, n * d = e
  PROVE  d = 0
<1>1. CASE d >= 1
  <2>1. n * d >= n
    BY <1>1
  <2>2. QED
    BY <2>1
<1>2. CASE d <= -1
  <2>1. n * d <= -n
    BY <1>2
  <2>2. QED
    BY <2>1
<1>3. QED
  BY <1>1, <1>2

(* A number has one remainder. *)
LEMMA RemainderUnique ==
  ASSUME NEW n \in Nat, n >= 1, NEW q \in Int, NEW p \in Int,
         NEW x \in 0 .. (n - 1), NEW y \in 0 .. (n - 1), n * q + x = n * p + y
  PROVE  x = y
<1>1. n * (q - p) = n * q - n * p
  OBVIOUS
<1>2. n * (q - p) = y - x
  BY <1>1
<1>3. q - p = 0
  BY <1>2, SmallMultiple
<1>4. n * (q - p) = 0
  BY <1>3
<1>5. QED
  BY <1>2, <1>4

(* Adding n does not change the remainder modulo n. *)
LEMMA ModAdd ==
  ASSUME NEW a \in Int, NEW n \in Nat, n >= 1
  PROVE  (a + n) % n = a % n
<1> DEFINE q == (a \div n) + 1
           p == (a + n) \div n
<1>1. a = n * (a \div n) + (a % n) /\ a % n \in 0 .. (n - 1) /\ q \in Int
  BY DivMod
<1>2. a + n = n * p + ((a + n) % n) /\ (a + n) % n \in 0 .. (n - 1) /\ p \in Int
  <2> DEFINE b == a + n
  <2>1. b \in Int
    OBVIOUS
  <2> HIDE DEF b
  <2>2. b = n * (b \div n) + (b % n) /\ b % n \in 0 .. (n - 1) /\ b \div n \in Int
    BY <2>1, DivMod
  <2>3. QED
    BY <2>2, Zenon DEF b
<1>3. n * q = n * (a \div n) + n
  BY <1>1
<1>4. n * q + (a % n) = n * p + ((a + n) % n)
  <2>1. ASSUME NEW X \in Int, NEW Y \in Int, NEW Z \in Int, NEW x \in Int, NEW y \in Int,
               a = X + x, a + n = Y + y, Z = X + n
        PROVE  Z + x = Y + y
    BY <2>1
  <2>2. /\ n * (a \div n) \in Int /\ n * p \in Int /\ n * q \in Int
        /\ a % n \in Int /\ (a + n) % n \in Int
    BY <1>1, <1>2
  <2> HIDE DEF q, p
  <2>3. QED
    BY <1>1, <1>2, <1>3, <2>1, <2>2
<1> HIDE DEF q, p
<1>5. QED
  BY <1>1, <1>2, <1>4, RemainderUnique

(* A number below n is its own remainder. *)
LEMMA ModSmall ==
  ASSUME NEW n \in Nat, n >= 1, NEW x \in 0 .. (n - 1)
  PROVE  x % n = x
  OBVIOUS

(* next_send_view starts and stays at views the replica leads. *)
LEMMA FirstSendView ==
  ASSUME NEW r \in Replica
  PROVE  get_view_primary((NODE_CNT + r - Instance) % NODE_CNT) = r
<1> USE ConstantsAssumption
<1>0. r \in 0 .. (NODE_CNT - 1) /\ r \in Int /\ Instance \in Int
  BY DEF Replica
<1>1. CASE r >= Instance
  <2>1. r - Instance \in 0 .. (NODE_CNT - 1)
    BY <1>0, <1>1
  <2>2. (NODE_CNT + r - Instance) % NODE_CNT = r - Instance
    <3>1. NODE_CNT + r - Instance = (r - Instance) + NODE_CNT
      BY <1>0
    <3>2. ((r - Instance) + NODE_CNT) % NODE_CNT = (r - Instance) % NODE_CNT
      <4> DEFINE d == r - Instance
      <4>1. d \in Int /\ NODE_CNT \in Nat /\ NODE_CNT >= 1
        BY <1>0
      <4> HIDE DEF d
      <4>2. (d + NODE_CNT) % NODE_CNT = d % NODE_CNT
        BY <4>1, ModAdd, Zenon
      <4>3. QED
        BY <4>2, Zenon DEF d
    <3>3. (r - Instance) % NODE_CNT = r - Instance
      BY <2>1, ModSmall
    <3>4. QED
      BY <3>1, <3>2, <3>3, Zenon
  <2>3. QED
    BY <1>0, <2>2, ModSmall DEF get_view_primary
<1>2. CASE r < Instance
  <2>1. NODE_CNT + r - Instance \in 0 .. (NODE_CNT - 1)
    BY <1>0, <1>2
  <2>2. (NODE_CNT + r - Instance) % NODE_CNT = NODE_CNT + r - Instance
    BY <2>1, ModSmall
  <2>3. (NODE_CNT + r - Instance) + Instance = r + NODE_CNT
    BY <1>0
  <2>4. (r + NODE_CNT) % NODE_CNT = r % NODE_CNT
    <3>1. r \in Int /\ NODE_CNT \in Nat /\ NODE_CNT >= 1
      BY <1>0
    <3>2. QED
      BY <3>1, ModAdd, Zenon
  <2>5. r % NODE_CNT = r
    BY <1>0, ModSmall
  <2>6. QED
    BY <2>2, <2>3, <2>4, <2>5, Zenon DEF get_view_primary
<1>3. QED
  BY <1>0, <1>1, <1>2

(* inc_next_send_view moves to another view of the same primary. *)
LEMMA NextSendView ==
  ASSUME NEW v \in Nat
  PROVE  get_view_primary(v + NODE_CNT) = get_view_primary(v)
<1>1. (v + NODE_CNT) + Instance = (v + Instance) + NODE_CNT
  BY ConstantsAssumption
<1>2. ((v + Instance) + NODE_CNT) % NODE_CNT = (v + Instance) % NODE_CNT
  <2> DEFINE d == v + Instance
  <2>1. d \in Int /\ NODE_CNT \in Nat /\ NODE_CNT >= 1
    BY ConstantsAssumption
  <2> HIDE DEF d
  <2>2. (d + NODE_CNT) % NODE_CNT = d % NODE_CNT
    BY <2>1, ModAdd, Zenon
  <2>3. QED
    BY <2>2, Zenon DEF d
<1>3. QED
  BY <1>1, <1>2, Zenon DEF get_view_primary

(* The next view is led by the next replica. *)
LEMMA NextPrimary ==
  ASSUME NEW v \in Nat
  PROVE  get_view_primary(v + 1) = (get_view_primary(v) + 1) % NODE_CNT
<1> DEFINE n == NODE_CNT
           x == v + Instance
           q == x \div n
           m == x % n
<1>1. n \in Nat /\ n >= 1 /\ x \in Int /\ (v + 1) + Instance = x + 1
  BY ConstantsAssumption
<1> HIDE DEF n, x
<1>2. x = n * q + m /\ m \in 0 .. (n - 1) /\ q \in Int
  BY <1>1, DivMod
<1> DEFINE a == x + 1
           b == m + 1
<1>3. a \in Int /\ b \in Int
  BY <1>1, <1>2
<1> HIDE DEF a, b, m, q
<1>4. a = n * (a \div n) + (a % n) /\ a % n \in 0 .. (n - 1) /\ a \div n \in Int
  BY <1>1, <1>3, DivMod
<1>5. b = n * (b \div n) + (b % n) /\ b % n \in 0 .. (n - 1) /\ b \div n \in Int
  BY <1>1, <1>3, DivMod
<1> DEFINE p == q + (b \div n)
<1>6. n * p = n * q + n * (b \div n) /\ p \in Int
  BY <1>1, <1>2, <1>5
<1>7. n * (a \div n) + (a % n) = n * p + (b % n)
  <2>1. ASSUME NEW A \in Int, NEW Q \in Int, NEW B \in Int, NEW P \in Int, NEW e \in Int, NEW f \in Int,
               NEW M \in Int, x = Q + M, x + 1 = A + e, M + 1 = B + f, P = Q + B
        PROVE  A + e = P + f
    BY <1>1, <2>1
  <2>2. /\ n * (a \div n) \in Int /\ n * p \in Int /\ n * q \in Int /\ n * (b \div n) \in Int
        /\ a % n \in Int /\ b % n \in Int /\ m \in Int
    BY <1>1, <1>2, <1>4, <1>5, <1>6
  <2>3. x + 1 = n * (a \div n) + (a % n) /\ m + 1 = n * (b \div n) + (b % n)
    BY <1>4, <1>5 DEF a, b
  <2> HIDE DEF p
  <2>4. QED
    BY <1>2, <1>6, <2>1, <2>2, <2>3
<1> HIDE DEF p
<1>8. a % n = b % n
  BY <1>1, <1>4, <1>5, <1>6, <1>7, RemainderUnique
<1>9. QED
  BY <1>1, <1>8 DEF get_view_primary, a, b, m, x, n
-----------------------------------------------------------------------------
(* The views of silent primaries, and the certified views around them. *)

(* No two views of silent primaries follow each other. *)
LEMMA DeadFacts ==
  ASSUME Tolerated
  PROVE  /\ ~Dead(Genesis) /\ ~Dead(0)
         /\ \A v \in Int : Dead(v) => v >= 1 /\ ~Dead(v - 1) /\ ~Dead(v + 1)
<1>1. CRASH_VIEW \in Nat
  BY ConstantsAssumption
<1>2. ~Dead(Genesis) /\ ~Dead(0) /\ \A v \in Int : Dead(v) => v >= 1
  BY <1>1 DEF Dead, Genesis
<1>3. ASSUME NEW v \in Int, Dead(v)
      PROVE  ~Dead(v + 1)
  <2>1. v \in Nat /\ get_view_primary(v) \in Faulty
    BY <1>2, <1>3 DEF Dead
  <2>2. (get_view_primary(v) + 1) % NODE_CNT \notin Faulty
    BY <2>1 DEF Tolerated
  <2>3. get_view_primary(v + 1) \notin Faulty
    BY <2>1, <2>2, NextPrimary
  <2>4. QED
    BY <2>3 DEF Dead
<1>4. ASSUME NEW v \in Int, Dead(v)
      PROVE  ~Dead(v - 1)
  <2> SUFFICES ASSUME Dead(v - 1) PROVE FALSE
    OBVIOUS
  <2>1. v - 1 \in Int /\ (v - 1) + 1 = v
    OBVIOUS
  <2>2. QED
    BY <1>3, <1>4, <2>1
<1>5. QED
  BY <1>2, <1>3, <1>4

(* The certified view before v is one or two views back. *)
LEMMA PrevFacts ==
  ASSUME Tolerated, NEW v \in Int, v >= 0
  PROVE  /\ Prev(v) \in Int /\ Prev(v) < v /\ Prev(v) >= Genesis /\ ~Dead(Prev(v))
         /\ Prev(v) = Genesis <=> v = 0
         /\ Dead(v - 1) => Prev(v) = v - 2 /\ v >= 2
         /\ ~Dead(v - 1) => Prev(v) = v - 1
         /\ \A h \in Int : h < v /\ ~Dead(h) => h <= Prev(v)
<1>1. CASE Dead(v - 1)
  <2>1. v - 1 \in Int /\ (v - 1) - 1 = v - 2
    OBVIOUS
  <2>2. v - 1 >= 1 /\ ~Dead(v - 2)
    BY <1>1, <2>1, DeadFacts
  <2>3. Prev(v) = v - 2
    BY <1>1 DEF Prev
  <2>4. ASSUME NEW h \in Int, h < v, ~Dead(h)
        PROVE  h <= v - 2
    <3>1. h # v - 1
      BY <1>1, <2>4
    <3>2. QED
      BY <2>4, <3>1
  <2>5. QED
    BY <1>1, <2>2, <2>3, <2>4 DEF Genesis
<1>2. CASE ~Dead(v - 1)
  <2>1. Prev(v) = v - 1
    BY <1>2 DEF Prev
  <2>2. QED
    BY <1>2, <2>1 DEF Genesis
<1>3. QED
  BY <1>1, <1>2

(* A nonempty set of integers with an upper bound has a greatest element. *)
LEMMA GreatestBelow ==
  ASSUME NEW T \in SUBSET Int, T # {}, NEW b \in Int, \A x \in T : x <= b
  PROVE  \E x \in T : \A y \in T : y <= x
<1> DEFINE D == {n \in Nat : b - n \in T}
<1>1. D # {}
  <2>1. PICK x \in T : TRUE
    OBVIOUS
  <2>2. b - x \in Nat /\ b - (b - x) = x
    OBVIOUS
  <2>3. QED
    BY <2>2
<1>2. D \subseteq Nat
  OBVIOUS
<1> HIDE DEF D
<1>3. PICK n \in D : \A k \in D : ~(<<k, n>> \in OpToRel(<, Nat))
  BY <1>1, <1>2, WFMin, NatLessThanWellFounded, Zenon
<1>4. \A k \in D : ~(k < n)
  BY <1>2, <1>3, Zenon DEF OpToRel
<1>5. n \in Nat /\ b - n \in T
  BY DEF D
<1>6. ASSUME NEW y \in T
      PROVE  y <= b - n
  <2>1. b - y \in Nat /\ b - (b - y) = y
    OBVIOUS
  <2>2. b - y \in D
    BY <2>1 DEF D
  <2>3. ~(b - y < n)
    BY <1>4, <2>2
  <2>4. QED
    BY <1>5, <2>1, <2>3
<1>7. QED
  BY <1>5, <1>6
-----------------------------------------------------------------------------
(* The chain of a replica that enters view v + 1 from view v. *)

(* The fields of the certificate of a view. *)
LEMMA QCAtFields ==
  /\ QCAt(Genesis) = GenesisQC
  /\ \A v \in Slot : /\ QCAt(v).genesis = FALSE /\ QCAt(v).viewNumber = v
                     /\ QCAt(v).batch_hash = v /\ QCAt(v).parent_hash = Prev(v)
  BY QCTypes DEF QCAt

(* The certificate of a block names the block. *)
LEMMA BlockOf ==
  ASSUME NEW h \in Hash
  PROVE  QCAt(h).batch_hash = h /\ h \in Int /\ h >= Genesis
<1>1. CASE h = Genesis
  BY <1>1, QCAtFields DEF GenesisQC, Genesis
<1>2. CASE h \in Slot
  BY <1>2, QCAtFields, QCTypes DEF Genesis
<1>3. QED
  BY <1>1, <1>2 DEF Hash

(* The view before v is a block's, and a proposed one's unless v = 0. *)
LEMMA PrevHash ==
  ASSUME Tolerated, NEW v \in 0 .. MaxView + 1
  PROVE  Prev(v) \in Hash /\ (v >= 1 => Prev(v) \in Slot) /\ Prev(v) < v
<1>1. v \in Int /\ v >= 0 /\ v <= MaxView + 1 /\ MaxView \in Nat
  BY QCTypes
<1>2. Prev(v) \in Int /\ Prev(v) < v /\ Prev(v) >= Genesis /\ (Prev(v) = Genesis <=> v = 0)
  BY <1>1, PrevFacts
<1>3. QED
  BY <1>1, <1>2 DEF Slot, Hash, Genesis

(* On top of the certificate of the view before, advance_view makes the one of its view. *)
LEMMA GenericQCAt ==
  ASSUME Tolerated, NEW v \in Slot
  PROVE  GenericQC(v, v, QCAt(Prev(v))) = QCAt(v)
<1>1. QCAt(v) = [genesis |-> FALSE, viewNumber |-> v, batch_hash |-> v, parent_hash |-> Prev(v)]
  BY QCTypes DEF QCAt
<1>2. v \in 0 .. MaxView + 1 /\ v \in Nat
  BY QCTypes DEF Slot
<1>3. Prev(v) \in Hash /\ (v >= 1 => Prev(v) \in Slot)
  BY <1>2, PrevHash
<1>4. QCAt(Prev(v)).batch_hash = Prev(v) /\ (v >= 1 => QCAt(Prev(v)).genesis = FALSE)
  BY <1>3, BlockOf, QCAtFields
<1>5. GenericQC(v, v, QCAt(Prev(v))) =
        [genesis |-> FALSE, viewNumber |-> v, batch_hash |-> v, parent_hash |-> Prev(v)]
  <2> DEFINE P == QCAt(Prev(v))
  <2> HIDE DEF P
  <2>1. P.batch_hash = Prev(v) /\ (v >= 1 => P.genesis = FALSE)
    BY <1>4 DEF P
  <2>2. GenericQC(v, v, P) =
        [genesis |-> FALSE, viewNumber |-> v, batch_hash |-> v, parent_hash |-> Prev(v)]
    <3>1. (IF P.genesis THEN 0 ELSE v) = v
      BY <1>2, <2>1
    <3>2. QED
      BY <2>1, <3>1, Zenon DEF GenericQC
  <2>3. QED
    BY <2>2 DEF P
<1>6. QED
  BY <1>1, <1>5

(* What is committed when view v + 1 is entered, against view v. *)
LEMMA CommittedNext ==
  ASSUME NEW v \in Slot, NEW h \in Int
  PROVE  Committed(v + 1, h) <=> Committed(v, h) \/ (v >= 2 /\ Three(v - 2) /\ h <= v - 2)
<1>1. v \in Nat /\ Slot \subseteq Nat /\ MaxView \in Nat
  BY QCTypes
<1>2. ASSUME NEW a \in Slot, Three(a), a + 3 <= v + 1, h <= a, ~(a + 3 <= v)
      PROVE  v >= 2 /\ Three(v - 2) /\ h <= v - 2
  <2>1. a = v - 2 /\ a \in Nat
    BY <1>1, <1>2
  <2>2. QED
    BY <1>1, <1>2, <2>1
<1>3. ASSUME v >= 2, Three(v - 2), h <= v - 2
      PROVE  Committed(v + 1, h)
  <2>1. v - 2 \in Slot /\ (v - 2) + 3 <= v + 1
    BY <1>1, <1>3 DEF Slot
  <2>2. QED
    BY <1>3, <2>1 DEF Committed
<1>4. Committed(v, h) => Committed(v + 1, h)
  <2>1. \A a \in Slot : a + 3 <= v => a + 3 <= v + 1
    BY <1>1
  <2>2. QED
    BY <2>1 DEF Committed
<1>5. Committed(v + 1, h) => Committed(v, h) \/ (v >= 2 /\ Three(v - 2) /\ h <= v - 2)
  BY <1>2 DEF Committed
<1>6. QED
  BY <1>3, <1>4, <1>5

(* What is committed stays below the last two certified views. *)
LEMMA NotCommitted ==
  ASSUME Tolerated, NEW v \in 0 .. MaxView + 1
  PROVE  /\ ~Committed(v, Prev(v))
         /\ v >= 1 => ~Committed(v, Prev(Prev(v)))
<1>1. v \in Int /\ v >= 0 /\ Slot \subseteq Nat
  BY QCTypes
<1>2. /\ Prev(v) \in Int /\ Prev(v) >= Genesis /\ (Prev(v) = Genesis <=> v = 0)
      /\ Dead(v - 1) => Prev(v) = v - 2 /\ v >= 2
      /\ ~Dead(v - 1) => Prev(v) = v - 1
  BY <1>1, PrevFacts
<1>3. ~Committed(v, Prev(v))
  BY <1>1, <1>2 DEF Committed
<1>4. ASSUME v >= 1, NEW a \in Slot, Three(a), a + 3 <= v, Prev(Prev(v)) <= a
      PROVE  FALSE
  <2> DEFINE p == Prev(v)
  <2>1. p \in Int /\ p >= 0 /\ p >= v - 2 /\ a \in Int
    BY <1>1, <1>2, <1>4 DEF Genesis
  <2> HIDE DEF p
  <2>2. /\ Dead(p - 1) => Prev(p) = p - 2
        /\ ~Dead(p - 1) => Prev(p) = p - 1
    BY <2>1, PrevFacts
  <2>3. Prev(p) <= a /\ ~Dead(a) /\ ~Dead(a + 1) /\ ~Dead(a + 2)
    BY <1>4 DEF p, Three
  <2>4. p = v - 1 \/ (p = v - 2 /\ Dead(v - 1))
    BY <1>2 DEF p
  <2>5. CASE p = v - 1
    <3>1. a = v - 3 /\ Dead(p - 1) /\ p - 1 = a + 1
      BY <1>1, <1>4, <2>1, <2>2, <2>3, <2>5
    <3>2. QED
      BY <2>3, <3>1
  <2>6. CASE p = v - 2 /\ Dead(v - 1)
    <3>1. CASE Dead(p - 1)
      <4>1. a = v - 4 \/ a = v - 3
        BY <1>1, <1>4, <2>1, <2>2, <2>3, <2>6, <3>1
      <4>2. (a = v - 4 => p - 1 = a + 1) /\ (a = v - 3 => v - 1 = a + 2)
        BY <1>1, <2>6
      <4>3. QED
        BY <2>3, <2>6, <3>1, <4>1, <4>2
    <3>2. CASE ~Dead(p - 1)
      <4>1. v - 1 = a + 2
        BY <1>1, <1>4, <2>1, <2>2, <2>3, <2>6, <3>2
      <4>2. QED
        BY <2>3, <2>6, <4>1
    <3>3. QED
      BY <3>1, <3>2
  <2>7. QED
    BY <2>4, <2>5, <2>6
<1>5. QED
  BY <1>3, <1>4 DEF Committed

(* The certificate a GENERIC carries is one the replica has already. *)
LEMMA StoreAgain ==
  ASSUME Tolerated, NEW v \in Slot, NEW c, ChainAt(c, v)
  PROVE  ChainAt(StoreQC(c, QCAt(Prev(v))), v)
<1>1. v \in 0 .. MaxView + 1 /\ v \in Int /\ v >= 0
  BY QCTypes DEF Slot
<1>2. Prev(v) \in Hash /\ Prev(v) < v /\ ~Dead(Prev(v)) /\ ~Committed(v, Prev(v))
  BY <1>1, PrevHash, PrevFacts, NotCommitted
<1>3. Prev(v) \in KeysAt(v)
  BY <1>2 DEF KeysAt
<1>4. QCAt(Prev(v)).batch_hash = Prev(v)
  BY <1>2, BlockOf
<1>5. [MapAt(v) EXCEPT ![Prev(v)] = QCAt(Prev(v))] = MapAt(v)
  BY <1>2, <1>3 DEF MapAt
<1>6. KeysAt(v) \cup {Prev(v)} = KeysAt(v)
  BY <1>3
<1>7. QED
  BY <1>4, <1>5, <1>6 DEF StoreQC, ChainAt

(* A view that is given up leaves the chain as it is. *)
LEMMA SkipChain ==
  ASSUME Tolerated, NEW v \in Slot, Dead(v), NEW c, ChainAt(c, v)
  PROVE  ChainAt(c, v + 1)
<1>1. v \in Int /\ v >= 0 /\ Slot \subseteq Int /\ Hash \subseteq Int /\ (v + 1) - 1 = v /\ (v + 1) - 2 = v - 1
      /\ (v - 2) + 2 = v
  BY QCTypes DEF Hash, Genesis
<1>2. \A h \in Hash : Committed(v + 1, h) <=> Committed(v, h)
  <2>1. ~Three(v - 2)
    BY <1>1 DEF Three
  <2>2. QED
    BY <1>1, <2>1, CommittedNext
<1>3. KeysAt(v + 1) = KeysAt(v)
  <2>1. \A h \in Hash : h < v + 1 /\ ~Dead(h) <=> h < v /\ ~Dead(h)
    BY <1>1
  <2>2. QED
    BY <1>2, <2>1 DEF KeysAt
<1>4. MapAt(v + 1) = MapAt(v) /\ ExecAt(v + 1) = ExecAt(v)
  BY <1>2, <1>3 DEF MapAt, ExecAt
<1>5. Prev(v + 1) = Prev(v)
  <2>1. ~Dead(v - 1)
    BY <1>1, DeadFacts
  <2>2. QED
    BY <1>1, <2>1 DEF Prev
<1>6. \A QC : LockAt(QC, v) => LockAt(QC, v + 1)
  <2>1. \A a \in Slot : Two(a) => (a + 2 <= v + 1 <=> a + 2 <= v) /\ (a + 2 > v => a + 2 > v + 1)
    <3> SUFFICES ASSUME NEW a \in Slot, Two(a) PROVE a + 1 # v
      BY <1>1
    <3>1. QED
      BY DEF Two
  <2>2. QED
    BY <2>1 DEF LockAt
<1>7. QED
  BY <1>3, <1>4, <1>5, <1>6 DEF ChainAt

(* The walk of send_execute_msg_hotstuff, from a certified view below the  *)
(* view v + 1 that is entered: it visits every block in the map that is    *)
(* not younger, because the parent of a block is the one before it.        *)
LEMMA Walk ==
  ASSUME Tolerated, NEW v \in Slot, NEW map, NEW p \in Hash, ~Dead(p), p < v,
         NEW keys \in SUBSET Hash,
         \A h \in Hash : h < v => (h \in keys <=> ~Dead(h) /\ ~Committed(v, h)),
         \A h \in keys : map[h] = QCAt(h)
  PROVE  Ancestors(map, keys, p) = {h \in keys : h <= p}
<1> DEFINE Below == {h \in keys : h <= p}
           Closed(S) == /\ p \in keys => p \in S
                        /\ \A a \in S : map[a].batch_hash # Genesis /\ map[a].parent_hash \in keys
                                          => map[a].parent_hash \in S
<1>1. v \in Int /\ v >= 0 /\ p \in Int /\ Hash \subseteq Int /\ Slot \subseteq Int
  BY QCTypes DEF Hash, Genesis
<1>2. \A h \in keys : map[h].batch_hash = h
  BY BlockOf
<1>3. \A h \in keys : h # Genesis => map[h].parent_hash = Prev(h) /\ h \in Slot
  BY QCAtFields DEF Hash
<1>4. Closed(Below)
  <2>1. ASSUME NEW a \in Below, map[a].batch_hash # Genesis, map[a].parent_hash \in keys
        PROVE  map[a].parent_hash \in Below
    <3>1. a \in keys /\ a <= p /\ a # Genesis
      BY <1>2, <2>1
    <3>2. a \in Slot /\ a \in Int /\ a >= 0 /\ map[a].parent_hash = Prev(a)
      BY <1>3, <3>1, QCTypes
    <3>3. Prev(a) \in Int /\ Prev(a) < a
      BY <3>2, PrevFacts
    <3>4. Prev(a) <= p
      BY <1>1, <3>1, <3>2, <3>3
    <3>5. QED
      BY <2>1, <3>2, <3>4
  <2>2. p \in keys => p \in Below
    BY <1>1
  <2>3. QED
    BY <2>1, <2>2
<1>5. Ancestors(map, keys, p) \subseteq Below
  BY <1>4 DEF Ancestors
<1>6. ASSUME NEW S \in SUBSET keys, Closed(S)
      PROVE  Below \subseteq S
  <2> DEFINE T == Below \ S
  <2> SUFFICES ASSUME T # {} PROVE FALSE
    OBVIOUS
  <2>1. T \in SUBSET Int /\ \A x \in T : x <= p
    BY <1>1
  <2> HIDE DEF T
  <2>2. PICK g \in T : \A y \in T : y <= g
    BY <1>1, <2>1, GreatestBelow
  <2>3. g \in keys /\ g <= p /\ g \notin S /\ g \in Int /\ g \in Hash
    BY <1>1 DEF T
  <2>4. g < v /\ ~Dead(g) /\ ~Committed(v, g)
    BY <1>1, <2>3
  <2>5. \A h \in Hash : h < v /\ h >= g /\ ~Dead(h) => h \in keys
    <3> SUFFICES ASSUME NEW h \in Hash, h < v, h >= g, ~Dead(h) PROVE ~Committed(v, h)
      OBVIOUS
    <3>1. Committed(v, h) => Committed(v, g)
      BY <1>1, <2>3 DEF Committed
    <3>2. QED
      BY <2>4, <3>1
  <2>6. p \in keys /\ p \in S
    BY <1>1, <1>6, <2>3, <2>5
  <2>7. g < p
    BY <1>1, <2>3, <2>6
  <2> DEFINE n == IF Dead(g + 1) THEN g + 2 ELSE g + 1
  <2>8. n \in Int /\ n >= 0 /\ g < n /\ n <= p /\ n < v /\ ~Dead(n) /\ Prev(n) = g
    <3>1. g >= -1
      BY <2>3, BlockOf DEF Genesis
    <3>2. CASE Dead(g + 1)
      <4>1. g + 1 \in Int /\ (g + 1) + 1 = g + 2 /\ (g + 2) - 1 = g + 1 /\ (g + 2) - 2 = g
        BY <2>3
      <4>2. ~Dead(g + 2)
        BY <3>2, <4>1, DeadFacts
      <4>3. g + 1 # p
        BY <3>2
      <4>4. Prev(g + 2) = g
        BY <3>2, <4>1 DEF Prev
      <4>5. QED
        BY <1>1, <2>3, <2>7, <3>1, <3>2, <4>2, <4>3, <4>4
    <3>3. CASE ~Dead(g + 1)
      <4>1. (g + 1) - 1 = g
        BY <2>3
      <4>2. Prev(g + 1) = g
        BY <2>4, <4>1 DEF Prev
      <4>3. QED
        BY <1>1, <2>3, <2>7, <3>1, <3>3, <4>2
    <3>4. QED
      BY <3>2, <3>3
  <2> HIDE DEF n
  <2>9. n \in Slot /\ n \in Hash
    BY <1>1, <2>8, QCTypes DEF Slot
  <2>10. n \in keys
    BY <2>3, <2>5, <2>8, <2>9
  <2>11. n \in S
    <3>1. n \notin T
      BY <2>2, <2>3, <2>8
    <3>2. QED
      BY <2>8, <2>10, <3>1 DEF T
  <2>12. map[n].batch_hash # Genesis /\ map[n].parent_hash = g
    BY <1>2, <1>3, <2>8, <2>9, <2>10, QCTypes
  <2>13. QED
    BY <1>6, <2>3, <2>11, <2>12
<1>7. Below \subseteq Ancestors(map, keys, p)
  BY <1>6 DEF Ancestors
<1>8. QED
  BY <1>5, <1>7

(* One advance_view takes the chain of view v to the chain of view v + 1:  *)
(* the certificate of v is prepared, and with the two views before it      *)
(* certified as well the block of v - 2 and all older ones are executed.   *)
LEMMA ChainStep ==
  ASSUME Tolerated, NEW v \in Slot, ~Dead(v), NEW chn, ChainAt(chn, v)
  PROVE  ChainAt(update_lockQC(StoreQC(chn, QCAt(v)), QCAt(v), v + 1, v), v + 1)
<1> DEFINE QC  == QCAt(v)
           c   == StoreQC(chn, QC)
           map == c.hash_to_QC
           B2  == map[QC.parent_hash]
           B3  == map[B2.parent_hash]
           one   == QC.viewNumber + 1 = v + 1
           two   == one /\ B2.viewNumber + 2 = v + 1
           three == two /\ B3.viewNumber + 3 = v + 1
           keys  == c.keys \cup {QC.parent_hash, B2.parent_hash}
                           \cup (IF three THEN {B3.batch_hash} ELSE {})
           sent  == IF three THEN send_execute_msg_hotstuff(map, keys, v - 2) ELSE {}
           prep  == IF one THEN Newer(QC, c.g_preparedQC) ELSE c.g_preparedQC
           lock  == IF two THEN Newer(B2, c.g_lockedQC) ELSE c.g_lockedQC
           map2  == [h \in Hash |-> IF h \in sent THEN DefaultQC ELSE map[h]]
           exec2 == [h \in Hash |-> IF h \in sent THEN c.executes[h] + 1 ELSE c.executes[h]]
           K == KeysAt(v) \cup {v}
           p == Prev(v)
<1>1. update_lockQC(c, QC, v + 1, v) =
        [hash_to_QC |-> map2, keys |-> keys \ sent, g_preparedQC |-> prep, g_lockedQC |-> lock,
         executes |-> exec2]
  BY DEF update_lockQC
<1>2. /\ QC.genesis = FALSE /\ QC.viewNumber = v /\ QC.batch_hash = v /\ QC.parent_hash = p
      /\ v \in Hash /\ v \in Nat /\ v \in 0 .. MaxView + 1
      /\ Hash \subseteq Int /\ Slot \subseteq Nat /\ MaxView \in Nat
  BY QCAtFields, QCTypes DEF Slot, Hash, Genesis
<1>3. /\ map = [MapAt(v) EXCEPT ![v] = QC] /\ c.keys = K
      /\ c.g_preparedQC = QCAt(p) /\ LockAt(c.g_lockedQC, v) /\ c.executes = ExecAt(v)
  BY <1>2 DEF StoreQC, ChainAt
<1> HIDE DEF c
<1>4. /\ \A h \in K : map[h] = QCAt(h)
      /\ \A h \in Hash : h \notin K => map[h] = DefaultQC
      /\ K \in SUBSET Hash
  BY <1>2, <1>3 DEF MapAt, KeysAt
<1> HIDE DEF map, QC
<1>5. /\ p \in Hash /\ p \in Int /\ p < v /\ ~Dead(p) /\ (v >= 1 => p \in Slot)
      /\ Dead(v - 1) => p = v - 2
      /\ ~Dead(v - 1) => p = v - 1
      /\ p \in KeysAt(v)
  <2>1. p \in Hash /\ p < v /\ ~Dead(p) /\ ~Committed(v, p) /\ (v >= 1 => p \in Slot)
    BY <1>2, PrevHash, PrevFacts, NotCommitted
  <2>2. QED
    BY <1>2, <2>1, PrevFacts DEF KeysAt
<1>6. B2 = QCAt(p)
  BY <1>2, <1>4, <1>5
<1> DEFINE pp == B2.parent_hash
<1>7. /\ pp \in K /\ (v = 0 => B2.viewNumber = 0) /\ (v >= 1 => B2.viewNumber = p /\ pp = Prev(p))
      /\ (v = 1 => pp = Genesis)
  <2>1. CASE v = 0
    <3>1. p = Genesis
      BY <2>1, <1>2, PrevFacts
    <3>2. pp = Genesis /\ B2.viewNumber = 0
      BY <1>6, <3>1, QCAtFields DEF GenesisQC
    <3>3. QED
      BY <1>5, <2>1, <3>1, <3>2
  <2>2. CASE v >= 1
    <3>1. p \in Slot /\ p \in Int /\ p >= 0 /\ p \in 0 .. MaxView + 1
      BY <1>2, <1>5, <2>2
    <3>2. B2.viewNumber = p /\ pp = Prev(p)
      BY <1>6, <3>1, QCAtFields
    <3>3. Prev(p) \in Hash /\ Prev(p) \in Int /\ Prev(p) < p /\ ~Dead(Prev(p)) /\ (p = 0 => Prev(p) = Genesis)
      BY <3>1, PrevHash, PrevFacts
    <3>4. ~Committed(v, Prev(p))
      BY <1>2, <2>2, NotCommitted
    <3>5. Prev(p) < v
      BY <1>2, <1>5, <3>3
    <3>6. Prev(p) \in KeysAt(v)
      BY <3>3, <3>4, <3>5 DEF KeysAt
    <3>7. v = 1 => p = 0
      BY <1>2, <1>5, <3>1
    <3>8. QED
      BY <1>2, <2>2, <3>2, <3>3, <3>6, <3>7
  <2>3. QED
    BY <1>2, <2>1, <2>2
<1>8. B3 = QCAt(pp) /\ B3.batch_hash = pp
  BY <1>4, <1>7, BlockOf
<1>9. one /\ (two <=> v >= 1 /\ ~Dead(v - 1))
  BY <1>2, <1>5, <1>7
<1>10. three <=> v >= 2 /\ Three(v - 2)
  <2>1. Three(v - 2) <=> ~Dead(v - 2) /\ ~Dead(v - 1)
    <3>1. (v - 2) + 1 = v - 1 /\ (v - 2) + 2 = v
      BY <1>2
    <3>2. QED
      BY <3>1 DEF Three
  <2>2. CASE v < 2
    <3>1. v = 1 => B3.viewNumber = 0
      BY <1>7, <1>8, QCAtFields DEF GenesisQC
    <3>2. v = 0 => ~two
      BY <1>9
    <3>3. QED
      BY <1>2, <2>2, <3>1, <3>2
  <2>3. CASE v >= 2 /\ ~two
    BY <1>2, <1>9, <2>1, <2>3
  <2>4. CASE v >= 2 /\ two
    <3>1. p = v - 1 /\ ~Dead(v - 1) /\ pp = Prev(v - 1) /\ v - 1 \in Int /\ v - 1 >= 0
      BY <1>2, <1>5, <1>7, <1>9, <2>4
    <3>2. /\ Dead((v - 1) - 1) => Prev(v - 1) = (v - 1) - 2
          /\ ~Dead((v - 1) - 1) => Prev(v - 1) = (v - 1) - 1
          /\ (v - 1) - 1 = v - 2
          /\ v - 1 \in 0 .. MaxView + 1
      BY <1>2, <3>1, PrevFacts
    <3>3. Prev(v - 1) \in Slot
      BY <1>2, <2>4, <3>2, PrevHash
    <3>4. B3.viewNumber = Prev(v - 1)
      BY <1>8, <3>1, <3>3, QCAtFields
    <3>5. QED
      BY <1>2, <2>1, <2>4, <3>1, <3>2, <3>4
  <2>5. QED
    BY <1>2, <2>2, <2>3, <2>4
<1>11. keys = K
  BY <1>2, <1>3, <1>5, <1>7, <1>8
<1> HIDE DEF B3, pp
<1>12. \A h : h \in sent <=> three /\ h \in K /\ h <= v - 2
  <2>1. CASE ~three
    BY <2>1
  <2>2. CASE three
    <3> DEFINE w == v - 2
    <3>1. w \in Slot /\ w \in Int /\ w >= 0 /\ ~Dead(w) /\ w \in 0 .. MaxView + 1 /\ w < v
      BY <1>2, <1>10, <2>2, QCTypes DEF Three, Slot
    <3>2. w \in K
      <4>1. Prev(v) = v - 1 /\ Prev(v - 1) = v - 2
        <5>1. ~Dead(v - 1) /\ ~Dead(v - 2) /\ (v - 1) - 1 = v - 2
          <6>1. (v - 2) + 1 = v - 1 /\ (v - 1) - 1 = v - 2
            BY <1>2
          <6>2. QED
            BY <1>10, <2>2, <6>1 DEF Three
        <5>2. QED
          BY <5>1 DEF Prev
      <4>2. ~Committed(v, w)
        BY <1>2, <1>10, <2>2, <4>1, NotCommitted
      <4>3. QED
        BY <3>1, <4>2, QCTypes DEF KeysAt
    <3> HIDE DEF w
    <3>3. map[w].parent_hash = Prev(w)
      BY <1>4, <3>1, <3>2, QCAtFields
    <3>4. Prev(w) \in Hash /\ ~Dead(Prev(w)) /\ Prev(w) \in Int /\ Prev(w) < w
          /\ \A h \in Int : h < w /\ ~Dead(h) => h <= Prev(w)
      BY <3>1, PrevHash, PrevFacts
    <3>5. Prev(w) < v
      BY <1>2, <3>1, <3>4
    <3>6. \A h \in Hash : h < v => (h \in K <=> ~Dead(h) /\ ~Committed(v, h))
      BY <1>2 DEF KeysAt
    <3> HIDE DEF K
    <3>7. Ancestors(map, K, Prev(w)) = {h \in K : h <= Prev(w)}
      BY <1>4, <3>4, <3>5, <3>6, Walk
    <3>8. sent = {map[g].batch_hash : g \in {h \in K : h <= Prev(w)}} \cup {w}
      BY <1>11, <2>2, <3>3, <3>7 DEF send_execute_msg_hotstuff, w
    <3> HIDE DEF sent
    <3>9. \A g \in K : map[g].batch_hash = g
      BY <1>4, BlockOf
    <3>10. sent = {h \in K : h <= Prev(w)} \cup {w}
      BY <3>8, <3>9
    <3>11. \A h \in K : h <= w <=> h <= Prev(w) \/ h = w
      <4>1. \A h \in K : h \in Int /\ (h < w => ~Dead(h))
        BY <1>2, <1>4, <3>1 DEF K, KeysAt
      <4>2. QED
        BY <3>1, <3>4, <4>1
    <3>12. \A h : h \in sent <=> h \in K /\ h <= w
      BY <3>1, <3>2, <3>10, <3>11
    <3>13. QED
      BY <2>2, <3>12 DEF w
  <2>3. QED
    BY <2>1, <2>2
<1> HIDE DEF sent
<1>13. \A h \in Hash : Committed(v + 1, h) <=> Committed(v, h) \/ (three /\ h <= v - 2)
  BY <1>2, <1>10, CommittedNext
<1>14. \A h \in Hash : h \in K <=> h < v + 1 /\ ~Dead(h) /\ ~Committed(v, h)
  <2>1. ~Committed(v, v)
    BY <1>2 DEF Committed
  <2>2. \A h \in Hash : h < v + 1 <=> h < v \/ h = v
    BY <1>2
  <2>3. QED
    BY <1>2, <2>1, <2>2 DEF KeysAt
<1> HIDE DEF K, three
<1>15. keys \ sent = KeysAt(v + 1)
  <2>1. \A h : h \in keys \ sent <=> h \in Hash /\ h < v + 1 /\ ~Dead(h) /\ ~Committed(v + 1, h)
    BY <1>4, <1>11, <1>12, <1>13, <1>14
  <2>2. QED
    BY <2>1 DEF KeysAt
<1>16. map2 = MapAt(v + 1)
  <2>1. \A h \in Hash : (IF h \in sent THEN DefaultQC ELSE map[h])
                          = IF h \in KeysAt(v + 1) THEN QCAt(h) ELSE DefaultQC
    <3> TAKE h \in Hash
    <3>1. h \in KeysAt(v + 1) <=> h \in K /\ h \notin sent
      BY <1>11, <1>15
    <3>2. QED
      BY <1>4, <3>1
  <2>2. QED
    BY <2>1 DEF MapAt
<1>17. exec2 = ExecAt(v + 1)
  <2>1. \A h \in Hash : (IF h \in sent THEN ExecAt(v)[h] + 1 ELSE ExecAt(v)[h]) = ExecAt(v + 1)[h]
    <3> TAKE h \in Hash
    <3>1. /\ ExecAt(v)[h] = IF ~Dead(h) /\ Committed(v, h) THEN 1 ELSE 0
          /\ ExecAt(v + 1)[h] = IF ~Dead(h) /\ Committed(v + 1, h) THEN 1 ELSE 0
      BY DEF ExecAt
    <3>2. CASE h \in sent
      <4>1. ~Dead(h) /\ ~Committed(v, h) /\ Committed(v + 1, h)
        BY <1>12, <1>13, <1>14, <3>2
      <4>2. QED
        BY <3>1, <3>2, <4>1
    <3>3. CASE h \notin sent
      <4>1. ~Dead(h) => (Committed(v, h) <=> Committed(v + 1, h))
        <5>1. three /\ h <= v - 2 => h < v + 1
          BY <1>2
        <5>2. QED
          BY <1>12, <1>13, <1>14, <3>3, <5>1
      <4>2. QED
        BY <3>1, <3>3, <4>1
    <3>4. QED
      BY <3>2, <3>3
  <2>2. exec2 = [h \in Hash |-> ExecAt(v + 1)[h]]
    BY <1>3, <2>1
  <2>3. QED
    BY <2>2 DEF ExecAt
<1>18. Prev(v + 1) = v
  <2>1. (v + 1) - 1 = v
    BY <1>2
  <2>2. QED
    BY <2>1 DEF Prev
<1>19. prep = QCAt(Prev(v + 1))
  <2>1. QCAt(p).genesis \/ QC.viewNumber > QCAt(p).viewNumber
    <3>1. CASE v = 0
      <4>1. p = Genesis
        BY <3>1, <1>2, PrevFacts
      <4>2. QED
        BY <4>1, QCAtFields DEF GenesisQC
    <3>2. CASE v >= 1
      <4>1. QCAt(p).viewNumber = p
        BY <1>5, <3>2, QCAtFields
      <4>2. QED
        BY <1>2, <1>5, <4>1
    <3>3. QED
      BY <1>2, <3>1, <3>2
  <2>2. QED
    BY <1>3, <1>9, <1>18, <2>1 DEF Newer, QC
<1>20. LockAt(lock, v + 1)
  <2> DEFINE old == c.g_lockedQC
  <2>1. CASE two
    <3>1. v >= 1 /\ ~Dead(v - 1) /\ p = v - 1 /\ v - 1 \in Slot /\ (v - 1) + 1 = v /\ (v - 1) + 2 <= v + 1
      BY <1>2, <1>5, <1>9, <2>1
    <3>2. lock = Newer(QCAt(v - 1), old) /\ QCAt(v - 1).viewNumber = v - 1
      BY <1>6, <2>1, <3>1, QCAtFields
    <3>3. old.genesis \/ v - 1 > old.viewNumber
      <4>1. CASE old = GenesisQC
        BY <4>1 DEF GenesisQC
      <4>2. ASSUME NEW a \in Slot, old = QCAt(a), a + 2 <= v
            PROVE  v - 1 > old.viewNumber
        <5>1. old.viewNumber = a
          BY <4>2, QCAtFields
        <5>2. QED
          BY <1>2, <4>2, <5>1
      <4>3. QED
        BY <1>3, <4>1, <4>2 DEF LockAt
    <3>4. lock = QCAt(v - 1)
      BY <3>2, <3>3 DEF Newer
    <3>5. Two(v - 1)
      BY <3>1 DEF Two
    <3>6. \A b \in Slot : b + 2 <= v + 1 => b <= v - 1
      BY <1>2
    <3> HIDE DEF lock
    <3>7. QED
      BY <3>1, <3>4, <3>5, <3>6 DEF LockAt
  <2>2. CASE ~two
    <3>1. \A b \in Slot : Two(b) => (b + 2 <= v + 1 <=> b + 2 <= v) /\ (b + 2 > v => b + 2 > v + 1)
      <4> SUFFICES ASSUME NEW b \in Slot, Two(b) PROVE b # v - 1
        BY <1>2
      <4>1. CASE b = v - 1
        <5>1. v >= 1
          BY <1>2, <4>1
        <5>2. QED
          BY <1>9, <2>2, <4>1, <5>1 DEF Two
      <4>2. QED
        BY <4>1
    <3>2. lock = old
      BY <2>2
    <3> HIDE DEF lock, two
    <3>3. LockAt(old, v)
      BY <1>3
    <3> HIDE DEF old
    <3>4. LockAt(old, v + 1)
      BY <3>1, <3>3 DEF LockAt
    <3>5. QED
      BY <3>2, <3>4
  <2>3. QED
    BY <2>1, <2>2
<1> HIDE DEF map2, keys, prep, lock, exec2
<1>21. ChainAt(update_lockQC(c, QC, v + 1, v), v + 1)
  BY <1>1, <1>15, <1>16, <1>17, <1>19, <1>20 DEF ChainAt
<1>22. QED
  BY <1>21 DEF c, QC
-----------------------------------------------------------------------------
(* Slots are natural numbers. *)
LEMMA SlotInt == \A v \in Slot : v \in Int /\ v >= 0
  BY QCTypes DEF Slot

(* Views are integers, and so is the view whose chain a replica has. *)
LEMMA AtType ==
  TypeOK => \A r \in Replica : /\ view[r] \in Int /\ view[r] >= 0 /\ view[r] <= MaxView + 1
                              /\ At(r) \in Int /\ At(r) >= 0
<1> SUFFICES ASSUME TypeOK, NEW r \in Replica
             PROVE  /\ view[r] \in Int /\ view[r] >= 0 /\ view[r] <= MaxView + 1
                    /\ At(r) \in Int /\ At(r) >= 0
  OBVIOUS
<1>1. view[r] \in 0 .. MaxView + 1 /\ MaxView \in Nat
  BY QCTypes DEF TypeOK
<1>2. chain[r].g_preparedQC.viewNumber \in Slot
  BY DEF TypeOK, Chain, QuorumCertificate
<1>3. chain[r].g_preparedQC.viewNumber \in Int /\ chain[r].g_preparedQC.viewNumber >= 0
  BY <1>2, SlotInt
<1>4. QED
  BY <1>1, <1>3 DEF At

(* Quorums only grow. *)
LEMMA ReplicaFinite == IsFiniteSet(Replica)
  BY ConstantsAssumption, FS_Interval DEF Replica

(* A set of replicas that contains a quorum is a quorum. *)
LEMMA LargerQuorum ==
  ASSUME NEW B \in SUBSET Replica, NEW A \in SUBSET B, Cardinality(A) >= nf
  PROVE  Cardinality(B) >= nf
<1>1. IsFiniteSet(B)
  BY ReplicaFinite, FS_Subset
<1>2. IsFiniteSet(A) /\ Cardinality(A) <= Cardinality(B)
  BY <1>1, FS_Subset
<1>3. Cardinality(A) \in Nat /\ Cardinality(B) \in Nat
  BY <1>1, <1>2, FS_CardinalityType
<1>4. nf \in Int
  BY ConstantsAssumption DEF nf, g_min_invalid_nodes
<1>5. QED
  BY <1>2, <1>3, <1>4
-----------------------------------------------------------------------------
(* LinearChain holds in the initial state: no view is passed, nothing is locked. *)
LEMMA InitLinear ==
  ASSUME Tolerated, Init
  PROVE  LinearChain
<1>0. \A a \in Slot : a >= 0 /\ a \in Int
  BY SlotInt
<1>1. ChainInv
  <2>1. \A h \in Hash : h < 0 /\ ~Dead(h) /\ ~Committed(0, h) <=> h = Genesis
    <3>1. \A h : ~Committed(0, h)
      BY <1>0 DEF Committed
    <3>2. \A h \in Hash : h < 0 <=> h = Genesis
      BY QCTypes DEF Hash, Genesis
    <3>3. QED
      BY <3>1, <3>2, DeadFacts
  <2>2. KeysAt(0) = {Genesis}
    BY <2>1, QCTypes, Zenon DEF KeysAt
  <2>3. MapAt(0) = [h \in Hash |-> IF h = Genesis THEN GenesisQC ELSE DefaultQC]
    BY <2>2, QCAtFields DEF MapAt
  <2>4. ExecAt(0) = [h \in Hash |-> 0]
    BY <1>0 DEF ExecAt, Committed
  <2>5. LockAt(GenesisQC, 0)
    BY <1>0 DEF LockAt
  <2>6. QCAt(Prev(0)) = GenesisQC
    <3>1. Prev(0) = Genesis
      BY PrevFacts
    <3>2. QED
      BY <3>1, QCAtFields
  <2>7. ASSUME NEW r \in Replica
        PROVE  ~Lost(r) /\ At(r) = 0 /\ ChainAt(chain[r], At(r))
    <3>1. view[r] = 0
      BY DEF Init
    <3>2. ~Lost(r)
      BY <3>1, ConstantsAssumption DEF Lost
    <3>3. At(r) = 0
      BY <3>1, <3>2 DEF At
    <3>4. ChainAt(chain[r], 0)
      BY <2>2, <2>3, <2>4, <2>5, <2>6 DEF Init, ChainAt
    <3>5. QED
      BY <3>2, <3>3, <3>4
  <2>8. QED
    BY <2>7 DEF ChainInv
<1>2. \A r \in Replica : At(r) = 0
  BY ConstantsAssumption DEF Init, At, Lost
<1>3. GenericInv /\ ReceivedInv /\ ParkedInv /\ VoteInv
  BY DEF Init, GenericInv, ReceivedInv, ParkedInv, VoteInv
<1>4. PassedInv /\ ViewQuorum
  <2>1. \A s \in Slot : ~(s < 0)
    BY <1>0
  <2>2. QED
    BY <1>2, <2>1 DEF Init, PassedInv, ViewQuorum
<1>5. FailInv
  BY <1>0, <1>2 DEF Init, FailInv
<1>6. SendInv
  BY FirstSendView DEF Init, SendInv
<1>7. QED
  BY <1>1, <1>3, <1>4, <1>5, <1>6 DEF LinearChain
-----------------------------------------------------------------------------
(* What the pieces of the handlers do to the invariant. *)

(* A step in which views are left only with their certificates.            *)
Advances ==
  \A q \in Replica :
    /\ view'[q] \in Int /\ view[q] <= view'[q]
    /\ Lost(q)' <=> Lost(q)
    /\ At(q)' \in Int /\ At(q) <= At(q)'
    /\ \A t \in Slot : (view[q] <= t /\ t < view'[q]) \/ (At(q) <= t /\ t < At(q)')
                         => t \in new_viewed'[q] /\ ~Dead(t)

(* The threads that send leave the chain alone. *)
LEMMA SameView ==
  ASSUME TypeOK, view' = view, chain' = chain
  PROVE  Advances /\ \A q \in Replica : At(q)' = At(q) /\ (Lost(q)' <=> Lost(q))
<1>1. \A q \in Replica : At(q)' = At(q) /\ (Lost(q)' <=> Lost(q))
  BY DEF At, Lost
<1>2. \A q \in Replica : view[q] \in Int /\ At(q) \in Int
  BY AtType
<1>3. Slot \subseteq Int
  BY SlotInt
<1>4. QED
  BY <1>1, <1>2, <1>3 DEF Advances

(* A replica whose instance threads take messages has the chain of its view. *)
LEMMA RunningAt ==
  ASSUME NEW r \in Replica, Running(r)
  PROVE  ~Lost(r) /\ At(r) = view[r] /\ view[r] \in Slot /\ (r \in Faulty => view[r] < CRASH_VIEW)
<1>1. view[r] \in Slot /\ view[r] \in Int /\ CRASH_VIEW \in Nat
  BY SlotInt, ConstantsAssumption DEF Running
<1>2. r \in Faulty => view[r] < CRASH_VIEW
  BY <1>1 DEF Running, Crashed
<1>3. QED
  BY <1>1, <1>2 DEF Lost, At

(* A proposal waits for its GENERIC in the view it was made for. *)
LEMMA WaitingProposal ==
  ASSUME Tolerated, TypeOK, LinearChain, NEW r \in Replica, incomplete_proposal_cnt[r] # 0, ~Lost(r)
  PROVE  last_sent_view[r] = view[r]
<1> DEFINE s == last_sent_view[r]
<1>1. s \in Slot /\ s \in Int /\ view[r] \in Int /\ s <= view[r] /\ get_view_primary(s) = r
  <2>1. view[r] \in Int
    BY AtType
  <2>2. s \in Slot /\ s \in Int
    BY SlotInt DEF TypeOK
  <2>3. s <= view[r] /\ get_view_primary(s) = r
    BY DEF LinearChain, SendInv
  <2>4. QED
    BY <2>1, <2>2, <2>3
<1>2. \A m \in generics : m.slot # s
  BY DEF LinearChain, SendInv
<1>3. ~Dead(s)
  BY <1>1, ConstantsAssumption DEF Dead, Lost
<1>4. ~(s < view[r])
  <2> SUFFICES ASSUME s < view[r] PROVE FALSE
    OBVIOUS
  <2>1. s \in generic_received[r]
    BY <1>1, <1>3 DEF LinearChain, PassedInv, At
  <2>2. \E m \in generics : m.slot = s
    BY <2>1 DEF LinearChain, ReceivedInv
  <2>3. QED
    BY <1>2, <2>2
<1>5. QED
  BY <1>1, <1>4

(* advance_view keeps the chain of the replica the one its view determines. *)
LEMMA AdvanceInv ==
  ASSUME Tolerated, TypeOK, LinearChain, NEW r \in Replica, NEW s \in Slot, NEW ready \in BOOLEAN,
         NEW c, NEW high, NEW w, Running(r),
         advance_view(r, s, ready, c, high, w),
         ChainAt(c, view[r]),
         ready => /\ s = view[r] /\ high = QCAt(Prev(s)) /\ ~Dead(s)
                  /\ s \in generic_received'[r] /\ s \in proposal_received'[r]
                  /\ s \in new_viewed'[r],
         \A q \in Replica : /\ generic_received[q] \subseteq generic_received'[q]
                            /\ proposal_received[q] \subseteq proposal_received'[q]
                            /\ new_viewed[q] \subseteq new_viewed'[q]
  PROVE  ChainInv' /\ PassedInv' /\ ParkedInv' /\ Advances
<1> DEFINE v == view[r]
<1>0. /\ v \in Int /\ v \in Slot /\ view \in [Replica -> 0 .. MaxView + 1] /\ chain \in [Replica -> Chain]
      /\ temp_queue \in [Replica -> SUBSET Slot] /\ CRASH_VIEW \in Nat
      /\ Slot \subseteq Int
  BY RunningAt, SlotInt, ConstantsAssumption DEF TypeOK
<1>1. \A q \in Replica : view[q] \in Int /\ At(q) \in Int
  BY AtType
<1>2. ~Lost(r) /\ At(r) = v /\ (r \in Faulty => v < CRASH_VIEW)
  BY RunningAt
<1>3. \A q \in Replica : /\ ChainAt(chain[q], At(q))
                         /\ Lost(q) => At(q) <= CRASH_VIEW /\ get_view_primary(view[q]) \notin Faulty
  BY DEF LinearChain, ChainInv
<1>4. CASE ready
  <2> DEFINE X == update_lockQC(StoreQC(c, QCAt(v)), QCAt(v), v + 1, v)
  <2>1. GenericQC(v, s, high) = QCAt(v)
    BY <1>4, GenericQCAt
  <2>2. chain' = [chain EXCEPT ![r] = X]
    BY <1>4, <2>1 DEF advance_view
  <2>3. ChainAt(X, v + 1)
    BY <1>0, <1>4, ChainStep
  <2> HIDE DEF X
  <2>4. view' = [view EXCEPT ![r] = v + 1] /\ temp_queue' = [temp_queue EXCEPT ![r] = {}]
    BY <1>4 DEF advance_view, set_view, reenqueue, setTimer
  <2>5. view'[r] = v + 1 /\ chain'[r] = X
    BY <1>0, <2>2, <2>4
  <2>6. \A q \in Replica : q # r => view'[q] = view[q] /\ chain'[q] = chain[q]
    BY <1>0, <2>2, <2>4
  <2>7. \A q \in Replica : q # r => At(q)' = At(q) /\ (Lost(q)' <=> Lost(q))
    BY <2>6 DEF At, Lost
  <2>8. ~Lost(r)'
    BY <1>0, <1>2, <2>5 DEF Lost
  <2>9. At(r)' = v + 1
    BY <2>5, <2>8 DEF At
  <2>10. ChainInv'
    <3> SUFFICES ASSUME NEW q \in Replica
                 PROVE  /\ ChainAt(chain[q], At(q))'
                        /\ Lost(q)' => At(q)' <= CRASH_VIEW /\ get_view_primary(view'[q]) \notin Faulty
      BY DEF ChainInv, get_view_primary
    <3>1. CASE q = r
      <4>1. ChainAt(chain'[r], At(r)')
        BY <2>3, <2>5, <2>9
      <4>2. QED
        BY <2>8, <3>1, <4>1
    <3>2. CASE q # r
      <4>1. ChainAt(chain'[q], At(q)')
        BY <1>3, <2>6, <2>7, <3>2
      <4>2. QED
        BY <1>3, <2>6, <2>7, <3>2, <4>1
    <3>3. QED
      BY <3>1, <3>2
  <2>11. Advances
    <3> SUFFICES ASSUME NEW q \in Replica
                 PROVE  /\ view'[q] \in Int /\ view[q] <= view'[q]
                        /\ Lost(q)' <=> Lost(q)
                        /\ At(q)' \in Int /\ At(q) <= At(q)'
                        /\ \A t \in Slot : (view[q] <= t /\ t < view'[q]) \/ (At(q) <= t /\ t < At(q)')
                                             => t \in new_viewed'[q] /\ ~Dead(t)
      BY DEF Advances
    <3>1. CASE q = r
      <4>1. \A t \in Slot : v <= t /\ t < v + 1 => t = v
        BY <1>0
      <4>2. \A t \in Slot : v <= t /\ t < v + 1 => t \in new_viewed'[r] /\ ~Dead(t)
        BY <1>4, <4>1
      <4>3. v + 1 \in Int /\ v <= v + 1
        BY <1>0
      <4>4. QED
        BY <1>2, <2>5, <2>8, <2>9, <3>1, <4>2, <4>3
    <3>2. CASE q # r
      BY <1>0, <1>1, <2>6, <2>7, <3>2
    <3>3. QED
      BY <3>1, <3>2
  <2>12. PassedInv'
    <3> SUFFICES ASSUME NEW q \in Replica, NEW t \in Slot, t < At(q)', ~Dead(t)
                 PROVE  /\ t \in generic_received'[q] /\ t \in proposal_received'[q]
                        /\ t \in new_viewed'[q]
      BY DEF PassedInv, Dead, get_view_primary
    <3>1. CASE t < At(q)
      BY <3>1 DEF LinearChain, PassedInv
    <3>2. CASE ~(t < At(q))
      <4>1. q = r /\ t = v
        BY <1>0, <1>1, <1>2, <2>7, <2>9, <3>2
      <4>2. QED
        BY <1>4, <4>1
    <3>3. QED
      BY <3>1, <3>2
  <2>13. ParkedInv'
    <3> SUFFICES ASSUME NEW q \in Replica, NEW t \in temp_queue'[q] PROVE t > view'[q]
      BY DEF ParkedInv
    <3>1. q # r
      BY <1>0, <2>4
    <3>2. QED
      BY <1>0, <2>4, <3>1 DEF LinearChain, ParkedInv
  <2>14. QED
    BY <2>10, <2>11, <2>12, <2>13
<1>5. CASE ~ready
  <2>1. chain' = [chain EXCEPT ![r] = c] /\ view' = view /\ temp_queue' = temp_queue
    BY <1>5 DEF advance_view
  <2>2. \A q \in Replica : Lost(q)' <=> Lost(q)
    BY <2>1 DEF Lost
  <2>3. \A q \in Replica : q # r => chain'[q] = chain[q]
    BY <1>0, <2>1
  <2>4. \A q \in Replica : At(q)' = At(q)
    <3> TAKE q \in Replica
    <3>1. CASE q = r
      BY <1>2, <2>1, <2>2, <3>1 DEF At
    <3>2. CASE q # r
      BY <2>1, <2>2, <2>3, <3>2 DEF At
    <3>3. QED
      BY <3>1, <3>2
  <2>5. ChainInv'
    <3> SUFFICES ASSUME NEW q \in Replica
                 PROVE  /\ ChainAt(chain[q], At(q))'
                        /\ Lost(q)' => At(q)' <= CRASH_VIEW /\ get_view_primary(view'[q]) \notin Faulty
      BY DEF ChainInv, get_view_primary
    <3>1. ChainAt(chain'[q], At(q)')
      <4>1. CASE q = r
        BY <1>0, <1>2, <2>1, <2>4, <4>1
      <4>2. CASE q # r
        BY <1>3, <2>3, <2>4, <4>2
      <4>3. QED
        BY <4>1, <4>2
    <3>2. QED
      BY <1>3, <2>1, <2>2, <2>4, <3>1
  <2>6. PassedInv'
    BY <2>4 DEF LinearChain, PassedInv
  <2>7. ParkedInv'
    BY <2>1 DEF LinearChain, ParkedInv
  <2>8. Advances
    BY <1>0, <1>1, <2>1, <2>2, <2>4 DEF Advances
  <2>9. QED
    BY <2>5, <2>6, <2>7, <2>8
<1>6. QED
  BY <1>4, <1>5

(* A vote that is counted was sent. *)
LEMMA VoteStep ==
  ASSUME TypeOK, TypeOK', LinearChain, NEW r \in Replica, NEW s \in Slot, NEW q \in Replica,
         AddVote(r, s, q), syncs \subseteq syncs', q \in Voters(s)',
         \A m \in syncs' : m.slot = m.view /\ m.slot \in generic_received'[m.src]
  PROVE  VoteInv' /\ \A p \in Replica : new_viewed[p] \subseteq new_viewed'[p]
<1>0. /\ new_viewed \in [Replica -> SUBSET Slot]
      /\ hash_voters \in [Replica -> [Slot -> SUBSET Replica]]
  BY DEF TypeOK
<1>1. \A t : Voters(t) \subseteq Voters(t)' /\ Voters(t)' \subseteq Replica
  BY DEF Voters
<1>2. \A p \in Replica, t \in Slot : hash_voters[p][t] \subseteq Voters(t)
  BY DEF LinearChain, VoteInv
<1>3. \A p \in Replica : new_viewed[p] \subseteq new_viewed'[p]
  BY <1>0 DEF AddVote
<1>4. ASSUME NEW p \in Replica, NEW t \in Slot
      PROVE  hash_voters'[p][t] \subseteq Voters(t)'
  <2>1. CASE p = r /\ t = s
    <3>1. hash_voters'[r][s] \subseteq hash_voters[r][s] \cup {q}
      BY <1>0 DEF AddVote
    <3>2. QED
      BY <1>1, <1>2, <2>1, <3>1
  <2>2. CASE ~(p = r /\ t = s)
    <3>1. hash_voters'[p][t] = hash_voters[p][t]
      BY <1>0, <2>2 DEF AddVote
    <3>2. QED
      BY <1>1, <1>2, <3>1
  <2>3. QED
    BY <2>1, <2>2
<1>5. ASSUME NEW p \in Replica, NEW t \in new_viewed'[p]
      PROVE  Cardinality(Voters(t)') >= nf
  <2>1. CASE t \in new_viewed[p]
    <3>1. Cardinality(Voters(t)) >= nf
      BY <2>1 DEF LinearChain, VoteInv
    <3>2. QED
      BY <1>1, <3>1, LargerQuorum
  <2>2. CASE t \notin new_viewed[p]
    <3>1. p = r /\ t = s /\ Quorum(r, s, q)
      BY <1>0, <2>2 DEF AddVote
    <3>2. Cardinality(hash_voters[r][s] \cup {q}) = nf
      BY <3>1 DEF Quorum
    <3>3. hash_voters[r][s] \cup {q} \subseteq Voters(s)'
      BY <1>1, <1>2
    <3>4. nf \in Int
      BY ConstantsAssumption DEF nf, g_min_invalid_nodes
    <3>5. Cardinality(hash_voters[r][s] \cup {q}) >= nf
      BY <3>2, <3>4
    <3>6. QED
      BY <1>1, <3>1, <3>3, <3>5, LargerQuorum
  <2>3. QED
    BY <2>1, <2>2
<1>6. QED
  BY <1>3, <1>4, <1>5 DEF VoteInv

(* The replica's own vote, cast in the view of its slot. *)
LEMMA OwnVote ==
  ASSUME TypeOK, TypeOK', LinearChain, NEW r \in Replica, NEW s \in Slot, s = view[r],
         send_hotstuff_newview(r, s), s \in generic_received'[r],
         \A q \in Replica : generic_received[q] \subseteq generic_received'[q]
  PROVE  VoteInv' /\ \A p \in Replica : new_viewed[p] \subseteq new_viewed'[p]
<1>0. \A m \in syncs : /\ m.slot = m.view /\ m.slot \in generic_received'[m.src]
                       /\ m.src \in Replica
  BY DEF TypeOK, SyncMsg, LinearChain, VoteInv
<1>1. CASE s \in sync_sent[r]
  <2>1. syncs' = syncs /\ new_viewed' = new_viewed /\ hash_voters' = hash_voters
    BY <1>1 DEF send_hotstuff_newview
  <2>2. \A t : Voters(t)' = Voters(t)
    BY <2>1 DEF Voters
  <2>3. QED
    BY <1>0, <2>1, <2>2 DEF LinearChain, VoteInv
<1>2. CASE s \notin sync_sent[r]
  <2> DEFINE m == [slot |-> s, view |-> view[r], src |-> r]
  <2>1. syncs' = syncs \cup {m} /\ AddVote(r, s, r)
    BY <1>2 DEF send_hotstuff_newview
  <2>2. m.slot = s /\ m.view = s /\ m.src = r
    OBVIOUS
  <2>3. r \in Voters(s)'
    BY <2>1, <2>2 DEF Voters
  <2>4. \A n \in syncs' : n.slot = n.view /\ n.slot \in generic_received'[n.src]
    BY <1>0, <2>1, <2>2
  <2>5. QED
    BY <2>1, <2>3, <2>4, VoteStep
<1>3. QED
  BY <1>1, <1>2
-----------------------------------------------------------------------------
(* The actions.  A step of an instance thread leaves the sending threads   *)
(* alone; only the views move on.                                          *)
LEMMA SendUnchanged ==
  ASSUME TypeOK, LinearChain, generics' = generics, proposals' = proposals, UNCHANGED sending, Advances
  PROVE  SendInv' /\ GenericInv'
<1>1. \A q \in Replica : view[q] \in Int /\ last_sent_view[q] \in Int
  <2>1. \A q \in Replica : view[q] \in Int
    BY AtType
  <2>2. \A q \in Replica : last_sent_view[q] \in Int
    BY SlotInt DEF TypeOK
  <2>3. QED
    BY <2>1, <2>2
<1>2. GenericInv'
  BY DEF LinearChain, GenericInv, Dead, get_view_primary
<1>3. \A r \in Replica : Lost(r)' <=> Lost(r)
  BY DEF Advances
<1>4. ASSUME NEW r \in Replica, incomplete_proposal_cnt[r] # 0, ~Lost(r)
      PROVE  last_sent_view[r] <= view'[r]
  <2>1. last_sent_view[r] <= view[r]
    BY <1>4 DEF LinearChain, SendInv
  <2>2. view'[r] \in Int /\ view[r] <= view'[r]
    BY DEF Advances
  <2>3. QED
    BY <1>1, <2>1, <2>2
<1>5. SendInv'
  BY <1>3, <1>4 DEF LinearChain, SendInv, sending
<1>6. QED
  BY <1>2, <1>5

(* A GENERIC received is not of a later view, also after views have moved on. *)
LEMMA AdvanceKeeps ==
  ASSUME TypeOK, LinearChain, Advances
  PROVE  \A q \in Replica : \A t \in generic_received[q] : t <= At(q)'
<1> SUFFICES ASSUME NEW q \in Replica, NEW t \in generic_received[q] PROVE t <= At(q)'
  OBVIOUS
<1>1. t <= At(q)
  BY DEF LinearChain, ReceivedInv
<1>2. t \in Slot
  BY DEF TypeOK
<1>3. t \in Int /\ At(q) \in Int
  BY <1>2, SlotInt, AtType
<1>4. At(q)' \in Int /\ At(q) <= At(q)'
  BY DEF Advances
<1>5. QED
  BY <1>1, <1>3, <1>4

(* With no new vote against a view, none is given up, and every view that  *)
(* is left is left behind a quorum.                                        *)
LEMMA FailUnchanged ==
  ASSUME TypeOK, LinearChain, non_votes' = non_votes, skips' = skips, fault_voters' = fault_voters,
         Advances
  PROVE  FailInv'
<1>0. \A q \in Replica : /\ view[q] \in Int /\ view'[q] \in Int /\ view[q] <= view'[q]
                         /\ At(q) \in Int /\ At(q)' \in Int
                         /\ \A t \in Slot : At(q) <= t /\ t < At(q)' => ~Dead(t)
  BY AtType DEF Advances
<1>1. Slot \subseteq Int
  BY SlotInt
<1>2. \A s : Deniers(s)' = Deniers(s)
  BY DEF Deniers
<1>3. ASSUME NEW m \in non_votes
      PROVE  m.src \in Correct /\ Dead(m.view) /\ m.view <= view'[m.src]
  <2>1. m.src \in Correct /\ Dead(m.view) /\ m.view <= view[m.src]
    BY DEF LinearChain, FailInv
  <2>2. m.src \in Replica /\ m.view \in Int
    BY <1>1, <2>1 DEF Correct, TypeOK, NonVoteMsg
  <2>3. QED
    BY <1>0, <2>1, <2>2
<1>4. ASSUME NEW r \in Replica, NEW s \in Slot
      PROVE  /\ fault_voters[r][s] \subseteq Deniers(s)
             /\ skips[r][s] <= 1
             /\ skips[r][s] > 0 => Dead(s) /\ s < view'[r]
             /\ Dead(s) /\ s < At(r)' => skips[r][s] = 1
  <2>1. /\ fault_voters[r][s] \subseteq Deniers(s)
        /\ skips[r][s] <= 1
        /\ skips[r][s] > 0 => Dead(s) /\ s < view[r]
        /\ Dead(s) /\ s < At(r) => skips[r][s] = 1
    BY DEF LinearChain, FailInv
  <2>2. s < view[r] => s < view'[r]
    BY <1>0, <1>1
  <2>3. Dead(s) /\ s < At(r)' => s < At(r)
    BY <1>0, <1>1
  <2>4. QED
    BY <2>1, <2>2, <2>3
<1>5. QED
  BY <1>2, <1>3, <1>4 DEF FailInv, Dead, get_view_primary, Correct, Replica

(* A view that was left behind a quorum has its quorum for good. *)
LEMMA QuorumStep ==
  ASSUME TypeOK, LinearChain, syncs \subseteq syncs', non_votes \subseteq non_votes',
         \A q \in Replica, t \in Slot :
           ~(t < view[q]) /\ t < view'[q]
             => Cardinality(Voters(t)') >= nf \/ Cardinality(Deniers(t)') >= nf
  PROVE  ViewQuorum'
<1>1. \A t : /\ Voters(t) \subseteq Voters(t)' /\ Voters(t)' \subseteq Replica
             /\ Deniers(t) \subseteq Deniers(t)' /\ Deniers(t)' \subseteq Replica
  BY DEF Voters, Deniers
<1>2. ASSUME NEW q \in Replica, NEW t \in Slot, t < view'[q], t < view[q]
      PROVE  Cardinality(Voters(t)') >= nf \/ Cardinality(Deniers(t)') >= nf
  <2>1. Cardinality(Voters(t)) >= nf \/ Cardinality(Deniers(t)) >= nf
    BY <1>2 DEF LinearChain, ViewQuorum
  <2>2. Cardinality(Voters(t)) >= nf => Cardinality(Voters(t)') >= nf
    BY <1>1, LargerQuorum
  <2>3. Cardinality(Deniers(t)) >= nf => Cardinality(Deniers(t)') >= nf
    BY <1>1, LargerQuorum
  <2>4. QED
    BY <2>1, <2>2, <2>3
<1>3. \A q \in Replica, t \in Slot :
        t < view'[q] => Cardinality(Voters(t)') >= nf \/ Cardinality(Deniers(t)') >= nf
  BY <1>2
<1>4. QED
  BY <1>3 DEF ViewQuorum, nf, g_min_invalid_nodes

(* advance_view leaves a view behind nf votes for it. *)
LEMMA QuorumAdvances ==
  ASSUME TypeOK, LinearChain, syncs \subseteq syncs', non_votes' = non_votes, Advances, VoteInv'
  PROVE  ViewQuorum'
<1>1. ASSUME NEW q \in Replica, NEW t \in Slot, ~(t < view[q]), t < view'[q]
      PROVE  Cardinality(Voters(t)') >= nf
  <2>1. view[q] <= t
    BY <1>1, AtType, SlotInt
  <2>2. t \in new_viewed'[q]
    BY <1>1, <2>1 DEF Advances
  <2>3. \A s \in new_viewed'[q] : Cardinality(Voters(s)') >= nf
    BY DEF VoteInv, nf, g_min_invalid_nodes
  <2>4. QED
    BY <2>2, <2>3
<1>2. QED
  BY <1>1, QuorumStep

(* Propose keeps the inductive invariant. *)
LEMMA ProposeInv ==
  ASSUME Tolerated, TypeOK, LinearChain, NEW r \in Replica, Propose(r)
  PROVE  LinearChain'
<1> DEFINE v == next_send_view[r]
<1>0. /\ v <= view[r] /\ v \in Slot /\ v \in Nat
      /\ next_send_view \in [Replica -> Nat] /\ last_sent_view \in [Replica -> Slot]
      /\ incomplete_proposal_cnt \in [Replica -> Nat]
      /\ proposal_received \in [Replica -> SUBSET Slot]
  BY QCTypes DEF TypeOK, Propose
<1>1. view[r] \in Int /\ Slot \subseteq Int /\ NODE_CNT \in Nat /\ NODE_CNT >= 1
  <2>1. view[r] \in Int
    BY AtType
  <2>2. QED
    BY <2>1, QCTypes, ConstantsAssumption
<1>2. ~Lost(r) => incomplete_proposal_cnt[r] = 0
  <2> SUFFICES ASSUME incomplete_proposal_cnt[r] # 0, ~Lost(r) PROVE FALSE
    OBVIOUS
  <2>1. last_sent_view[r] = view[r]
    BY WaitingProposal
  <2>2. v = last_sent_view[r] + NODE_CNT
    BY DEF LinearChain, SendInv
  <2>3. QED
    BY <1>0, <1>1, <2>1, <2>2
<1>3. /\ proposals' = proposals \cup {v}
      /\ proposal_received' = [proposal_received EXCEPT ![r] = @ \cup {v}]
      /\ last_sent_view' = [last_sent_view EXCEPT ![r] = v]
      /\ next_send_view' = [next_send_view EXCEPT ![r] = v + NODE_CNT]
      /\ incomplete_proposal_cnt' = [incomplete_proposal_cnt EXCEPT ![r] = @ + 1]
      /\ UNCHANGED <<generics, syncs, non_votes, view, chain, skips, temp_queue, generic_received,
                     new_viewed, hash_voters, highQC, fault_voters>>
  BY DEF Propose
<1>4. get_view_primary(v) = r /\ \A m \in generics : m.slot # v
  <2>1. get_view_primary(v) = r /\ \A m \in generics : m.src = r => m.slot < v
    BY DEF LinearChain, SendInv
  <2>2. \A m \in generics : m.src = get_view_primary(m.slot)
    BY DEF LinearChain, GenericInv
  <2>3. \A m \in generics : m.slot \in Int
    BY <1>1 DEF TypeOK, GenericMsg
  <2>4. QED
    BY <1>0, <2>1, <2>2, <2>3
<1>5. Advances /\ \A q \in Replica : At(q)' = At(q) /\ (Lost(q)' <=> Lost(q))
  BY <1>3, SameView
<1>6. ChainInv' /\ ParkedInv'
  BY <1>3, <1>5 DEF LinearChain, ChainInv, ParkedInv
<1>7. GenericInv' /\ ReceivedInv' /\ FailInv' /\ PassedInv'
  <2>1. GenericInv'
    BY <1>3 DEF LinearChain, GenericInv
  <2>2. ReceivedInv'
    BY <1>3, <1>5 DEF LinearChain, ReceivedInv
  <2>3. PassedInv'
    BY <1>0, <1>3, <1>5 DEF LinearChain, PassedInv
  <2>4. QED
    BY <1>3, <1>5, <2>1, <2>2, <2>3, FailUnchanged
<1>8. VoteInv' /\ ViewQuorum'
  <2>1. \A t : Voters(t)' = Voters(t)
    BY <1>3 DEF Voters
  <2>2. VoteInv'
    BY <1>3, <2>1 DEF LinearChain, VoteInv
  <2>3. QED
    BY <1>3, <1>5, <2>2, QuorumAdvances
<1>9. SendInv'
  <2> SUFFICES ASSUME NEW q \in Replica
               PROVE  /\ get_view_primary(next_send_view'[q]) = q
                      /\ \A m \in generics : m.src = q => m.slot < next_send_view'[q]
                      /\ incomplete_proposal_cnt'[q] # 0 /\ ~Lost(q) =>
                           /\ incomplete_proposal_cnt'[q] = 1
                           /\ last_sent_view'[q] <= view[q]
                           /\ last_sent_view'[q] \in proposals'
                           /\ next_send_view'[q] = last_sent_view'[q] + NODE_CNT
                           /\ get_view_primary(last_sent_view'[q]) = q
                           /\ \A m \in generics : m.slot # last_sent_view'[q]
    BY <1>3, <1>5 DEF SendInv, get_view_primary
  <2>1. CASE q = r
    <3>1. next_send_view'[q] = v + NODE_CNT /\ last_sent_view'[q] = v /\ v \in proposals'
          /\ (~Lost(q) => incomplete_proposal_cnt'[q] = 1)
      BY <1>0, <1>2, <1>3, <2>1
    <3>2. get_view_primary(v + NODE_CNT) = r
      BY <1>0, <1>4, NextSendView
    <3>3. \A m \in generics : m.src = r => m.slot < v + NODE_CNT
      <4>1. \A m \in generics : m.src = r => m.slot < v
        BY DEF LinearChain, SendInv
      <4>2. \A m \in generics : m.slot \in Int
        BY <1>1 DEF TypeOK, GenericMsg
      <4>3. QED
        BY <1>0, <1>1, <4>1, <4>2
    <3>4. QED
      BY <1>0, <1>4, <2>1, <3>1, <3>2, <3>3
  <2>2. CASE q # r
    <3>1. /\ next_send_view'[q] = next_send_view[q] /\ last_sent_view'[q] = last_sent_view[q]
          /\ incomplete_proposal_cnt'[q] = incomplete_proposal_cnt[q]
      BY <1>0, <1>3, <2>2
    <3>2. QED
      BY <1>3, <3>1 DEF LinearChain, SendInv
  <2>3. QED
    BY <2>1, <2>2
<1>10. QED
  BY <1>6, <1>7, <1>8, <1>9 DEF LinearChain

(* process_hotstuff_generic_p keeps the inductive invariant. *)
LEMMA GenericPInv ==
  ASSUME Tolerated, TypeOK, TypeOK', LinearChain, NEW r \in Replica, process_hotstuff_generic_p(r)
  PROVE  LinearChain'
<1> DEFINE s == last_sent_view[r]
           m0 == [slot |-> s, view |-> view[r], src |-> r, highQC |-> QCAt(Prev(s))]
<1>1. incomplete_proposal_cnt[r] # 0 /\ view[r] = s /\ s \in Slot
  <2>1. incomplete_proposal_cnt[r] # 0
    BY DEF process_hotstuff_generic_p
  <2>2. ~Lost(r)
    BY DEF process_hotstuff_generic_p, LinearChain, ChainInv, Lost
  <2>3. QED
    BY <2>1, <2>2, WaitingProposal DEF TypeOK
<1>2. ~Lost(r) /\ chain[r].g_preparedQC = QCAt(Prev(s))
  <2>1. ~Lost(r)
    BY DEF process_hotstuff_generic_p, LinearChain, ChainInv, Lost
  <2>2. ChainAt(chain[r], s)
    BY <1>1, <2>1 DEF LinearChain, ChainInv, At
  <2>3. QED
    BY <2>1, <2>2 DEF ChainAt
<1>3. /\ incomplete_proposal_cnt' = [incomplete_proposal_cnt EXCEPT ![r] = @ - 1]
      /\ generics' = generics \cup {m0}
      /\ highQC' = [highQC EXCEPT ![r][s] = QCAt(Prev(s))]
      /\ generic_received' = [generic_received EXCEPT ![r] = @ \cup {s}]
      /\ send_hotstuff_newview(r, s)
      /\ UNCHANGED <<proposals, non_votes, view, chain, skips, temp_queue, proposal_received,
                     next_send_view, last_sent_view, fault_voters>>
  BY <1>2 DEF process_hotstuff_generic_p
<1>4. /\ incomplete_proposal_cnt \in [Replica -> Nat]
      /\ generic_received \in [Replica -> SUBSET Slot]
      /\ highQC \in [Replica -> [Slot -> QuorumCertificate]]
  BY DEF TypeOK
<1>5. /\ incomplete_proposal_cnt[r] = 1 /\ s \in proposals /\ get_view_primary(s) = r
      /\ next_send_view[r] = s + NODE_CNT /\ \A m \in generics : m.slot # s
  BY <1>1, <1>2 DEF LinearChain, SendInv
<1>6. m0.slot = s /\ m0.view = s /\ m0.src = r /\ m0.highQC = QCAt(Prev(s))
  BY <1>1
<1> HIDE DEF m0
<1>7. s \in Int /\ NODE_CNT \in Nat /\ NODE_CNT >= 1
  BY <1>1, SlotInt, ConstantsAssumption
<1>8. /\ s \in generic_received'[r]
      /\ \A q \in Replica : generic_received[q] \subseteq generic_received'[q]
  BY <1>3, <1>4
<1>9. VoteInv' /\ \A p \in Replica : new_viewed[p] \subseteq new_viewed'[p]
  BY <1>1, <1>3, <1>8, OwnVote
<1>10. /\ ChainInv' /\ ParkedInv' /\ FailInv' /\ ViewQuorum'
       /\ \A q \in Replica : At(q)' = At(q) /\ (Lost(q)' <=> Lost(q))
  <2>1. Advances /\ \A q \in Replica : At(q)' = At(q) /\ (Lost(q)' <=> Lost(q))
    BY <1>3, SameView
  <2>2. ChainInv' /\ ParkedInv'
    BY <1>3, <2>1 DEF LinearChain, ChainInv, ParkedInv
  <2>3. syncs \subseteq syncs'
    BY <1>3 DEF send_hotstuff_newview
  <2>4. QED
    BY <1>3, <1>9, <2>1, <2>2, <2>3, FailUnchanged, QuorumAdvances
<1>11. GenericInv'
  <2>1. ~Dead(s)
    BY <1>1, <1>2, <1>5 DEF Dead, Lost
  <2>2. QED
    BY <1>3, <1>5, <1>6, <2>1 DEF LinearChain, GenericInv
<1>12. PassedInv'
  BY <1>3, <1>8, <1>9, <1>10 DEF LinearChain, PassedInv
<1>13. ReceivedInv'
  <2> SUFFICES ASSUME NEW q \in Replica, NEW t \in generic_received'[q]
               PROVE  /\ t <= At(q) /\ highQC'[q][t] = QCAt(Prev(t))
                      /\ \E m \in generics' : m.slot = t
    BY <1>3, <1>10 DEF ReceivedInv
  <2>1. CASE q = r /\ t = s
    <3>1. At(r) = s /\ s <= s
      BY <1>1, <1>2, <1>7 DEF At
    <3>2. QED
      BY <1>1, <1>3, <1>4, <1>6, <2>1, <3>1
  <2>2. CASE ~(q = r /\ t = s)
    <3>1. t \in generic_received[q] /\ t \in Slot
      BY <1>3, <1>4, <2>2
    <3>2. highQC'[q][t] = highQC[q][t]
      BY <1>3, <1>4, <2>2, <3>1
    <3>3. QED
      BY <1>3, <3>1, <3>2 DEF LinearChain, ReceivedInv
  <2>3. QED
    BY <2>1, <2>2
<1>14. SendInv'
  <2> SUFFICES ASSUME NEW q \in Replica
               PROVE  /\ get_view_primary(next_send_view[q]) = q
                      /\ \A m \in generics' : m.src = q => m.slot < next_send_view[q]
                      /\ incomplete_proposal_cnt'[q] # 0 /\ ~Lost(q) =>
                           /\ incomplete_proposal_cnt'[q] = 1
                           /\ last_sent_view[q] <= view[q]
                           /\ last_sent_view[q] \in proposals
                           /\ next_send_view[q] = last_sent_view[q] + NODE_CNT
                           /\ get_view_primary(last_sent_view[q]) = q
                           /\ \A m \in generics' : m.slot # last_sent_view[q]
    BY <1>3, <1>10 DEF SendInv, get_view_primary
  <2>1. CASE q = r
    <3>1. incomplete_proposal_cnt'[q] = 0
      BY <1>3, <1>4, <1>5, <2>1
    <3>2. \A m \in generics' : m.src = q => m.slot < next_send_view[q]
      <4>1. s < next_send_view[r]
        BY <1>5, <1>7
      <4>2. QED
        BY <1>3, <1>6, <2>1, <4>1 DEF LinearChain, SendInv
    <3>3. QED
      BY <3>1, <3>2 DEF LinearChain, SendInv
  <2>2. CASE q # r
    <3>1. incomplete_proposal_cnt'[q] = incomplete_proposal_cnt[q]
      BY <1>3, <1>4, <2>2
    <3>2. get_view_primary(last_sent_view[q]) = q => s # last_sent_view[q]
      BY <1>5, <2>2
    <3>3. QED
      BY <1>3, <1>6, <2>2, <3>1, <3>2 DEF LinearChain, SendInv
  <2>3. QED
    BY <2>1, <2>2
<1>15. QED
  BY <1>9, <1>10, <1>11, <1>12, <1>13, <1>14 DEF LinearChain

(* process_hotstuff_proposal keeps the inductive invariant. *)
LEMMA ProposalInv ==
  ASSUME Tolerated, TypeOK, LinearChain, NEW r \in Replica, NEW s \in Slot, process_hotstuff_proposal(r, s)
  PROVE  LinearChain'
<1> DEFINE ready == s \in new_viewed[r] \cap generic_received[r]
<1>1. /\ Running(r) /\ s \notin proposal_received[r]
      /\ proposal_received' = [proposal_received EXCEPT ![r] = @ \cup {s}]
      /\ advance_view(r, s, ready, chain[r], highQC[r][s], waiting[r])
      /\ UNCHANGED <<network, skips, generic_received, sync_sent, new_viewed, hash_voters, highQC,
                     sending, fault_voters>>
  BY DEF process_hotstuff_proposal
<1>2. /\ proposal_received \in [Replica -> SUBSET Slot] /\ s \in Int /\ view[r] \in Int
      /\ At(r) = view[r]
  BY <1>1, SlotInt, RunningAt DEF TypeOK
<1>3. /\ s \in proposal_received'[r]
      /\ \A q \in Replica : proposal_received[q] \subseteq proposal_received'[q]
  BY <1>1, <1>2
<1>4. ASSUME ready
      PROVE  s = view[r] /\ highQC[r][s] = QCAt(Prev(s)) /\ ~Dead(s)
  <2>1. s <= At(r) /\ highQC[r][s] = QCAt(Prev(s)) /\ \E m \in generics : m.slot = s
    BY <1>4 DEF LinearChain, ReceivedInv
  <2>2. ~Dead(s)
    BY <2>1 DEF LinearChain, GenericInv
  <2>3. ~(s < At(r))
    BY <1>1, <2>2 DEF LinearChain, PassedInv
  <2>4. QED
    BY <1>2, <2>1, <2>2, <2>3
<1>5. ChainAt(chain[r], view[r])
  BY <1>2 DEF LinearChain, ChainInv
<1>6. ready \in BOOLEAN
  OBVIOUS
<1>7. /\ ready => /\ s = view[r] /\ highQC[r][s] = QCAt(Prev(s)) /\ ~Dead(s)
                  /\ s \in generic_received'[r] /\ s \in proposal_received'[r]
                  /\ s \in new_viewed'[r]
      /\ \A q \in Replica : /\ generic_received[q] \subseteq generic_received'[q]
                            /\ proposal_received[q] \subseteq proposal_received'[q]
                            /\ new_viewed[q] \subseteq new_viewed'[q]
  BY <1>1, <1>3, <1>4
<1> HIDE DEF ready
<1>8. ChainInv' /\ PassedInv' /\ ParkedInv' /\ Advances
  BY <1>1, <1>5, <1>6, <1>7, AdvanceInv
<1>9. FailInv' /\ GenericInv' /\ SendInv'
  <2>1. FailInv'
    BY <1>1, <1>8, FailUnchanged DEF network
  <2>2. QED
    BY <1>1, <1>8, <2>1, SendUnchanged DEF network
<1>10. ReceivedInv'
  <2>1. \A q \in Replica : \A t \in generic_received[q] : t <= At(q)'
    BY <1>8, AdvanceKeeps
  <2>2. QED
    BY <1>1, <2>1 DEF LinearChain, ReceivedInv, network
<1>11. VoteInv' /\ ViewQuorum'
  <2>1. \A t : Voters(t)' = Voters(t)
    BY <1>1 DEF Voters, network
  <2>2. VoteInv'
    BY <1>1, <2>1 DEF LinearChain, VoteInv, network
  <2>3. QED
    BY <1>1, <1>8, <2>2, QuorumAdvances DEF network
<1>12. QED
  BY <1>8, <1>9, <1>10, <1>11 DEF LinearChain

(* check_view keeps the inductive invariant. *)
LEMMA CheckViewInv ==
  ASSUME TypeOK, LinearChain, NEW r \in Replica, NEW m \in generics, check_view(r, m)
  PROVE  LinearChain'
<1>1. /\ m.view > view[r] /\ temp_queue' = [temp_queue EXCEPT ![r] = @ \cup {m.view}]
      /\ temp_queue \in [Replica -> SUBSET Slot]
      /\ UNCHANGED <<network, view, chain, skips, txnMan, sending, fault_voters>>
  BY DEF check_view, TypeOK
<1>2. ParkedInv'
  <2> SUFFICES ASSUME NEW q \in Replica, NEW t \in temp_queue'[q] PROVE t > view[q]
    BY <1>1 DEF ParkedInv
  <2>1. CASE t \in temp_queue[q]
    BY <2>1 DEF LinearChain, ParkedInv
  <2>2. CASE t \notin temp_queue[q]
    <3>1. q = r /\ t = m.view
      BY <1>1, <2>2
    <3>2. QED
      BY <1>1, <3>1
  <2>3. QED
    BY <2>1, <2>2
<1>3. Advances /\ \A q \in Replica : At(q)' = At(q) /\ (Lost(q)' <=> Lost(q))
  BY <1>1, SameView
<1>4. ChainInv' /\ PassedInv' /\ ReceivedInv'
  BY <1>1, <1>3 DEF LinearChain, ChainInv, PassedInv, ReceivedInv, network, txnMan
<1>5. FailInv' /\ GenericInv' /\ SendInv'
  BY <1>1, <1>3, FailUnchanged, SendUnchanged DEF network
<1>6. VoteInv' /\ ViewQuorum'
  <2>1. \A t : Voters(t)' = Voters(t)
    BY <1>1 DEF Voters, network
  <2>2. VoteInv'
    BY <1>1, <2>1 DEF LinearChain, VoteInv, network, txnMan
  <2>3. QED
    BY <1>1, <1>3, <2>2, QuorumAdvances DEF network
<1>7. QED
  BY <1>2, <1>4, <1>5, <1>6 DEF LinearChain

(* process_hotstuff_generic keeps the inductive invariant. *)
LEMMA GenericStepInv ==
  ASSUME Tolerated, TypeOK, TypeOK', LinearChain, NEW r \in Replica, NEW m \in generics,
         process_hotstuff_generic(r, m)
  PROVE  LinearChain'
<1> DEFINE s  == m.slot
           c1 == StoreQC(chain[r], m.highQC)
           c2 == IF m.highQC.viewNumber > chain[r].g_preparedQC.viewNumber
                 THEN update_lockQC(c1, m.highQC, m.view, s - 1) ELSE c1
           voted == s \in new_viewed[r] \/ (s \notin sync_sent[r] /\ Quorum(r, s, r))
           ready == voted /\ s \in proposal_received[r]
<1>1. /\ Running(r) /\ m.view <= view[r] /\ s \notin generic_received[r]
      /\ highQC' = [highQC EXCEPT ![r][s] = m.highQC]
      /\ generic_received' = [generic_received EXCEPT ![r] = @ \cup {s}]
      /\ send_hotstuff_newview(r, s)
      /\ advance_view(r, s, ready, c2, m.highQC, FALSE)
      /\ UNCHANGED <<proposals, generics, non_votes, skips, proposal_received, sending, fault_voters>>
  BY DEF process_hotstuff_generic
<1> HIDE DEF c2, ready
<1>2. s \in Slot /\ m.view = s /\ m.highQC = QCAt(Prev(s)) /\ ~Dead(s)
  BY DEF TypeOK, GenericMsg, LinearChain, GenericInv
<1>3. s = view[r] /\ At(r) = view[r]
  <2>1. At(r) = view[r] /\ view[r] \in Slot
    BY <1>1, RunningAt
  <2>2. ~(s < At(r))
    BY <1>1, <1>2 DEF LinearChain, PassedInv
  <2>3. QED
    BY <1>1, <1>2, <2>1, <2>2, SlotInt
<1>4. ChainAt(c2, view[r])
  <2>1. ChainAt(chain[r], s)
    BY <1>3 DEF LinearChain, ChainInv
  <2>2. chain[r].g_preparedQC = m.highQC
    BY <1>2, <2>1 DEF ChainAt
  <2>3. m.highQC.viewNumber \in Int
    <3>1. m.highQC.viewNumber \in Slot
      BY DEF TypeOK, GenericMsg, QuorumCertificate
    <3>2. QED
      BY <3>1, SlotInt
  <2>4. c2 = c1
    <3> HIDE DEF c1
    <3>1. chain[r].g_preparedQC.viewNumber = m.highQC.viewNumber
      BY <2>2
    <3>2. ~(m.highQC.viewNumber > chain[r].g_preparedQC.viewNumber)
      BY <2>3, <3>1
    <3>3. QED
      BY <3>2 DEF c2
  <2>5. ChainAt(StoreQC(chain[r], QCAt(Prev(s))), s)
    BY <1>2, <2>1, StoreAgain
  <2>6. QED
    BY <1>2, <1>3, <2>4, <2>5
<1>5. /\ generic_received \in [Replica -> SUBSET Slot]
      /\ highQC \in [Replica -> [Slot -> QuorumCertificate]]
      /\ new_viewed \in [Replica -> SUBSET Slot]
  BY DEF TypeOK
<1>6. /\ s \in generic_received'[r]
      /\ \A q \in Replica : generic_received[q] \subseteq generic_received'[q]
  BY <1>1, <1>5
<1>7. VoteInv' /\ \A p \in Replica : new_viewed[p] \subseteq new_viewed'[p]
  BY <1>1, <1>2, <1>3, <1>6, OwnVote
<1>8. ready => s \in new_viewed'[r]
  <2>1. CASE s \in new_viewed[r]
    BY <1>7, <2>1
  <2>2. CASE s \notin new_viewed[r] /\ ready
    <3>1. s \notin sync_sent[r] /\ Quorum(r, s, r)
      BY <2>2 DEF ready
    <3>2. AddVote(r, s, r)
      BY <1>1, <3>1 DEF send_hotstuff_newview
    <3>3. QED
      BY <1>5, <3>1, <3>2 DEF AddVote
  <2>3. QED
    BY <2>1, <2>2
<1>9. ready \in BOOLEAN
  BY DEF ready
<1>10. /\ ready => /\ s = view[r] /\ m.highQC = QCAt(Prev(s)) /\ ~Dead(s)
                   /\ s \in generic_received'[r] /\ s \in proposal_received'[r]
                   /\ s \in new_viewed'[r]
       /\ \A q \in Replica : /\ generic_received[q] \subseteq generic_received'[q]
                             /\ proposal_received[q] \subseteq proposal_received'[q]
                             /\ new_viewed[q] \subseteq new_viewed'[q]
  BY <1>1, <1>2, <1>3, <1>6, <1>7, <1>8 DEF ready
<1> HIDE DEF s
<1>11. ChainInv' /\ PassedInv' /\ ParkedInv' /\ Advances
  BY <1>1, <1>2, <1>4, <1>9, <1>10, AdvanceInv
<1>12. FailInv' /\ GenericInv' /\ SendInv' /\ ViewQuorum'
  <2>1. syncs \subseteq syncs'
    BY <1>1 DEF send_hotstuff_newview
  <2>2. QED
    BY <1>1, <1>7, <1>11, <2>1, FailUnchanged, SendUnchanged, QuorumAdvances
<1>13. ReceivedInv'
  <2> SUFFICES ASSUME NEW q \in Replica, NEW t \in generic_received'[q]
               PROVE  /\ t <= At(q)' /\ highQC'[q][t] = QCAt(Prev(t))
                      /\ \E n \in generics : n.slot = t
    BY <1>1 DEF ReceivedInv
  <2>1. CASE q = r /\ t = s
    <3>1. s <= At(r)'
      BY <1>3, <1>11 DEF Advances
    <3>2. highQC'[r][s] = QCAt(Prev(s))
      BY <1>1, <1>2, <1>5
    <3>3. QED
      BY <2>1, <3>1, <3>2 DEF s
  <2>2. CASE ~(q = r /\ t = s)
    <3>1. t \in generic_received[q] /\ t \in Slot
      BY <1>1, <1>5, <2>2
    <3>2. highQC'[q][t] = highQC[q][t]
      BY <1>1, <1>5, <2>2, <3>1
    <3>3. t <= At(q)'
      BY <1>11, <3>1, AdvanceKeeps
    <3>4. QED
      BY <3>1, <3>2, <3>3 DEF LinearChain, ReceivedInv
  <2>3. QED
    BY <2>1, <2>2
<1>14. QED
  BY <1>7, <1>11, <1>12, <1>13 DEF LinearChain

(* process_hotstuff_new_view keeps the inductive invariant. *)
LEMMA NewViewInv ==
  ASSUME Tolerated, TypeOK, TypeOK', LinearChain, NEW r \in Replica, NEW m \in syncs,
         process_hotstuff_new_view(r, m)
  PROVE  LinearChain'
<1> DEFINE s == m.slot
           ready == Quorum(r, s, m.src) /\ s \in proposal_received[r] \cap generic_received[r]
<1>1. /\ Running(r) /\ m.view >= view[r] /\ AddVote(r, s, m.src)
      /\ advance_view(r, s, ready, chain[r], highQC[r][s], waiting[r])
      /\ UNCHANGED <<network, skips, proposal_received, generic_received, highQC, sending,
                     fault_voters>>
  BY DEF process_hotstuff_new_view
<1>2. s \in Slot /\ m.src \in Replica /\ m.view = s
  BY DEF TypeOK, SyncMsg, LinearChain, VoteInv
<1>3. m.src \in Voters(s)' /\ syncs' = syncs
  BY <1>1, <1>2 DEF Voters, network
<1>4. \A n \in syncs' : n.slot = n.view /\ n.slot \in generic_received'[n.src]
  BY <1>1, <1>3 DEF LinearChain, VoteInv
<1>5. VoteInv' /\ \A p \in Replica : new_viewed[p] \subseteq new_viewed'[p]
  BY <1>1, <1>2, <1>3, <1>4, VoteStep
<1>6. ASSUME ready
      PROVE  s = view[r] /\ highQC[r][s] = QCAt(Prev(s)) /\ ~Dead(s) /\ s \in new_viewed'[r]
  <2>1. s <= At(r) /\ highQC[r][s] = QCAt(Prev(s)) /\ ~Dead(s)
    <3>1. s <= At(r) /\ highQC[r][s] = QCAt(Prev(s)) /\ \E n \in generics : n.slot = s
      BY <1>6 DEF LinearChain, ReceivedInv
    <3>2. QED
      BY <3>1 DEF LinearChain, GenericInv
  <2>2. s = view[r]
    <3>1. At(r) = view[r] /\ view[r] \in Slot
      BY <1>1, RunningAt
    <3>2. QED
      BY <1>1, <1>2, <2>1, <3>1, SlotInt
  <2>3. new_viewed \in [Replica -> SUBSET Slot]
    BY DEF TypeOK
  <2>4. s \in new_viewed'[r]
    BY <1>1, <1>6, <2>3 DEF AddVote
  <2>5. QED
    BY <2>1, <2>2, <2>4
<1>7. ChainAt(chain[r], view[r])
  <2>1. At(r) = view[r]
    BY <1>1, RunningAt
  <2>2. QED
    BY <2>1 DEF LinearChain, ChainInv
<1>8. ready \in BOOLEAN
  BY DEF Quorum
<1>9. /\ ready => /\ s = view[r] /\ highQC[r][s] = QCAt(Prev(s)) /\ ~Dead(s)
                  /\ s \in generic_received'[r] /\ s \in proposal_received'[r]
                  /\ s \in new_viewed'[r]
      /\ \A q \in Replica : /\ generic_received[q] \subseteq generic_received'[q]
                            /\ proposal_received[q] \subseteq proposal_received'[q]
                            /\ new_viewed[q] \subseteq new_viewed'[q]
  BY <1>1, <1>5, <1>6
<1> HIDE DEF ready, s
<1>10. ChainInv' /\ PassedInv' /\ ParkedInv' /\ Advances
  BY <1>1, <1>2, <1>7, <1>8, <1>9, AdvanceInv
<1>11. FailInv' /\ GenericInv' /\ SendInv' /\ ViewQuorum'
  BY <1>1, <1>3, <1>5, <1>10, FailUnchanged, SendUnchanged, QuorumAdvances DEF network
<1>12. ReceivedInv'
  <2>1. \A q \in Replica : \A t \in generic_received[q] : t <= At(q)'
    BY <1>10, AdvanceKeeps
  <2>2. QED
    BY <1>1, <2>1 DEF LinearChain, ReceivedInv, network
<1>13. QED
  BY <1>5, <1>10, <1>11, <1>12 DEF LinearChain

-----------------------------------------------------------------------------
(* Votes against a view. *)

(* A vote against a view comes from a correct replica in that view.        *)
Denials ==
  /\ non_votes \subseteq non_votes'
  /\ \A m \in non_votes' : m.src \in Correct /\ Dead(m.view) /\ m.view <= view[m.src]

(* Who is against a view stays against it. *)
LEMMA DeniersGrow ==
  ASSUME TypeOK', Denials
  PROVE  \A t : /\ Deniers(t) \subseteq Deniers(t)' /\ Deniers(t)' \subseteq Correct
                /\ \A q \in Deniers(t)' : Dead(t) /\ t <= view[q]
<1>1. \A t : \A q \in Deniers(t)' : q \in Replica /\ [view |-> t, src |-> q] \in non_votes'
  BY DEF Deniers
<1>2. \A t : \A q \in Deniers(t)' : q \in Correct /\ Dead(t) /\ t <= view[q]
  <2> SUFFICES ASSUME NEW t, NEW q \in Deniers(t)' PROVE q \in Correct /\ Dead(t) /\ t <= view[q]
    OBVIOUS
  <2> DEFINE m == [view |-> t, src |-> q]
  <2>1. m \in non_votes' /\ m.view = t /\ m.src = q
    BY <1>1
  <2> HIDE DEF m
  <2>2. m.src \in Correct /\ Dead(m.view) /\ m.view <= view[m.src]
    BY <2>1 DEF Denials
  <2>3. QED
    BY <2>1, <2>2
<1>3. \A t : Deniers(t) \subseteq Deniers(t)'
  BY DEF Denials, Deniers
<1>4. QED
  BY <1>2, <1>3

(* A vote against a view that does not decide it. *)
LEMMA DenyInv ==
  ASSUME Tolerated, TypeOK, TypeOK', LinearChain, Denials,
         \A r \in Replica, s \in Slot : fault_voters'[r][s] \subseteq fault_voters[r][s] \cup Deniers(s)',
         UNCHANGED <<proposals, generics, syncs, view, chain, skips, temp_queue>>,
         UNCHANGED txnMan, UNCHANGED sending
  PROVE  LinearChain'
<1>1. Advances /\ \A q \in Replica : At(q)' = At(q) /\ (Lost(q)' <=> Lost(q))
  BY SameView
<1>2. ChainInv' /\ ParkedInv' /\ PassedInv' /\ ReceivedInv'
  BY <1>1 DEF LinearChain, ChainInv, ParkedInv, PassedInv, ReceivedInv, txnMan
<1>3. GenericInv' /\ SendInv'
  BY <1>1, SendUnchanged
<1>4. VoteInv'
  <2>1. \A t : Voters(t)' = Voters(t)
    BY DEF Voters
  <2>2. QED
    BY <2>1 DEF LinearChain, VoteInv, txnMan
<1>5. ViewQuorum'
  <2>1. \A q \in Replica, t \in Slot : ~(~(t < view[q]) /\ t < view'[q])
    OBVIOUS
  <2>2. syncs \subseteq syncs' /\ non_votes \subseteq non_votes'
    BY DEF Denials
  <2>3. QED
    BY <2>1, <2>2, QuorumStep
<1>6. FailInv'
  <2>1. \A m \in non_votes' : m.src \in Correct /\ Dead(m.view) /\ m.view <= view'[m.src]
    BY DEF Denials
  <2>2. ASSUME NEW r \in Replica, NEW s \in Slot
        PROVE  fault_voters'[r][s] \subseteq Deniers(s)'
    <3>1. fault_voters[r][s] \subseteq Deniers(s)
      BY DEF LinearChain, FailInv
    <3>2. Deniers(s) \subseteq Deniers(s)'
      BY DeniersGrow
    <3>3. QED
      BY <3>1, <3>2
  <2>3. \A r \in Replica, s \in Slot :
           /\ skips'[r][s] <= 1
           /\ skips'[r][s] > 0 => Dead(s) /\ s < view'[r]
           /\ Dead(s) /\ s < At(r)' => skips'[r][s] = 1
    BY <1>1 DEF LinearChain, FailInv
  <2>4. QED
    BY <2>1, <2>2, <2>3 DEF FailInv, Dead, get_view_primary, Correct, Replica
<1>7. QED
  BY <1>2, <1>3, <1>4, <1>5, <1>6 DEF LinearChain

(* nf votes against a view take every correct replica, so a correct one    *)
(* gives up the view it is in and no other.                                *)
LEMMA GivesUpItsView ==
  ASSUME Tolerated, TypeOK, TypeOK', LinearChain, Denials, NEW r \in Correct, NEW w \in Slot, Dead(w),
         NEW A \in SUBSET Deniers(w)', Cardinality(A) >= nf
  PROVE  w <= view[r]
<1>1. Faulty # {} /\ Cardinality(Correct) <= nf
  BY DEF Tolerated, Dead
<1>2. A \in SUBSET Correct /\ \A q \in A : w <= view[q]
  BY DeniersGrow
<1>3. IsFiniteSet(Correct)
  BY ReplicaFinite, FS_Subset DEF Correct
<1>4. IsFiniteSet(A) /\ Cardinality(A) <= Cardinality(Correct)
      /\ (Cardinality(A) = Cardinality(Correct) => A = Correct)
  BY <1>2, <1>3, FS_Subset
<1>5. Cardinality(A) \in Nat /\ Cardinality(Correct) \in Nat /\ nf \in Int
  BY <1>3, <1>4, FS_CardinalityType, ConstantsAssumption DEF nf, g_min_invalid_nodes
<1>6. A = Correct
  BY <1>1, <1>4, <1>5
<1>7. QED
  BY <1>2, <1>6

(* A silent replica that is lifted keeps the chain of the view it was in.  *)
LEMMA LiftedAt ==
  ASSUME Tolerated, TypeOK, LinearChain, NEW r \in Replica, r \in Faulty, view[r] < CRASH_VIEW,
         chain'[r] = chain[r], view'[r] > CRASH_VIEW
  PROVE  Lost(r)' /\ At(r)' = At(r) /\ At(r) = view[r]
<1> DEFINE u == view[r]
           P == chain[r].g_preparedQC
<1>1. u \in 0 .. MaxView + 1 /\ u \in Int /\ u >= 0 /\ CRASH_VIEW \in Nat
  BY AtType, ConstantsAssumption DEF TypeOK
<1>2. ~Lost(r) /\ At(r) = u
  BY <1>1 DEF Lost, At
<1>3. Lost(r)'
  BY DEF Lost
<1>4. P = QCAt(Prev(u))
  BY <1>2 DEF LinearChain, ChainInv, ChainAt
<1>5. ~Dead(u - 1)
  BY <1>1 DEF Dead
<1>6. Prev(u) = u - 1
  BY <1>5 DEF Prev
<1>7. At(r)' = IF P.genesis THEN 0 ELSE P.viewNumber + 1
  BY <1>3 DEF At
<1> HIDE DEF P
<1>8. CASE u = 0
  <2>1. Prev(u) = Genesis
    BY <1>6, <1>8 DEF Genesis
  <2>2. P.genesis
    BY <1>4, <2>1, QCAtFields DEF GenesisQC
  <2>3. QED
    BY <1>2, <1>3, <1>7, <1>8, <2>2
<1>9. CASE u >= 1
  <2>1. u - 1 \in Slot
    BY <1>1, <1>9, QCTypes DEF Slot
  <2>2. P.genesis = FALSE /\ P.viewNumber = u - 1
    BY <1>4, <1>6, <2>1, QCAtFields
  <2>3. (u - 1) + 1 = u
    BY <1>1
  <2>4. QED
    BY <1>2, <1>3, <1>7, <2>2, <2>3
<1>10. QED
  BY <1>1, <1>8, <1>9

(* nf votes against view w: a correct replica goes on to the next view, a  *)
(* silent one that lags behind is lifted over the views in between.        *)
LEMMA GiveUpInv ==
  ASSUME Tolerated, TypeOK, TypeOK', LinearChain, Denials,
         NEW r \in Replica, NEW w \in Slot, NEW q \in Replica, q \in Deniers(w)',
         ~Lost(r), r \in Faulty => view[r] < CRASH_VIEW, view[r] <= w,
         Cardinality(fault_voters[r][w] \cup {q}) >= nf,
         fault_voters' = [fault_voters EXCEPT ![r][w] = @ \cup {q}],
         skips' = [skips EXCEPT ![r][w] = @ + 1], set_view(r, w + 1),
         UNCHANGED <<proposals, generics, syncs, chain>>, UNCHANGED txnMan, UNCHANGED sending
  PROVE  /\ LinearChain'
         /\ \A p \in Replica : At(p)' \in Int /\ At(p) <= At(p)'
<1> DEFINE A == fault_voters[r][w] \cup {q}
           u == view[r]
<1>0. /\ view \in [Replica -> 0 .. MaxView + 1] /\ temp_queue \in [Replica -> SUBSET Slot]
      /\ skips \in [Replica -> [Slot -> Nat]]
      /\ fault_voters \in [Replica -> [Slot -> SUBSET Replica]]
  BY DEF TypeOK
<1>1. /\ u \in Int /\ w \in Int /\ CRASH_VIEW \in Nat /\ Slot \subseteq Int
      /\ \A p \in Replica : view[p] \in Int /\ At(p) \in Int
  BY AtType, SlotInt, ConstantsAssumption
<1>2. Dead(w) /\ w <= view[q] /\ A \in SUBSET Deniers(w)'
  <2>1. fault_voters[r][w] \subseteq Deniers(w)
    BY DEF LinearChain, FailInv
  <2>2. QED
    BY <2>1, DeniersGrow
<1>3. r \in Correct => w = u
  <2>1. r \in Correct => w <= u
    BY <1>2, GivesUpItsView
  <2>2. QED
    BY <1>1, <2>1
<1>4. view' = [view EXCEPT ![r] = w + 1] /\ temp_queue' = [temp_queue EXCEPT ![r] = {}]
  BY DEF set_view, reenqueue
<1>5. view'[r] = w + 1 /\ \A p \in Replica : p # r => view'[p] = view[p]
  BY <1>0, <1>4
<1>6. \A p \in Replica : p # r => At(p)' = At(p) /\ (Lost(p)' <=> Lost(p))
  BY <1>5 DEF At, Lost
<1>7. w > CRASH_VIEW
  BY <1>2 DEF Dead
<1>8. /\ r \in Correct => ~Lost(r)' /\ At(r)' = w + 1
      /\ r \notin Correct => Lost(r)' /\ At(r)' = At(r)
      /\ At(r) = u
  <2>1. CASE r \in Correct
    <3>1. ~Lost(r)'
      BY <2>1 DEF Lost, Correct
    <3>2. QED
      BY <1>5, <2>1, <3>1 DEF At
  <2>2. CASE r \notin Correct
    <3>1. r \in Faulty /\ u < CRASH_VIEW
      BY <2>2 DEF Correct
    <3>2. view'[r] > CRASH_VIEW
      BY <1>1, <1>5, <1>7
    <3>3. QED
      BY <2>2, <3>1, <3>2, LiftedAt
  <2>3. QED
    BY <2>1, <2>2
<1>9. \A p \in Replica : At(p)' \in Int /\ At(p) <= At(p)'
  BY <1>1, <1>3, <1>6, <1>8
<1>10. ChainInv'
  <2> SUFFICES ASSUME NEW p \in Replica
               PROVE  /\ ChainAt(chain[p], At(p))'
                      /\ Lost(p)' => At(p)' <= CRASH_VIEW /\ get_view_primary(view'[p]) \notin Faulty
    BY DEF ChainInv, get_view_primary
  <2>1. /\ ChainAt(chain[p], At(p))
        /\ Lost(p) => At(p) <= CRASH_VIEW /\ get_view_primary(view[p]) \notin Faulty
    BY DEF LinearChain, ChainInv
  <2>2. CASE p # r
    <3>1. ChainAt(chain'[p], At(p)')
      BY <1>6, <2>1, <2>2
    <3>2. QED
      BY <1>5, <1>6, <2>1, <2>2, <3>1
  <2>3. CASE p = r /\ r \in Correct
    <3>1. ChainAt(chain[r], w)
      BY <1>3, <1>8, <2>1, <2>3
    <3>2. ChainAt(chain[r], w + 1)
      BY <1>2, <3>1, SkipChain
    <3>3. ChainAt(chain'[r], At(r)')
      BY <1>8, <2>3, <3>2
    <3>4. QED
      BY <1>8, <2>3, <3>3
  <2>4. CASE p = r /\ r \notin Correct
    <3>1. ChainAt(chain'[r], At(r)')
      BY <1>8, <2>1, <2>4
    <3>2. ~Dead(w + 1) /\ w + 1 > CRASH_VIEW
      BY <1>1, <1>2, <1>7, DeadFacts
    <3>3. get_view_primary(view'[r]) \notin Faulty
      BY <1>5, <3>2 DEF Dead
    <3>4. At(r)' <= CRASH_VIEW
      BY <1>1, <1>8, <2>4 DEF Correct
    <3>5. QED
      BY <2>4, <3>1, <3>3, <3>4
  <2>5. QED
    BY <2>2, <2>3, <2>4
<1>11. PassedInv'
  <2> SUFFICES ASSUME NEW p \in Replica, NEW t \in Slot, t < At(p)', ~Dead(t)
               PROVE  /\ t \in generic_received[p] /\ t \in proposal_received[p] /\ t \in new_viewed[p]
    BY DEF PassedInv, Dead, get_view_primary, txnMan
  <2>1. t < At(p)
    <3>1. t # w
      BY <1>2
    <3>2. QED
      BY <1>1, <1>3, <1>6, <1>8, <3>1
  <2>2. QED
    BY <2>1 DEF LinearChain, PassedInv
<1>12. ReceivedInv'
  <2>1. \A p \in Replica : \A t \in generic_received[p] : t <= At(p)'
    <3> SUFFICES ASSUME NEW p \in Replica, NEW t \in generic_received[p] PROVE t <= At(p)'
      OBVIOUS
    <3>1. t <= At(p) /\ t \in Slot
      BY DEF LinearChain, ReceivedInv, TypeOK
    <3>2. QED
      BY <1>1, <1>9, <3>1
  <2>2. QED
    BY <2>1 DEF LinearChain, ReceivedInv, txnMan
<1>13. ParkedInv'
  <2> SUFFICES ASSUME NEW p \in Replica, NEW t \in temp_queue'[p] PROVE t > view'[p]
    BY DEF ParkedInv
  <2>1. p # r
    BY <1>0, <1>4
  <2>2. QED
    BY <1>0, <1>4, <2>1 DEF LinearChain, ParkedInv
<1>14. VoteInv' /\ GenericInv'
  <2>1. \A t : Voters(t)' = Voters(t)
    BY DEF Voters
  <2>2. VoteInv'
    BY <2>1 DEF LinearChain, VoteInv, txnMan
  <2>3. GenericInv'
    BY DEF LinearChain, GenericInv, Dead, get_view_primary
  <2>4. QED
    BY <2>2, <2>3
<1>15. SendInv'
  <2>1. \A p \in Replica : last_sent_view[p] \in Int
    BY SlotInt DEF TypeOK
  <2>2. ASSUME NEW p \in Replica, incomplete_proposal_cnt[p] # 0, ~Lost(p)'
        PROVE  ~Lost(p) /\ last_sent_view[p] <= view'[p]
    <3>1. ~Lost(p)
      BY <1>6, <2>2
    <3>2. last_sent_view[p] <= view[p]
      BY <2>2, <3>1 DEF LinearChain, SendInv
    <3>3. view'[p] \in Int /\ view[p] <= view'[p]
      BY <1>1, <1>5
    <3>4. QED
      BY <1>1, <2>1, <3>1, <3>2, <3>3
  <2>3. QED
    BY <2>2 DEF LinearChain, SendInv, sending
<1>16. ViewQuorum'
  <2>1. ASSUME NEW p \in Replica, NEW t \in Slot, ~(t < view[p]), t < view'[p]
        PROVE  Cardinality(Voters(t)') >= nf \/ Cardinality(Deniers(t)') >= nf
    <3>1. p = r /\ (t < w \/ t = w)
      BY <1>1, <1>5, <2>1
    <3>2. CASE t = w
      <4>1. Deniers(w)' \subseteq Replica
        BY DEF Deniers
      <4>2. QED
        BY <1>2, <3>2, <4>1, LargerQuorum
    <3>3. CASE t < w
      <4>1. t < view[q]
        BY <1>1, <1>2, <3>3
      <4>2. Cardinality(Voters(t)) >= nf \/ Cardinality(Deniers(t)) >= nf
        BY <4>1 DEF LinearChain, ViewQuorum
      <4>3. Voters(t)' = Voters(t)
        BY DEF Voters
      <4>4. Deniers(t) \subseteq Deniers(t)' /\ Deniers(t)' \subseteq Replica
        BY DeniersGrow DEF Correct
      <4>5. Cardinality(Deniers(t)) >= nf => Cardinality(Deniers(t)') >= nf
        BY <4>4, LargerQuorum
      <4>6. QED
        BY <4>2, <4>3, <4>5
    <3>4. QED
      BY <3>1, <3>2, <3>3
  <2>2. syncs \subseteq syncs' /\ non_votes \subseteq non_votes'
    BY DEF Denials
  <2>3. QED
    BY <2>1, <2>2, QuorumStep
<1>17. FailInv'
  <2>1. ASSUME NEW m \in non_votes'
        PROVE  m.src \in Correct /\ Dead(m.view) /\ m.view <= view'[m.src]
    <3>1. m.src \in Correct /\ Dead(m.view) /\ m.view <= view[m.src]
      BY DEF Denials
    <3>2. m.src \in Replica /\ m.view \in Int
      BY <1>1, <3>1 DEF Correct, TypeOK, NonVoteMsg
    <3>3. view[m.src] <= view'[m.src] /\ view'[m.src] \in Int
      BY <1>1, <1>5, <3>2
    <3>4. QED
      BY <1>1, <3>1, <3>2, <3>3
  <2>2. ASSUME NEW p \in Replica, NEW s \in Slot
        PROVE  /\ fault_voters'[p][s] \subseteq Deniers(s)'
               /\ skips'[p][s] <= 1
               /\ skips'[p][s] > 0 => Dead(s) /\ s < view'[p]
               /\ Dead(s) /\ s < At(p)' => skips'[p][s] = 1
    <3>1. /\ fault_voters[p][s] \subseteq Deniers(s)'
          /\ skips[p][s] <= 1 /\ skips[p][s] \in Nat
          /\ skips[p][s] > 0 => Dead(s) /\ s < view[p]
          /\ Dead(s) /\ s < At(p) => skips[p][s] = 1
      <4>1. Deniers(s) \subseteq Deniers(s)'
        BY DeniersGrow
      <4>2. QED
        BY <1>0, <4>1 DEF LinearChain, FailInv
    <3>2. CASE p = r /\ s = w
      <4>1. skips[r][w] = 0
        BY <1>1, <3>1, <3>2
      <4>2. skips'[r][w] = 1
        BY <1>0, <4>1
      <4>3. fault_voters'[r][w] = A
        BY <1>0
      <4>4. w < view'[r]
        BY <1>1, <1>5
      <4>5. QED
        BY <1>2, <3>2, <4>2, <4>3, <4>4
    <3>3. CASE ~(p = r /\ s = w)
      <4>1. skips'[p][s] = skips[p][s] /\ fault_voters'[p][s] = fault_voters[p][s]
        BY <1>0, <3>3
      <4>2. s < view[p] => s < view'[p]
        BY <1>1, <1>5
      <4>3. s < At(p)' => s < At(p)
        BY <1>1, <1>3, <1>6, <1>8, <3>3
      <4>4. QED
        BY <3>1, <4>1, <4>2, <4>3
    <3>4. QED
      BY <3>2, <3>3
  <2>3. QED
    BY <2>1, <2>2 DEF FailInv, Dead, get_view_primary, Correct, Replica
<1>18. QED
  BY <1>9, <1>10, <1>11, <1>12, <1>13, <1>14, <1>15, <1>16, <1>17 DEF LinearChain

(* advance_failed_view, with a vote of q against w that has been sent.     *)
LEMMA FailedViewInv ==
  ASSUME Tolerated, TypeOK, TypeOK', LinearChain, Denials,
         NEW r \in Replica, NEW w \in Slot, NEW q \in Replica, NEW running, q \in Deniers(w)',
         ~Lost(r), r \in Faulty => view[r] < CRASH_VIEW, view[r] <= w,
         advance_failed_view(r, w, q, running),
         UNCHANGED <<proposals, generics, syncs, chain>>, UNCHANGED txnMan, UNCHANGED sending
  PROVE  /\ LinearChain'
         /\ \A p \in Replica : At(p)' \in Int /\ At(p) <= At(p)'
<1>0. fault_voters \in [Replica -> [Slot -> SUBSET Replica]]
  BY DEF TypeOK
<1>1. fault_voters' = [fault_voters EXCEPT ![r][w] = @ \cup {q}]
  BY DEF advance_failed_view
<1>2. CASE sufficient_voters(r, w, q)
  <2>1. /\ skips' = [skips EXCEPT ![r][w] = @ + 1] /\ set_view(r, w + 1)
        /\ Cardinality(fault_voters[r][w] \cup {q}) >= nf
    BY <1>2 DEF advance_failed_view, sufficient_voters
  <2>2. QED
    BY <1>1, <2>1, GiveUpInv
<1>3. CASE ~sufficient_voters(r, w, q)
  <2>1. UNCHANGED <<skips, view, temp_queue>>
    BY <1>3 DEF advance_failed_view
  <2>2. \A p \in Replica, s \in Slot : fault_voters'[p][s] \subseteq fault_voters[p][s] \cup Deniers(s)'
    BY <1>0, <1>1
  <2>3. LinearChain'
    BY <2>1, <2>2, DenyInv
  <2>4. \A p \in Replica : At(p)' = At(p) /\ At(p) \in Int
    BY <2>1, SameView, AtType
  <2>5. QED
    BY <2>3, <2>4
<1>4. QED
  BY <1>2, <1>3

(* A timer that expires keeps the inductive invariant. *)
LEMMA SendFailedInv ==
  ASSUME Tolerated, TypeOK, TypeOK', LinearChain, NEW r \in Replica, send_failed_new_view(r)
  PROVE  /\ LinearChain'
         /\ \A p \in Replica : At(p)' \in Int /\ At(p) <= At(p)'
<1>0. PICK w : w = view[r]
  OBVIOUS
<1> DEFINE n == [view |-> w, src |-> r]
<1>1. /\ r \notin Faulty /\ w \in Slot /\ Dead(w)
      /\ non_votes' = non_votes \cup {n}
      /\ UNCHANGED <<proposals, generics, syncs, chain>> /\ UNCHANGED txnMan /\ UNCHANGED sending
  BY <1>0 DEF send_failed_new_view, check_timers, Dead
<1>2. w \in Int /\ ~Lost(r) /\ r \in Correct
  BY <1>1, SlotInt DEF Lost, Correct
<1>3. n.view = w /\ n.src = r
  OBVIOUS
<1>4. r \in Deniers(w)'
  BY <1>1 DEF Deniers
<1> HIDE DEF n
<1>5. Denials
  <2>1. n.src \in Correct /\ Dead(n.view) /\ n.view <= view[n.src]
    BY <1>0, <1>1, <1>2, <1>3
  <2>2. \A m \in non_votes : m.src \in Correct /\ Dead(m.view) /\ m.view <= view[m.src]
    BY DEF LinearChain, FailInv
  <2>3. QED
    BY <1>1, <2>1, <2>2 DEF Denials
<1>6. view[r] <= w
  BY <1>0, <1>2
<1>7. CASE Cardinality(fault_voters[r][w]) >= nf
  <2>1. UNCHANGED <<skips, view, temp_queue, fault_voters>>
    BY <1>0, <1>7 DEF send_failed_new_view
  <2>2. \A p \in Replica, s \in Slot : fault_voters'[p][s] \subseteq fault_voters[p][s] \cup Deniers(s)'
    BY <2>1
  <2>3. LinearChain'
    BY <1>1, <1>5, <2>1, <2>2, DenyInv
  <2>4. \A p \in Replica : At(p)' = At(p) /\ At(p) \in Int
    BY <1>1, <2>1, SameView, AtType
  <2>5. QED
    BY <2>3, <2>4
<1>8. CASE ~(Cardinality(fault_voters[r][w]) >= nf)
  <2>1. advance_failed_view(r, w, r, FALSE)
    BY <1>0, <1>8 DEF send_failed_new_view
  <2>2. QED
    BY <1>1, <1>2, <1>4, <1>5, <1>6, <2>1, FailedViewInv
<1>9. QED
  BY <1>7, <1>8

(* The vote of another replica against a view keeps the inductive invariant. *)
LEMMA FailedNewViewInv ==
  ASSUME Tolerated, TypeOK, TypeOK', LinearChain, NEW r \in Replica, NEW m \in non_votes,
         process_failed_new_view(r, m)
  PROVE  /\ LinearChain'
         /\ \A p \in Replica : At(p)' \in Int /\ At(p) <= At(p)'
<1> DEFINE w == m.view
           q == m.src
<1>1. m \in [view : Slot, src : Replica] /\ w \in Slot /\ q \in Replica
  BY DEF TypeOK, NonVoteMsg
<1>2. m = [view |-> w, src |-> q]
  BY <1>1
<1>3. /\ Running(r) /\ w >= view[r]
      /\ advance_failed_view(r, w, q, waiting[r])
      /\ UNCHANGED network /\ UNCHANGED chain /\ UNCHANGED txnMan /\ UNCHANGED sending
  BY DEF process_failed_new_view
<1>4. UNCHANGED <<proposals, generics, syncs, chain>> /\ non_votes' = non_votes
  BY <1>3 DEF network
<1>5. Denials
  BY <1>4 DEF LinearChain, FailInv, Denials
<1>6. q \in Deniers(w)'
  BY <1>1, <1>2, <1>4, Zenon DEF Deniers
<1>7. ~Lost(r) /\ (r \in Faulty => view[r] < CRASH_VIEW)
  BY <1>3, RunningAt
<1>8. view[r] <= w
  BY <1>1, <1>3, AtType, SlotInt
<1> HIDE DEF w, q
<1>9. QED
  BY <1>1, <1>3, <1>4, <1>5, <1>6, <1>7, <1>8, FailedViewInv

(* Every step keeps the inductive invariant. *)
LEMMA NextLinear ==
  ASSUME Tolerated, TypeOK, TypeOK', LinearChain, [Next]_vars
  PROVE  LinearChain'
<1>1. CASE UNCHANGED vars
  <2>1. /\ UNCHANGED <<proposals, generics, syncs, non_votes, view, chain, skips, temp_queue>>
        /\ UNCHANGED txnMan /\ UNCHANGED sending /\ UNCHANGED fault_voters
    BY <1>1 DEF vars, network
  <2>2. Denials
    BY <2>1 DEF LinearChain, FailInv, Denials
  <2>3. \A p \in Replica, s \in Slot : fault_voters'[p][s] \subseteq fault_voters[p][s] \cup Deniers(s)'
    BY <2>1
  <2>4. QED
    BY <2>1, <2>2, <2>3, DenyInv
<1>2. ASSUME NEW r \in Replica, ReplicaNext(r)
      PROVE  LinearChain'
  <2>1. CASE Propose(r)
    BY <2>1, ProposeInv
  <2>2. CASE process_hotstuff_generic_p(r)
    BY <2>2, GenericPInv
  <2>3. ASSUME NEW s \in proposals, process_hotstuff_proposal(r, s)
        PROVE  LinearChain'
    <3>1. s \in Slot
      BY DEF TypeOK
    <3>2. QED
      BY <2>3, <3>1, ProposalInv
  <2>4. ASSUME NEW m \in generics, check_view(r, m)
        PROVE  LinearChain'
    BY <2>4, CheckViewInv
  <2>5. ASSUME NEW m \in generics, process_hotstuff_generic(r, m)
        PROVE  LinearChain'
    BY <2>5, GenericStepInv
  <2>6. ASSUME NEW m \in syncs, process_hotstuff_new_view(r, m)
        PROVE  LinearChain'
    BY <2>6, NewViewInv
  <2>7. CASE send_failed_new_view(r)
    BY <2>7, SendFailedInv
  <2>8. ASSUME NEW m \in non_votes, process_failed_new_view(r, m)
        PROVE  LinearChain'
    BY <2>8, FailedNewViewInv
  <2>9. QED
    BY <1>2, <2>1, <2>2, <2>3, <2>4, <2>5, <2>6, <2>7, <2>8 DEF ReplicaNext
<1>3. QED
  BY <1>1, <1>2 DEF Next
-----------------------------------------------------------------------------
(* LinearChain is an invariant, with silent replicas or without: whatever  *)
(* the order in which the threads run, the timers expire and the messages  *)
(* arrive, the certificates a replica keeps are those of the views it has  *)
(* passed, and the views it gives up are those of silent primaries.        *)
THEOREM LinearChainInvariant ==
  ASSUME Tolerated
  PROVE  Spec => []LinearChain
<1>1. Init => TypeOK /\ LinearChain
  BY InitType, InitLinear
<1>2. TypeOK /\ LinearChain /\ [Next]_vars => TypeOK' /\ LinearChain'
  BY NextType, NextLinear
<1>3. QED
  BY <1>1, <1>2, PTL DEF Spec
-----------------------------------------------------------------------------
(* What LinearChain says about one replica. *)

(* What is executed are the certified slots before three views in a row    *)
(* the replica has passed.                                                 *)
LEMMA ExecutedBelow ==
  ASSUME TypeOK, LinearChain, NEW r \in Replica, NEW s \in Slot
  PROVE  /\ chain[r].executes[s] \in {0, 1}
         /\ chain[r].executes[s] > 0 <=> ~Dead(s) /\ Committed(At(r), s)
<1>1. s \in Hash
  BY DEF Hash
<1>2. chain[r].executes = ExecAt(At(r))
  BY DEF LinearChain, ChainInv, ChainAt
<1>3. chain[r].executes[s] = IF ~Dead(s) /\ Committed(At(r), s) THEN 1 ELSE 0
  BY <1>1, <1>2 DEF ExecAt
<1>4. QED
  BY <1>3

(* A certified view a replica has passed has nf votes. *)
LEMMA PassedQuorum ==
  ASSUME LinearChain, NEW r \in Replica, NEW s \in Slot, s < At(r), ~Dead(s)
  PROVE  Cardinality(Voters(s)) >= nf
  BY DEF LinearChain, PassedInv, VoteInv

(* Who voted for a slot has got to its view, which is not a silent primary's. *)
LEMMA VoterAt ==
  ASSUME TypeOK, LinearChain, NEW s, NEW q \in Voters(s)
  PROVE  q \in Replica /\ s \in Slot /\ s <= At(q) /\ ~Dead(s)
<1>1. q \in Replica /\ s \in generic_received[q]
  BY DEF Voters, LinearChain, VoteInv
<1>2. s \in Slot
  BY <1>1 DEF TypeOK
<1>3. s <= At(q) /\ \E m \in generics : m.slot = s
  BY <1>1 DEF LinearChain, ReceivedInv
<1>4. ~Dead(s)
  BY <1>3 DEF LinearChain, GenericInv
<1>5. QED
  BY <1>1, <1>2, <1>3, <1>4

(* Two certified views in a row that a replica has passed are behind its lock. *)
LEMMA LockBehind ==
  ASSUME TypeOK, LinearChain, NEW q \in Replica, NEW a \in Slot, Two(a), a + 2 <= At(q)
  PROVE  ~chain[q].g_lockedQC.genesis /\ chain[q].g_lockedQC.viewNumber >= a
<1>1. LockAt(chain[q].g_lockedQC, At(q))
  BY DEF LinearChain, ChainInv, ChainAt
<1>2. ~(a + 2 > At(q))
  BY AtType, SlotInt
<1>3. PICK b \in Slot : chain[q].g_lockedQC = QCAt(b) /\ a <= b
  BY <1>1, <1>2 DEF LockAt
<1>4. chain[q].g_lockedQC.genesis = FALSE /\ chain[q].g_lockedQC.viewNumber = b
  BY <1>3, QCAtFields
<1>5. QED
  BY <1>3, <1>4, SlotInt

(* The inductive invariant implies CommitLocked. *)
LEMMA LinearCommitLocked ==
  ASSUME TypeOK, LinearChain
  PROVE  CommitLocked
<1> SUFFICES ASSUME NEW r \in Replica, NEW v \in Executed(r)
             PROVE  Cardinality({q \in Replica : /\ ~chain[q].g_lockedQC.genesis
                                                 /\ chain[q].g_lockedQC.viewNumber >= v}) >= nf
  BY DEF CommitLocked
<1> DEFINE B == {q \in Replica : /\ ~chain[q].g_lockedQC.genesis
                                 /\ chain[q].g_lockedQC.viewNumber >= v}
<1>1. v \in Slot /\ Committed(At(r), v)
  BY ExecutedBelow DEF Executed
<1>2. PICK a \in Slot : Three(a) /\ a + 3 <= At(r) /\ v <= a
  BY <1>1 DEF Committed
<1>3. /\ a \in Int /\ a >= 0 /\ v \in Int
      /\ At(r) \in Int /\ At(r) <= MaxView + 1 /\ MaxView \in Nat
  <2>1. Slot \subseteq Int /\ \A x \in Slot : x <= MaxView /\ MaxView \in Nat
    BY QCTypes DEF Slot
  <2>2. chain[r].g_preparedQC.viewNumber \in Slot
    BY DEF TypeOK, Chain, QuorumCertificate
  <2>3. At(r) <= MaxView + 1
    BY <2>1, <2>2, AtType DEF At
  <2>4. QED
    BY <1>1, <2>1, <2>3, AtType, SlotInt
<1>4. a + 2 \in Slot /\ a + 2 < At(r)
  BY <1>2, <1>3 DEF Slot
<1>5. ~Dead(a + 2) /\ Two(a)
  BY <1>2 DEF Three, Two
<1>6. Cardinality(Voters(a + 2)) >= nf
  BY <1>4, <1>5, PassedQuorum
<1>7. ASSUME NEW q \in Voters(a + 2)
      PROVE  q \in B
  <2>1. q \in Replica /\ a + 2 <= At(q)
    BY <1>7, VoterAt
  <2>2. ~chain[q].g_lockedQC.genesis /\ chain[q].g_lockedQC.viewNumber >= a
    BY <1>5, <2>1, LockBehind
  <2>3. chain[q].g_lockedQC.viewNumber \in Int
    BY <2>1, SlotInt DEF TypeOK, Chain, QuorumCertificate
  <2>4. chain[q].g_lockedQC.viewNumber >= v
    BY <1>2, <1>3, <2>2, <2>3
  <2>5. QED
    BY <2>1, <2>2, <2>4
<1>8. B \in SUBSET Replica /\ Voters(a + 2) \in SUBSET B
  BY <1>7
<1> HIDE DEF B
<1>9. Cardinality(B) >= nf
  BY <1>6, <1>8, LargerQuorum
<1>10. QED
  BY <1>9 DEF B

(* The lock of a replica is the empty certificate or the one of a view two *)
(* before its own or older.                                                *)
LEMMA LockBefore ==
  ASSUME Tolerated, TypeOK, LinearChain, NEW r \in Replica
  PROVE  \/ chain[r].g_lockedQC = GenesisQC
         \/ \E a \in Slot : chain[r].g_lockedQC = QCAt(a) /\ ~Dead(a) /\ a + 2 <= At(r)
  BY DEF LinearChain, ChainInv, ChainAt, LockAt, Two

(* The inductive invariant implies GenericAccepted. *)
LEMMA LinearGenericAccepted ==
  ASSUME Tolerated, TypeOK, LinearChain
  PROVE  GenericAccepted
<1> SUFFICES ASSUME NEW r \in Correct, NEW m \in generics, m.view = view[r]
             PROVE  /\ m.view \notin temp_queue[r]
                    /\ get_view_primary(view[r]) = m.src
                    /\ SafeNode(chain[r], m.highQC)
  BY DEF GenericAccepted
<1>1. r \in Replica /\ At(r) = view[r]
  BY DEF Correct, At, Lost
<1>2. view[r] \in Slot /\ m.slot = view[r]
  BY DEF TypeOK, GenericMsg, LinearChain, GenericInv
<1>3. view[r] \in Int /\ view[r] >= 0
  BY <1>2, SlotInt
<1>4. m.view \notin temp_queue[r]
  <2>1. ~(view[r] > view[r])
    BY <1>3
  <2>2. QED
    BY <1>1, <2>1 DEF LinearChain, ParkedInv
<1>5. get_view_primary(view[r]) = m.src
  BY <1>2 DEF LinearChain, GenericInv
<1>6. SafeNode(chain[r], m.highQC)
  <2> DEFINE v == view[r]
             p == Prev(v)
  <2>1. m.highQC = QCAt(p)
    BY <1>2 DEF LinearChain, GenericInv
  <2>2. p \in Hash /\ (v >= 1 => p \in Slot)
    <3>1. v \in 0 .. MaxView + 1
      BY <1>1 DEF TypeOK
    <3>2. QED
      BY <3>1, PrevHash
  <2>3. /\ v = 0 => m.highQC = GenesisQC
        /\ v >= 1 => m.highQC.viewNumber = p /\ m.highQC.batch_hash = p /\ p \in Int /\ p >= 0
    <3>1. v = 0 => p = Genesis
      BY <1>3, PrevFacts
    <3>2. QED
      BY <2>1, <2>2, <3>1, QCAtFields, SlotInt
  <2>4. CASE chain[r].g_lockedQC = GenesisQC
    <3>1. chain[r].g_lockedQC.genesis /\ chain[r].g_lockedQC.viewNumber = 0
      BY <2>4 DEF GenesisQC
    <3>2. v = 0 => m.highQC.viewNumber = 0
      BY <2>3 DEF GenesisQC
    <3>3. m.highQC.viewNumber = 0 \/ m.highQC.viewNumber > 0
      BY <1>3, <2>3, <3>2
    <3>4. QED
      BY <3>1, <3>3 DEF SafeNode
  <2>5. ASSUME NEW a \in Slot, chain[r].g_lockedQC = QCAt(a), ~Dead(a), a + 2 <= At(r)
        PROVE  SafeNode(chain[r], m.highQC)
    <3>1. a \in Int /\ a >= 0 /\ a < v /\ v >= 1
      BY <1>1, <1>3, <2>5, SlotInt
    <3>2. a <= p
      BY <1>3, <2>5, <3>1, PrevFacts
    <3>3. chain[r].g_lockedQC.viewNumber = a /\ chain[r].g_lockedQC.batch_hash = a
      BY <2>5, QCAtFields
    <3>4. p = a \/ p > a
      BY <2>3, <3>1, <3>2
    <3>5. QED
      BY <2>3, <3>1, <3>3, <3>4 DEF SafeNode
  <2>6. QED
    BY <1>1, <2>4, <2>5, LockBefore
<1>7. QED
  BY <1>4, <1>5, <1>6

(* The inductive invariant implies NoOrphan. *)
LEMMA LinearNoOrphan ==
  ASSUME Tolerated, TypeOK, LinearChain
  PROVE  NoOrphan
<1> SUFFICES ASSUME NEW m \in generics, NEW v \in Slot, v < m.view, Cardinality(Voters(v)) >= nf
             PROVE  ~m.highQC.genesis /\ m.highQC.viewNumber >= v
  BY DEF NoOrphan
<1> DEFINE s == m.slot
<1>1. s \in Slot /\ m.view = s /\ m.highQC = QCAt(Prev(s))
  BY DEF TypeOK, GenericMsg, LinearChain, GenericInv
<1> HIDE DEF s
<1>2. s \in Int /\ v \in Int /\ v >= 0 /\ s >= 1 /\ s \in 0 .. MaxView + 1
  BY <1>1, QCTypes DEF Slot
<1>3. Voters(v) # {}
  <2>1. nf \in Int /\ nf > 0
    BY ConstantsAssumption DEF nf, g_min_invalid_nodes
  <2>2. Cardinality({}) = 0
    BY FS_EmptySet
  <2>3. QED
    BY <2>1, <2>2
<1>4. ~Dead(v)
  BY <1>3, VoterAt
<1>5. v <= Prev(s)
  BY <1>1, <1>2, <1>4, PrevFacts
<1>6. Prev(s) \in Slot
  BY <1>2, PrevHash
<1>7. m.highQC.genesis = FALSE /\ m.highQC.viewNumber = Prev(s)
  BY <1>1, <1>6, QCAtFields
<1>8. QED
  BY <1>2, <1>5, <1>6, <1>7, SlotInt

(* The inductive invariant implies Agreement. *)
LEMMA LinearAgreement ==
  ASSUME TypeOK, LinearChain
  PROVE  Agreement
<1>1. ASSUME NEW r \in Replica, NEW s \in Slot
      PROVE  /\ skips[r][s] \in Nat /\ skips[r][s] <= 1 /\ (skips[r][s] > 0 => Dead(s))
             /\ chain[r].executes[s] \in {0, 1} /\ (chain[r].executes[s] > 0 => ~Dead(s))
  BY ExecutedBelow DEF LinearChain, FailInv, TypeOK
<1>2. \A r \in Replica, s \in Slot : chain[r].executes[s] + skips[r][s] <= 1
  <2> SUFFICES ASSUME NEW r \in Replica, NEW s \in Slot PROVE chain[r].executes[s] + skips[r][s] <= 1
    OBVIOUS
  <2>1. QED
    BY <1>1
<1>3. QED
  BY <1>1, <1>2 DEF Agreement, Executed

(* The inductive invariant implies BatchKnown. *)
LEMMA LinearBatchKnown ==
  ASSUME TypeOK, LinearChain
  PROVE  BatchKnown
<1>1. ASSUME NEW r \in Replica, NEW s \in Executed(r)
      PROVE  s \in proposal_received[r]
  <2>1. s \in Slot /\ ~Dead(s) /\ Committed(At(r), s)
    BY ExecutedBelow DEF Executed
  <2>2. s < At(r)
    BY <2>1, AtType, SlotInt DEF Committed
  <2>3. QED
    BY <2>1, <2>2 DEF LinearChain, PassedInv
<1>2. QED
  BY <1>1 DEF BatchKnown
-----------------------------------------------------------------------------
(* No replica leaves a view without nf votes for it or nf votes against    *)
(* it, although AddVote and advance_failed_view count votes for views the  *)
(* replica has not reached.                                                *)
THEOREM ViewQuorumInvariant ==
  ASSUME Tolerated
  PROVE  Spec => []ViewQuorum
<1>1. LinearChain => ViewQuorum
  BY DEF LinearChain
<1>2. QED
  BY <1>1, LinearChainInvariant, PTL

(* Whenever send_execute_msg_hotstuff has enqueued a block at one replica, *)
(* nf replicas hold a lock at least as recent.                             *)
THEOREM CommitSafety ==
  ASSUME Tolerated
  PROVE  Spec => []CommitLocked
<1>1. TypeOK /\ LinearChain => CommitLocked
  BY LinearCommitLocked
<1>2. QED
  BY <1>1, TypeCorrect, LinearChainInvariant, PTL

(* A slot reaches the execution thread at most once at each replica, never *)
(* as a batch at one and as given up at another, and where it is a batch   *)
(* its transactions have arrived.                                          *)
THEOREM AgreementInvariant ==
  ASSUME Tolerated
  PROVE  Spec => [](Agreement /\ BatchKnown)
<1>1. TypeOK /\ LinearChain => Agreement /\ BatchKnown
  BY LinearAgreement, LinearBatchKnown
<1>2. QED
  BY <1>1, TypeCorrect, LinearChainInvariant, PTL

(* The GENERIC a primary's batch thread sends is for the slot its proposal *)
(* thread proposed and extends every certified view, also over views that  *)
(* were given up.                                                          *)
THEOREM GenericSafety ==
  ASSUME Tolerated
  PROVE  Spec => [](SlotOfView /\ NoOrphan)
<1>1. TypeOK /\ LinearChain => SlotOfView /\ NoOrphan
  <2>1. LinearChain => SlotOfView
    BY DEF LinearChain, GenericInv, VoteInv, SlotOfView
  <2>2. QED
    BY <2>1, LinearNoOrphan
<1>2. QED
  BY <1>1, TypeCorrect, LinearChainInvariant, PTL

(* The GENERIC of its view passes check_view, the comparison with the      *)
(* primary and SafeNode at every correct replica.                          *)
THEOREM GenericAcceptedInvariant ==
  ASSUME Tolerated
  PROVE  Spec => []GenericAccepted
<1>1. TypeOK /\ LinearChain => GenericAccepted
  BY LinearGenericAccepted
<1>2. QED
  BY <1>1, TypeCorrect, LinearChainInvariant, PTL
-----------------------------------------------------------------------------
(* The ledger of height h: the slots in order, without a batch where the   *)
(* primary was silent.                                                     *)
LogOf(h) == [i \in 1 .. h |-> IF Dead(i - 1) THEN NoBatch ELSE i - 1]

(* h is the number of slots committed when view u is entered.              *)
Height(u, h) ==
  /\ h \in Slot /\ ~Dead(h)
  /\ \A s \in Slot : s < h <=> Committed(u, s)

(* What is committed is a prefix of the slots, followed by a live one.     *)
LEMMA HeightExists ==
  ASSUME Tolerated, NEW u \in Int, u <= MaxView + 1
  PROVE  \E h : Height(u, h)
<1> DEFINE T == {a \in Slot : Three(a) /\ a + 3 <= u}
<1>1. MaxView \in Nat /\ Slot \subseteq Int /\ \A s \in Slot : s >= 0 /\ s <= MaxView
  BY QCTypes DEF Slot
<1>2. \A s : Committed(u, s) <=> \E a \in T : s <= a
  BY DEF Committed
<1>3. T \subseteq Slot /\ \A a \in T : Three(a) /\ a + 3 <= u
  OBVIOUS
<1> HIDE DEF T
<1>4. CASE T = {}
  <2>1. 0 \in Slot /\ ~Dead(0)
    BY <1>1, DeadFacts DEF Slot
  <2>2. \A s \in Slot : ~(s < 0) /\ ~Committed(u, s)
    BY <1>1, <1>2, <1>4
  <2>3. QED
    BY <2>1, <2>2 DEF Height
<1>5. CASE T # {}
  <2>1. PICK a \in T : \A b \in T : b <= a
    <3>1. T \in SUBSET Int /\ MaxView \in Int /\ \A x \in T : x <= MaxView
      BY <1>1, <1>3
    <3>2. QED
      BY <1>5, <3>1, GreatestBelow
  <2>2. a \in Slot /\ a \in Int /\ Three(a) /\ a + 3 <= u
    BY <1>1, <1>3
  <2>3. a + 1 \in Slot /\ ~Dead(a + 1)
    BY <1>1, <2>2 DEF Slot, Three
  <2>4. ASSUME NEW s \in Slot
        PROVE  s < a + 1 <=> Committed(u, s)
    <3>1. s < a + 1 <=> s <= a
      BY <1>1, <2>2
    <3>2. \A b \in T : s <= b => s <= a
      BY <1>1, <1>3, <2>1, <2>2
    <3>3. QED
      BY <1>2, <3>1, <3>2
  <2>5. QED
    BY <2>3, <2>4 DEF Height
<1>6. QED
  BY <1>4, <1>5

(* A later view commits no less. *)
LEMMA HeightGrows ==
  ASSUME NEW u \in Int, NEW v \in Int, u <= v, NEW g, NEW h, Height(u, g), Height(v, h)
  PROVE  g <= h
<1>1. g \in Int /\ h \in Int /\ g \in Slot /\ h \in Slot
  BY SlotInt DEF Height
<1>2. ASSUME h < g
      PROVE  FALSE
  <2>1. PICK a \in Slot : Three(a) /\ a + 3 <= u /\ h <= a
    BY <1>1, <1>2 DEF Height, Committed
  <2>2. a + 3 <= v
    BY <2>1, SlotInt
  <2>3. Committed(v, h)
    BY <2>1, <2>2 DEF Committed
  <2>4. h < h
    BY <1>1, <2>3 DEF Height
  <2>5. QED
    BY <1>1, <2>4
<1>3. QED
  BY <1>1, <1>2

(* The ledger of a replica is a function of the view whose chain it has.   *)
LEMMA LedgerOf ==
  ASSUME TypeOK, LinearChain, NEW r \in Replica, NEW h, Height(At(r), h)
  PROVE  Ledger(r) = LogOf(h)
<1> DEFINE P(k) == 0 .. (k - 1) \subseteq Settled(r) /\ k \notin Settled(r)
           n == CHOOSE k \in 0 .. MaxView + 1 : P(k)
<1>1. h \in Slot /\ h \in Nat /\ h <= MaxView /\ MaxView \in Nat /\ ~Dead(h)
  BY QCTypes DEF Height, Slot
<1>2. \A s \in Slot : s < h <=> Committed(At(r), s)
  BY DEF Height
<1>3. ASSUME NEW s \in Slot, s < h
      PROVE  s \in Settled(r) /\ (s \in Executed(r) <=> ~Dead(s))
  <2>1. Committed(At(r), s)
    BY <1>2, <1>3
  <2>2. s \in Executed(r) <=> ~Dead(s)
    BY <2>1, ExecutedBelow DEF Executed
  <2>3. s < At(r)
    BY <2>1, AtType, SlotInt DEF Committed
  <2>4. Dead(s) => skips[r][s] = 1
    BY <2>3 DEF LinearChain, FailInv
  <2>5. QED
    BY <2>2, <2>4 DEF Settled
<1>4. h \notin Settled(r)
  <2>1. ~Committed(At(r), h)
    BY <1>1, <1>2
  <2>2. h \notin Executed(r)
    BY <1>1, <2>1, ExecutedBelow DEF Executed
  <2>3. ~(skips[r][h] > 0)
    BY <1>1 DEF LinearChain, FailInv
  <2>4. QED
    BY <2>2, <2>3 DEF Settled
<1>5. P(h)
  <2>1. ASSUME NEW s \in 0 .. (h - 1) PROVE s \in Settled(r)
    <3>1. s \in Slot /\ s < h
      BY <1>1 DEF Slot
    <3>2. QED
      BY <1>3, <3>1
  <2>2. QED
    BY <1>4, <2>1
<1>6. ASSUME NEW k \in 0 .. MaxView + 1, P(k)
      PROVE  k = h
  <2>1. k \in Int /\ k >= 0
    BY <1>1
  <2>2. CASE k < h
    <3>1. k \in Slot
      BY <1>1, <2>1, <2>2 DEF Slot
    <3>2. QED
      BY <1>3, <1>6, <2>2, <3>1
  <2>3. CASE k > h
    <3>1. h \in 0 .. (k - 1)
      BY <1>1, <2>1, <2>3
    <3>2. QED
      BY <1>4, <1>6, <3>1
  <2>4. QED
    BY <1>1, <2>1, <2>2, <2>3
<1>7. n = h
  <2>1. h \in 0 .. MaxView + 1
    BY <1>1
  <2>2. QED
    BY <1>5, <1>6, <2>1
<1>8. Ledger(r) = [i \in 1 .. n |-> IF i - 1 \in Executed(r) THEN i - 1 ELSE NoBatch]
  BY DEF Ledger
<1>9. \A i \in 1 .. h : i - 1 \in Executed(r) <=> ~Dead(i - 1)
  <2> SUFFICES ASSUME NEW i \in 1 .. h PROVE i - 1 \in Executed(r) <=> ~Dead(i - 1)
    OBVIOUS
  <2>1. i - 1 \in Slot /\ i - 1 < h
    BY <1>1 DEF Slot
  <2>2. QED
    BY <1>3, <2>1
<1> HIDE DEF n
<1>10. QED
  BY <1>7, <1>8, <1>9 DEF LogOf

(* The ledger of every replica is the log up to the height of its chain.   *)
LEMMA LedgersOf ==
  ASSUME Tolerated
  PROVE  TypeOK /\ LinearChain
           => \A r \in Replica : At(r) \in Int /\ \E h : Height(At(r), h) /\ Ledger(r) = LogOf(h)
<1> SUFFICES ASSUME TypeOK, LinearChain, NEW r \in Replica
             PROVE  At(r) \in Int /\ \E h : Height(At(r), h) /\ Ledger(r) = LogOf(h)
  OBVIOUS
<1>1. At(r) \in Int /\ At(r) <= MaxView + 1
  <2>1. chain[r].g_preparedQC.viewNumber \in Slot /\ MaxView \in Nat
    BY QCTypes DEF TypeOK, Chain, QuorumCertificate
  <2>2. QED
    BY <2>1, AtType DEF At, Slot
<1>2. PICK h : Height(At(r), h)
  BY <1>1, HeightExists
<1>3. QED
  BY <1>1, <1>2, LedgerOf

(* advance_view changes the chain and the view of one replica, which goes  *)
(* on by one view or stays.                                                *)
LEMMA AdvanceOne ==
  ASSUME TypeOK, NEW r \in Replica, Running(r), NEW s, NEW ready, NEW c, NEW high, NEW w,
         advance_view(r, s, ready, c, high, w)
  PROVE  /\ \A q \in Replica \ {r} : chain'[q] = chain[q]
         /\ At(r)' \in Int /\ At(r) <= At(r)'
<1>1. view \in [Replica -> 0 .. MaxView + 1] /\ chain \in [Replica -> Chain]
  BY DEF TypeOK
<1>2. view' = view \/ view' = [view EXCEPT ![r] = view[r] + 1]
  BY DEF advance_view, set_view
<1>3. \E d : chain' = [chain EXCEPT ![r] = d]
  BY DEF advance_view
<1>4. \A q \in Replica \ {r} : chain'[q] = chain[q]
  BY <1>1, <1>3
<1>5. view'[r] = view[r] \/ view'[r] = view[r] + 1
  BY <1>1, <1>2
<1>6. /\ At(r) = view[r] /\ view[r] \in Int /\ CRASH_VIEW \in Nat
      /\ r \in Faulty => view[r] < CRASH_VIEW
  BY RunningAt, AtType, ConstantsAssumption
<1>7. ~(r \in Faulty /\ view'[r] > CRASH_VIEW)
  BY <1>5, <1>6
<1>8. At(r)' = view'[r]
  BY <1>7 DEF At, Lost
<1>9. QED
  BY <1>4, <1>5, <1>6, <1>8

(* Every step takes at most one replica on, and none back. *)
LEMMA ViewStep ==
  ASSUME Tolerated, TypeOK, TypeOK', LinearChain, Next
  PROVE  \E r \in Replica : /\ \A q \in Replica \ {r} : chain'[q] = chain[q] /\ skips'[q] = skips[q]
                            /\ At(r)' \in Int /\ At(r) <= At(r)'
<1>1. PICK r \in Replica : ReplicaNext(r)
  BY DEF Next
<1> DEFINE Goal == /\ \A q \in Replica \ {r} : chain'[q] = chain[q] /\ skips'[q] = skips[q]
                   /\ At(r)' \in Int /\ At(r) <= At(r)'
<1>2. CASE Propose(r) \/ process_hotstuff_generic_p(r) \/ \E m \in generics : check_view(r, m)
  <2>1. UNCHANGED <<view, chain, skips>>
    BY <1>2 DEF Propose, process_hotstuff_generic_p, check_view
  <2>2. At(r)' = At(r) /\ At(r) \in Int
    BY <2>1, SameView, AtType
  <2>3. Goal
    BY <2>1, <2>2
  <2>4. QED
    BY <2>3
<1>3. CASE \E s \in proposals : process_hotstuff_proposal(r, s)
  <2>1. PICK s \in proposals : process_hotstuff_proposal(r, s)
    BY <1>3
  <2>2. /\ Running(r) /\ skips' = skips
        /\ \E ready : advance_view(r, s, ready, chain[r], highQC[r][s], waiting[r])
    BY <2>1 DEF process_hotstuff_proposal
  <2>3. Goal
    BY <2>2, AdvanceOne
  <2>4. QED
    BY <2>3
<1>4. CASE \E m \in generics : process_hotstuff_generic(r, m)
  <2>1. PICK m \in generics : process_hotstuff_generic(r, m)
    BY <1>4
  <2>2. /\ Running(r) /\ skips' = skips
        /\ \E ready, c : advance_view(r, m.slot, ready, c, m.highQC, FALSE)
    BY <2>1 DEF process_hotstuff_generic
  <2>3. Goal
    BY <2>2, AdvanceOne
  <2>4. QED
    BY <2>3
<1>5. CASE \E m \in syncs : process_hotstuff_new_view(r, m)
  <2>1. PICK m \in syncs : process_hotstuff_new_view(r, m)
    BY <1>5
  <2>2. /\ Running(r) /\ skips' = skips
        /\ \E ready : advance_view(r, m.slot, ready, chain[r], highQC[r][m.slot], waiting[r])
    BY <2>1 DEF process_hotstuff_new_view
  <2>3. Goal
    BY <2>2, AdvanceOne
  <2>4. QED
    BY <2>3
<1>6. ASSUME chain' = chain, NEW w, NEW e, skips' = skips \/ skips' = [skips EXCEPT ![r][w] = e]
      PROVE  \A q \in Replica \ {r} : chain'[q] = chain[q] /\ skips'[q] = skips[q]
  <2>1. skips \in [Replica -> [Slot -> Nat]]
    BY DEF TypeOK
  <2>2. QED
    BY <1>6, <2>1
<1>7. CASE send_failed_new_view(r)
  <2>1. At(r)' \in Int /\ At(r) <= At(r)'
    BY <1>7, SendFailedInv
  <2>2. chain' = chain /\ (skips' = skips \/ \E w, e : skips' = [skips EXCEPT ![r][w] = e])
    BY <1>7 DEF send_failed_new_view, advance_failed_view
  <2>3. Goal
    BY <1>6, <2>1, <2>2
  <2>4. QED
    BY <2>3
<1>8. CASE \E m \in non_votes : process_failed_new_view(r, m)
  <2>1. PICK m \in non_votes : process_failed_new_view(r, m)
    BY <1>8
  <2>2. At(r)' \in Int /\ At(r) <= At(r)'
    BY <2>1, FailedNewViewInv
  <2>3. chain' = chain /\ (skips' = skips \/ \E w, e : skips' = [skips EXCEPT ![r][w] = e])
    BY <2>1 DEF process_failed_new_view, advance_failed_view
  <2>4. Goal
    BY <1>6, <2>2, <2>3
  <2>5. QED
    BY <2>4
<1>9. QED
  BY <1>1, <1>2, <1>3, <1>4, <1>5, <1>7, <1>8 DEF ReplicaNext

(* Logs of different heights are prefixes of each other. *)
LEMMA PrefixOfHeight ==
  ASSUME NEW a \in Int, NEW b \in Int, 0 <= a, a <= b
  PROVE  Log!Prefix(LogOf(a), LogOf(b))
<1>1. Len(LogOf(a)) = a /\ Len(LogOf(b)) = b
  BY DEF LogOf
<1>2. \A i \in 1 .. a : LogOf(a)[i] = LogOf(b)[i]
  BY DEF LogOf
<1>3. QED
  BY <1>1, <1>2 DEF Log!Prefix

(* The consensus instance implements one replicated log, with the silent   *)
(* replicas of Tolerated or none: initially all ledgers are empty, and a   *)
(* handler extends the ledger of one replica by what all others agree      *)
(* with, or none.                                                          *)
THEOREM Refinement ==
  ASSUME Tolerated
  PROVE  Spec => ReplicatedLog
<1> DEFINE ledger == [r \in Replica |-> Ledger(r)]
<1>0. TypeOK /\ LinearChain
        => \A r \in Replica : At(r) \in Int /\ \E h : Height(At(r), h) /\ Ledger(r) = LogOf(h)
  BY LedgersOf
<1>1. Init => Log!Init
  <2> SUFFICES ASSUME Init PROVE Log!Init
    OBVIOUS
  <2>1. TypeOK /\ LinearChain
    BY InitType, InitLinear
  <2>2. ASSUME NEW r \in Replica PROVE Ledger(r) = <<>>
    <3>1. At(r) = 0
      BY ConstantsAssumption DEF Init, At, Lost
    <3>2. PICK h : Height(0, h) /\ Ledger(r) = LogOf(h)
      BY <1>0, <2>1, <3>1
    <3>3. \A s : ~Committed(0, s)
      BY SlotInt DEF Committed
    <3>4. 0 \in Slot /\ h \in Int /\ h >= 0
      BY <3>2, SlotInt, QCTypes DEF Height, Slot
    <3>5. h = 0
      BY <3>2, <3>3, <3>4 DEF Height
    <3>6. LogOf(0) = <<>>
      BY DEF LogOf
    <3>7. QED
      BY <3>2, <3>5, <3>6
  <2>3. QED
    BY <2>2 DEF Log!Init
<1>2. TypeOK' /\ LinearChain'
        => (\A r \in Replica : At(r) \in Int /\ \E h : Height(At(r), h) /\ Ledger(r) = LogOf(h))'
  BY <1>0, PTL
<1>3. TypeOK /\ LinearChain /\ [Next]_vars /\ TypeOK' /\ LinearChain' => [Log!Next]_ledger
  <2> SUFFICES ASSUME TypeOK, LinearChain, [Next]_vars, TypeOK', LinearChain'
               PROVE  [Log!Next]_ledger
    OBVIOUS
  <2>1. CASE UNCHANGED vars
    BY <2>1 DEF vars, Ledger, Settled, Executed
  <2>2. CASE Next
    <3>1. PICK r \in Replica :
            /\ \A q \in Replica \ {r} : chain'[q] = chain[q] /\ skips'[q] = skips[q]
            /\ At(r)' \in Int /\ At(r) <= At(r)'
      BY <2>2, ViewStep
    <3>2. \A q \in Replica \ {r} : Ledger(q)' = Ledger(q)
      BY <3>1 DEF Ledger, Settled, Executed
    <3>3. \A h, u : Height(u, h) => h \in Int /\ 0 <= h /\ h <= MaxView /\ MaxView \in Nat
      BY QCTypes DEF Height, Slot
    <3>4. PICK h : Height(At(r)', h) /\ Ledger(r)' = LogOf(h)
      BY <1>2
    <3>5. LogOf(h) \in Seq(Slot \cup {NoBatch})
      <4>1. h \in Nat /\ h <= MaxView /\ MaxView \in Nat
        BY <3>3, <3>4
      <4>2. \A i \in 1 .. h : i - 1 \in Slot
        BY <4>1 DEF Slot
      <4>3. QED
        BY <4>1, <4>2 DEF LogOf
    <3>6. Log!Prefix(Ledger(r), LogOf(h))
      <4>1. PICK g : Height(At(r), g) /\ Ledger(r) = LogOf(g) /\ At(r) \in Int
        BY <1>0
      <4>2. g <= h
        BY <3>1, <3>4, <4>1, HeightGrows
      <4>3. QED
        BY <3>3, <3>4, <4>1, <4>2, PrefixOfHeight
    <3>7. ASSUME NEW q \in Replica
          PROVE  Log!Prefix(Ledger(q), LogOf(h)) \/ Log!Prefix(LogOf(h), Ledger(q))
      <4>1. PICK g : Height(At(q), g) /\ Ledger(q) = LogOf(g)
        BY <1>0
      <4>2. g <= h \/ h <= g
        BY <3>3, <3>4, <4>1
      <4>3. QED
        BY <3>3, <3>4, <4>1, <4>2, PrefixOfHeight
    <3>8. ledger'[r] = LogOf(h) /\ ledger[r] = Ledger(r)
      BY <3>4
    <3>9. \A q \in Replica \ {r} : ledger'[q] = Ledger(q) /\ ledger[q] = Ledger(q)
      BY <3>2
    <3>10. Log!Learn(r)
      BY <3>5, <3>6, <3>7, <3>8, <3>9 DEF Log!Learn
    <3>11. QED
      BY <3>10 DEF Log!Next
  <2>3. QED
    BY <2>1, <2>2
<1>4. QED
  BY <1>1, <1>3, TypeCorrect, LinearChainInvariant, PTL DEF Spec, ReplicatedLog, Log!Spec
=============================================================================

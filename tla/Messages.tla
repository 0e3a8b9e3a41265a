------------------------------ MODULE Messages ------------------------------
(***************************************************************************)
(* The message classes: what a new message of a class holds, its layout,   *)
(* how it is filled in from a transaction manager, what of it is signed    *)
(* and how a receiver checks that.                                         *)
(***************************************************************************)
EXTENDS Wire

(* Keys and signatures, by the node that made them.  A CMAC is checked     *)
(* with the key the message carries, an ED25519 signature with the key the *)
(* sender gave out.                                                        *)
cmacPrivateKey(node, other) == Str(<<"cmac", node, other>>, 32)
g_pub_key(node) == Str(<<"ed25519", node>>, 32)

CmacSignString(key, text)      == Str(<<"mac", key, text>>, 16)
ED25519signString(node, text)  == Str(<<"ed25519sig", node, text>>, 64)
secp256k1_ecdsa_sign(node, text) == <<node, text>>

Signed(m, signature, key) ==
  [m EXCEPT !.signature = signature, !.pubKey = key,
            !.sigSize = signature.len, !.keySize = key.len]

signingNodeNode(m, node, dest, text) ==
  Signed(m, CmacSignString(cmacPrivateKey(node, dest), text), cmacPrivateKey(node, dest))
signingClientNode(m, node, text) ==
  Signed(m, ED25519signString(node, text), g_pub_key(node))

validateNodeNode(m, text) == m.signature = CmacSignString(m.pubKey, text)
validateClientNode(m, node, text) == m.signature = ED25519signString(node, text)

calculateHash(text) == Str(<<"hash", text>>, 32)

(* What a share of the threshold signature is made over. *)
metadata(m) == calculateHash(<<m.hash, QC_to_string(m.highQC)>>)
-----------------------------------------------------------------------------
(* INIT_DONE and READY are the common part alone. *)
InitDone_get_size(m) == mget_size(m)
InitDone_copy_to_buf(at, m) == mcopy_to_buf(at, m)
InitDone_copy_from_buf(at) == mcopy_from_buf(at)

(* KEYEX.  A key is preceded by four letters for its kind; a key for       *)
(* threshold signatures is a field of its own, there when the four letters *)
(* are all there is.                                                       *)
SECP == Str(<<"SECP">>, 4)
NewKeyExchange(node) ==
  Common("KEYEX", node) @@
  [pkey |-> NoStr, pkeySz |-> Garbage, return_node |-> Garbage, public_share |-> Garbage]

(* Mutant: the key for threshold signatures is forgotten. *)
KeyExchange_get_size_NoShare(m) == mget_size(m) + U64 + m.pkey.len + U64

KeyExchange_get_size(m) ==
  mget_size(m) + U64 + m.pkey.len + U64 + (IF m.pkey = SECP THEN Sig ELSE 0)

KeyExchange_copy_to_buf(at, m) ==
  Write(Begin(at, m),
        <<Cell(U64, m.pkeySz), Cell(m.pkeySz, Chars(m.pkey, m.pkeySz)), Cell(U64, m.return_node)>>
        \o (IF m.pkey = SECP THEN <<Cell(Sig, m.public_share)>> ELSE <<>>))

ReadShare(at) == IF at.m.pkey = SECP THEN Read(at, <<Val("public_share", Sig)>>) ELSE at
KeyExchange_copy_from_buf(at) ==
  ReadShare(Read(BeginRead(at),
                 <<Val("pkeySz", U64), String("pkey", "pkeySz"), Val("return_node", U64)>>))

send_key(node, pkey) ==
  [NewKeyExchange(node) EXCEPT !.pkey = pkey, !.pkeySz = pkey.len, !.return_node = node,
                               !.public_share = IF pkey = SECP THEN <<"public_key", node>> ELSE @]
-----------------------------------------------------------------------------
(* CL_BATCH *)
NewClientQueryBatch(node) ==
  Common("CL_BATCH", node) @@ [return_node |-> node, batch_size |-> BATCH_SIZE, cqrySet |-> <<>>]

ClientQueryBatch_get_size(m) ==
  FoldLeft(LAMBDA n, q : n + Query_get_size(q), mget_size(m) + U64 + U64, m.cqrySet)

ClientQueryBatch_copy_to_buf(at, m) ==
  FoldLeft(WriteQuery, Write(Begin(at, m), <<Cell(U64, m.return_node), Cell(U64, m.batch_size)>>), m.cqrySet)

ClientQueryBatch_copy_from_buf(at) ==
  FoldLeft(LAMBDA a, i : ReadQuery(a, "cqrySet"),
           Read(BeginRead(at), <<Val("return_node", U64), Val("batch_size", U64)>>), Each)

ClientQueryBatch_getString(m) ==
  <<m.return_node, [i \in DOMAIN m.cqrySet |-> getRequestString(m.cqrySet[i])]>>

ClientQueryBatch_sign(m, node) == signingClientNode(m, node, ClientQueryBatch_getString(m))
ClientQueryBatch_validate(m) ==
  validateClientNode(m, m.return_node, ClientQueryBatch_getString(m))
-----------------------------------------------------------------------------
(* CL_RSP: the transactions of a batch and the times the client sent them. *)
NewClientResponse(node) ==
  Common("CL_RSP", node) @@ [index |-> <<>>, client_ts |-> <<>>, view |-> Garbage]

ClientResponse_get_size(m) ==
  mget_size(m) + U64 + U64 * Len(m.index) + U64 * Len(m.client_ts)

ClientResponse_copy_to_buf(at, m) ==
  Write(Begin(at, m), [i \in 1 .. BATCH_SIZE |-> Cell(U64, m.index[i])]
                      \o [i \in 1 .. BATCH_SIZE |-> Cell(U64, m.client_ts[i])]
                      \o <<Cell(U64, m.view)>>)

ClientResponse_copy_from_buf(at) ==
  Read(BeginRead(at), [i \in DOMAIN Each |-> Add("index")] \o [i \in DOMAIN Each |-> Add("client_ts")]
                      \o <<Val("view", U64)>>)

ClientResponse_getString(m, sender) == <<sender, m.index, m.client_ts>>
ClientResponse_sign(m, node, dest) ==
  signingNodeNode(m, node, dest, ClientResponse_getString(m, node))
ClientResponse_validate(m) ==
  validateNodeNode(m, ClientResponse_getString(m, m.return_node_id))

(* The batch of a manager, response by response. *)
ClientResponse_copy_from_txn(node, txn) ==
  [NewClientResponse(node) EXCEPT
     !.txn_id = txn.txn_id, !.instance_id = txn.instance_id, !.view = txn.view,
     !.index = [i \in 1 .. BATCH_SIZE |-> txn.txn_id - BATCH_SIZE + i],
     !.client_ts = [i \in 1 .. BATCH_SIZE |-> txn.batch[i].client_startts]]
-----------------------------------------------------------------------------
(* PBFT_CHKPT_MSG *)
NewCheckpoint(node) ==
  Common("PBFT_CHKPT_MSG", node) @@ [index |-> Garbage, return_node |-> Garbage, end_index |-> Garbage]

Checkpoint_get_size(m) == mget_size(m) + 3 * U64
Checkpoint_copy_to_buf(at, m) ==
  Write(Begin(at, m), <<Cell(U64, m.index), Cell(U64, m.return_node), Cell(U64, m.end_index)>>)
Checkpoint_copy_from_buf(at) ==
  Read(BeginRead(at), <<Val("index", U64), Val("return_node", U64), Val("end_index", U64)>>)

Checkpoint_toString(m) == <<m.index, m.end_index, m.return_node>>
Checkpoint_sign(m, node, dest) == signingNodeNode(m, node, dest, Checkpoint_toString(m))
Checkpoint_validate(m) == validateNodeNode(m, Checkpoint_toString(m))

(* next_index stands behind the batch just executed. *)
Checkpoint_copy_from_txn(node, txn) ==
  [NewCheckpoint(node) EXCEPT !.txn_id = txn.txn_id - 5, !.instance_id = txn.instance_id,
     !.index = txn.txn_id + 1 - BATCH_SIZE, !.return_node = node, !.end_index = txn.txn_id]
-----------------------------------------------------------------------------
(* SYNC *)
NewSync(node) ==
  Common("SpotLess_SYNC_MSG", node) @@
  [view |-> Garbage, index |-> Garbage, hash |-> NoStr, hashSize |-> Garbage,
   return_node |-> Garbage, end_index |-> Garbage, batch_size |-> Garbage, highQC |-> EmptyQC,
   psig_share |-> Garbage, sig_empty |-> TRUE, sig_share |-> Garbage, non_vote |-> FALSE]

Sync_get_size(m) ==
  mget_size(m) + U64 + U64 + m.hash.len + U64 + U64 + U64 + U32 + QC_get_size(m.highQC)
  + Sig + Bool + (IF m.sig_empty THEN 0 ELSE Sig) + Bool

Sync_copy_to_buf(at, m) ==
  LET a == Write(Begin(at, m),
             <<Cell(U64, m.view), Cell(U64, m.index), Cell(U64, m.hashSize), StrCell(m.hash),
               Cell(U64, m.return_node), Cell(U64, m.end_index), Cell(U32, m.batch_size)>>)
  IN  Write(QC_copy_to_buf(a, m.highQC),
            <<Cell(Sig, m.psig_share), Cell(Bool, m.sig_empty)>>
            \o (IF m.sig_empty THEN <<>> ELSE <<Cell(Sig, m.sig_share)>>)
            \o <<Cell(Bool, m.non_vote)>>)

Sync_copy_from_buf(at) ==
  LET a == Read(BeginRead(at),
             <<Val("view", U64), Val("index", U64), Val("hashSize", U64), String("hash", "hashSize"),
               Val("return_node", U64), Val("end_index", U64), Val("batch_size", U32)>>)
  IN  Read(ReadQC(a), <<Val("psig_share", Sig), Val("sig_empty", Bool),
                        Unless("sig_empty", "sig_share", Sig), Val("non_vote", Bool)>>)

Sync_toString(m) == <<m.view, m.index, m.hash, m.return_node, m.end_index>>
Sync_sign(m, node, dest) == signingNodeNode(m, node, dest, Sync_toString(m))

Sync_digital_sign(m, node) ==
  [m EXCEPT !.sig_share = secp256k1_ecdsa_sign(node, metadata(m)),
            !.sig_empty = FALSE]

Sync_validate(m) ==
  /\ validateNodeNode(m, Sync_toString(m))
  /\ ~m.sig_empty =>
       m.sig_share = secp256k1_ecdsa_sign(m.return_node_id, metadata(m))

(* The certificate of a vote goes without its history and its shares. *)
Sync_copy_from_txn(node, txn) ==
  [NewSync(node) EXCEPT
     !.txn_id = txn.txn_id, !.instance_id = txn.instance_id, !.view = txn.view,
     !.end_index = txn.txn_id, !.index = txn.txn_id + 1 - BATCH_SIZE,
     !.hash = txn.hash, !.hashSize = txn.hash.len, !.return_node = node, !.batch_size = BATCH_SIZE,
     !.psig_share = txn.psig_share,
     !.highQC = [txn.highQC EXCEPT !.grand_empty = TRUE, !.signature_share_map = <<>>]]
-----------------------------------------------------------------------------
(* PROPOSAL, and ASK_RESPONSE, which has the same layout. *)
NewProposal(rtype, node) ==
  Common(rtype, node) @@
  [view |-> Garbage, index |-> <<>>, requestMsg |-> <<>>, hashSize |-> Garbage, hash |-> NoStr,
   batch_size |-> Garbage]

Proposal_get_size(m) ==
  FoldLeft(LAMBDA n, q : n + Query_get_size(q),
           mget_size(m) + U64 + U64 * Len(m.index) + U64 + m.hash.len + U32, m.requestMsg)

Proposal_copy_to_buf(at, m) ==
  LET request(a, i) == WriteQuery(COPY_BUF(a, Cell(U64, m.index[i])), m.requestMsg[i])
  IN  Write(FoldLeft(request, Write(Begin(at, m), <<Cell(U64, m.view)>>), Each),
            <<Cell(U64, m.hashSize), StrCell(m.hash), Cell(U32, m.batch_size)>>)

Proposal_copy_from_buf(at) ==
  LET request(a, i) == ReadQuery(COPY_VAL(a, Add("index")), "requestMsg")
  IN  Read(FoldLeft(request, Read(BeginRead(at), <<Val("view", U64)>>), Each),
           <<Val("hashSize", U64), String("hash", "hashSize"), Val("batch_size", U32)>>)

Proposal_getString(m, sender) ==
  <<sender, m.index, [i \in DOMAIN m.requestMsg |-> getRequestString(m.requestMsg[i])], m.hash, m.view>>
Proposal_sign(m, node, dest) == signingNodeNode(m, node, dest, Proposal_getString(m, node))

batchStr(batch) == [i \in DOMAIN batch |-> Query_getString(batch[i])]
Proposal_validate(m) ==
  /\ validateNodeNode(m, Proposal_getString(m, m.return_node_id))
  /\ m.hash = calculateHash(batchStr(m.requestMsg))

Proposal_copy_from_txn(rtype, node, txn) ==
  [NewProposal(rtype, node) EXCEPT
     !.txn_id = txn.txn_id - 2, !.instance_id = txn.instance_id, !.view = txn.view,
     !.index = [i \in 1 .. BATCH_SIZE |-> txn.txn_id - BATCH_SIZE + i],
     !.requestMsg = txn.batch, !.hash = txn.hash, !.hashSize = txn.hash.len,
     !.batch_size = BATCH_SIZE]
-----------------------------------------------------------------------------
(* GENERIC *)
NewGeneric(node) ==
  Common("SpotLess_GENERIC_MSG", node) @@
  [view |-> Garbage, index |-> Garbage, hash |-> NoStr, hashSize |-> Garbage,
   return_node |-> Garbage, end_index |-> Garbage, batch_size |-> Garbage, highQC |-> EmptyQC,
   psig_share |-> Garbage]

Generic_get_size(m) ==
  mget_size(m) + U64 + U64 + m.hash.len + U64 + U64 + U64 + U32 + Sig + QC_get_size(m.highQC)

Generic_copy_to_buf(at, m) ==
  LET a == Write(Begin(at, m),
             <<Cell(U64, m.view), Cell(U64, m.index), Cell(U64, m.hashSize), StrCell(m.hash),
               Cell(U64, m.return_node), Cell(U64, m.end_index), Cell(U32, m.batch_size)>>)
  IN  Write(QC_copy_to_buf(a, m.highQC), <<Cell(Sig, m.psig_share)>>)

Generic_copy_from_buf(at) ==
  LET a == Read(BeginRead(at),
             <<Val("view", U64), Val("index", U64), Val("hashSize", U64), String("hash", "hashSize"),
               Val("return_node", U64), Val("end_index", U64), Val("batch_size", U32)>>)
  IN  Read(ReadQC(a), <<Val("psig_share", Sig)>>)

Generic_toString(m) == <<m.view, m.index, m.hash, m.return_node, m.end_index>>
Generic_sign(m, node, dest) == signingNodeNode(m, node, dest, Generic_toString(m))
Generic_digital_sign(m, node) ==
  [m EXCEPT !.psig_share = secp256k1_ecdsa_sign(node, metadata(m))]

Generic_validate(m) ==
  /\ validateNodeNode(m, Generic_toString(m))
  /\ m.psig_share = secp256k1_ecdsa_sign(m.return_node_id, metadata(m))

Generic_copy_from_txn(node, txn) ==
  [NewGeneric(node) EXCEPT
     !.txn_id = txn.txn_id, !.instance_id = txn.instance_id, !.view = txn.view,
     !.end_index = txn.txn_id, !.index = txn.txn_id + 1 - BATCH_SIZE,
     !.hash = txn.hash, !.hashSize = txn.hash.len, !.return_node = node, !.batch_size = BATCH_SIZE,
     !.psig_share = txn.psig_share]
-----------------------------------------------------------------------------
(* ASK *)
NewAsk(node) ==
  Common("SpotLess_ASK_MSG", node) @@
  [view |-> Garbage, hash |-> NoStr, hashSize |-> Garbage, return_node |-> Garbage]

Ask_get_size(m) == mget_size(m) + U64 + m.hash.len + U64 + U64
Ask_copy_to_buf(at, m) ==
  Write(Begin(at, m), <<Cell(U64, m.view), Cell(U64, m.hashSize), StrCell(m.hash), Cell(U64, m.return_node)>>)
Ask_copy_from_buf(at) ==
  Read(BeginRead(at), <<Val("view", U64), Val("hashSize", U64), String("hash", "hashSize"), Val("return_node", U64)>>)

Ask_toString(m) == <<m.view, m.hash>>
Ask_sign(m, node, dest) == signingNodeNode(m, node, dest, Ask_toString(m))
Ask_validate(m) == validateNodeNode(m, Ask_toString(m))

send_spotless_ask(node, txn) ==
  [NewAsk(node) EXCEPT !.txn_id = txn.txn_id, !.instance_id = txn.instance_id, !.view = txn.view,
     !.hash = txn.hash, !.hashSize = txn.hash.len, !.return_node = node]
-----------------------------------------------------------------------------
(* Dispatch on the class.  A message of no known class is not created.     *)
create_message(rtype, node) ==
  CASE rtype = "INIT_DONE" \/ rtype = "READY" -> Common(rtype, node)
    [] rtype = "KEYEX"                 -> NewKeyExchange(node)
    [] rtype = "CL_BATCH"              -> NewClientQueryBatch(node)
    [] rtype = "CL_RSP"                -> NewClientResponse(node)
    [] rtype = "PBFT_CHKPT_MSG"        -> NewCheckpoint(node)
    [] rtype = "SpotLess_SYNC_MSG"     -> NewSync(node)
    [] rtype = "SpotLess_GENERIC_MSG"  -> NewGeneric(node)
    [] rtype = "SpotLess_ASK_MSG"      -> NewAsk(node)
    [] rtype = "SpotLess_PROPOSAL_MSG" \/ rtype = "SpotLess_ASK_RESPONSE_MSG" -> NewProposal(rtype, node)
    [] OTHER -> Common(Garbage, node)

get_size(m) ==
  CASE m.rtype = "KEYEX"                 -> KeyExchange_get_size(m)
    [] m.rtype = "CL_BATCH"              -> ClientQueryBatch_get_size(m)
    [] m.rtype = "CL_RSP"                -> ClientResponse_get_size(m)
    [] m.rtype = "PBFT_CHKPT_MSG"        -> Checkpoint_get_size(m)
    [] m.rtype = "SpotLess_SYNC_MSG"     -> Sync_get_size(m)
    [] m.rtype = "SpotLess_GENERIC_MSG"  -> Generic_get_size(m)
    [] m.rtype = "SpotLess_ASK_MSG"      -> Ask_get_size(m)
    [] m.rtype = "SpotLess_PROPOSAL_MSG" \/ m.rtype = "SpotLess_ASK_RESPONSE_MSG" -> Proposal_get_size(m)
    [] OTHER -> InitDone_get_size(m)

copy_to_buf(at, m) ==
  CASE m.rtype = "KEYEX"                 -> KeyExchange_copy_to_buf(at, m)
    [] m.rtype = "CL_BATCH"              -> ClientQueryBatch_copy_to_buf(at, m)
    [] m.rtype = "CL_RSP"                -> ClientResponse_copy_to_buf(at, m)
    [] m.rtype = "PBFT_CHKPT_MSG"        -> Checkpoint_copy_to_buf(at, m)
    [] m.rtype = "SpotLess_SYNC_MSG"     -> Sync_copy_to_buf(at, m)
    [] m.rtype = "SpotLess_GENERIC_MSG"  -> Generic_copy_to_buf(at, m)
    [] m.rtype = "SpotLess_ASK_MSG"      -> Ask_copy_to_buf(at, m)
    [] m.rtype = "SpotLess_PROPOSAL_MSG" \/ m.rtype = "SpotLess_ASK_RESPONSE_MSG" -> Proposal_copy_to_buf(at, m)
    [] OTHER -> InitDone_copy_to_buf(at, m)

copy_from_buf(at) ==
  LET rtype == at.m.rtype IN
  CASE rtype = "KEYEX"                 -> KeyExchange_copy_from_buf(at)
    [] rtype = "CL_BATCH"              -> ClientQueryBatch_copy_from_buf(at)
    [] rtype = "CL_RSP"                -> ClientResponse_copy_from_buf(at)
    [] rtype = "PBFT_CHKPT_MSG"        -> Checkpoint_copy_from_buf(at)
    [] rtype = "SpotLess_SYNC_MSG"     -> Sync_copy_from_buf(at)
    [] rtype = "SpotLess_GENERIC_MSG"  -> Generic_copy_from_buf(at)
    [] rtype = "SpotLess_ASK_MSG"      -> Ask_copy_from_buf(at)
    [] rtype = "SpotLess_PROPOSAL_MSG" \/ rtype = "SpotLess_ASK_RESPONSE_MSG" -> Proposal_copy_from_buf(at)
    [] OTHER -> InitDone_copy_from_buf(at)
=============================================================================

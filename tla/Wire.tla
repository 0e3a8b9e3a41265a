-------------------------------- MODULE Wire --------------------------------
(***************************************************************************)
(* The byte layout of messages.  Every class has three functions that must *)
(* agree and that are written apart: get_size, copy_to_buf, copy_from_buf. *)
(* A buffer holds several messages one behind the other; sender and        *)
(* receiver both find the next one by get_size.                            *)
(*                                                                         *)
(* A buffer is a function from offsets to cells, a cell being a value and  *)
(* the number of bytes it takes.  Reading at an offset where no cell of    *)
(* that width was written gives Garbage.  A string is its text and length; *)
(* mq_time and the seven latencies, which only statistics read, are one    *)
(* cell.                                                                   *)
(***************************************************************************)
EXTENDS Integers, SequencesExt, TLC

CONSTANTS
  BATCH_SIZE,
  Garbage               \* what is in memory nobody wrote

ASSUME WireAssumption == BATCH_SIZE \in Nat \ {0}

U64 == 8
U32 == 4
Bool == 1
Sig == 64               \* sizeof(secp256k1_ecdsa_signature), and of secp256k1_pubkey

Str(text, len) == [text |-> text, len |-> len]
NoStr   == Str(<<>>, 0)
Zero    == Str(<<"0">>, 1)
Cat(a, b) == CASE a.len = 0 -> b
               [] b.len = 0 -> a
               [] OTHER -> Str(<<"cat", a.text, b.text>>, a.len + b.len)
Chars(s, n) == IF n = s.len THEN s ELSE Str(<<"part", s.text>>, n)
pop_back(s) == IF s.len = 1 THEN NoStr ELSE Chars(s, s.len - 1)
-----------------------------------------------------------------------------
(* COPY_BUF: writing cells from an offset on. *)
Cell(w, v) == [w |-> w, v |-> v]
StrCell(s) == Cell(s.len, s)
COPY_BUF(at, cell) == [p |-> at.p + cell.w, buf |-> (at.p :> cell) @@ at.buf]
Write(at, cells) == FoldLeft(COPY_BUF, at, cells)

(* COPY_VAL: reading fields of a message from an offset on.  A step reads  *)
(* a value into a field, or a value that stays behind when a flag is set,  *)
(* a value added to an array, the size of a string, or the characters of a *)
(* string behind the ones it has: as many as a field, or the last size,    *)
(* says.                                                                   *)
Val(f, w)          == [op |-> "val", f |-> f, w |-> w, by |-> ""]
Unless(flag, f, w) == [op |-> "opt", f |-> f, w |-> w, by |-> flag]
Add(f)             == [op |-> "add", f |-> f, w |-> U64, by |-> ""]
Size               == [op |-> "size", f |-> "", w |-> U64, by |-> ""]
String(f, by)      == [op |-> "str", f |-> f, w |-> 0, by |-> by]

Peek(at, w) ==
  IF at.p \in DOMAIN at.buf /\ at.buf[at.p].w = w THEN at.buf[at.p].v ELSE Garbage

buf_to_string(at, n) ==
  CASE n = 0 -> NoStr
    [] Peek(at, n) = Garbage -> Str(<<"garbage">>, n)
    [] OTHER -> Peek(at, n)

COPY_VAL(at, s) ==
  LET v == Peek(at, s.w)
      k == IF s.by = "" THEN at.n ELSE at.m[s.by]
      n == IF k \in Nat THEN k ELSE 0
  IN  CASE s.op = "val"  -> [at EXCEPT !.p = @ + s.w, !.m[s.f] = v]
        [] s.op = "opt"  -> IF k = TRUE THEN at ELSE [at EXCEPT !.p = @ + s.w, !.m[s.f] = v]
        [] s.op = "add"  -> [at EXCEPT !.p = @ + s.w, !.m[s.f] = Append(@, v)]
        [] s.op = "size" -> [at EXCEPT !.p = @ + s.w, !.n = v]
        [] s.op = "str"  -> [at EXCEPT !.p = @ + n, !.m[s.f] = Cat(@, buf_to_string(at, n))]
Read(at, steps) == FoldLeft(COPY_VAL, at, steps)

(* An array whose length has just been read. *)
ReadArray(at, f, w) ==
  Read(at, [i \in 1 .. (IF at.n \in Nat THEN at.n ELSE 0) |-> [Add(f) EXCEPT !.w = w]])

Each == [i \in 1 .. BATCH_SIZE |-> i]
-----------------------------------------------------------------------------
(* What all classes have in common.  A new message carries "0" for a       *)
(* signature and a key; the reader takes them off before it appends.       *)
Common(rtype, node) ==
  [rtype |-> rtype, txn_id |-> Garbage, instance_id |-> Garbage, return_node_id |-> node,
   sigSize |-> 1, keySize |-> 1, signature |-> Zero, pubKey |-> Zero]

mget_size(m) ==
  U32 + U64 + 8 * U64 + m.signature.len + m.pubKey.len + 3 * U64

mcopy_to_buf(at, m) ==
  Write(at, <<Cell(U32, m.rtype), Cell(U64, m.txn_id), Cell(8 * U64, "latencies"),
              Cell(U64, m.sigSize), Cell(U64, m.keySize), Cell(U64, m.instance_id),
              Cell(m.sigSize, Chars(m.signature, m.sigSize)),
              Cell(m.keySize, Chars(m.pubKey, m.keySize))>>)

mcopy_from_buf(at) ==
  LET head == Read(at, <<Val("rtype", U32), Val("txn_id", U64), [Size EXCEPT !.w = 8 * U64],
                         Val("sigSize", U64), Val("keySize", U64), Val("instance_id", U64)>>)
  IN  Read([head EXCEPT !.m.signature = pop_back(@), !.m.pubKey = pop_back(@)],
           <<String("signature", "sigSize"), String("pubKey", "keySize")>>)

(* A class begins behind mget_size, whatever the common part has written.  *)
Begin(at, m) == [mcopy_to_buf(at, m) EXCEPT !.p = at.p + mget_size(m)]
Behind(p, r) == [r EXCEPT !.p = p + mget_size(r.m)]
BeginRead(at) == Behind(at.p, mcopy_from_buf(at))
-----------------------------------------------------------------------------
(* YCSBClientQueryMessage: has no common part and travels in other         *)
(* messages only.                                                          *)
Query_get_size(q) == U32 + U64 + U64 + 16 * Len(q.requests) + U64

Query_copy_to_buf(at, q) ==
  Write(at, <<Cell(U32, q.rtype), Cell(U64, q.client_startts), Cell(U64, Len(q.requests))>>
            \o [i \in DOMAIN q.requests |-> Cell(16, q.requests[i])]
            \o <<Cell(U64, q.return_node)>>)

Query_copy_from_buf(at) ==
  Read(ReadArray(Read([at EXCEPT !.m = [rtype |-> Garbage, client_startts |-> Garbage,
                                        requests |-> <<>>, return_node |-> Garbage]],
                      <<Val("rtype", U32), Val("client_startts", U64), Size>>),
                 "requests", 16),
       <<Val("return_node", U64)>>)

(* Queries inside a message: the next one is get_size of this one away.    *)
WriteQuery(at, q) == [Query_copy_to_buf(at, q) EXCEPT !.p = at.p + Query_get_size(q)]
AddQuery(at, f, q) == [at EXCEPT !.p = @ + Query_get_size(q), !.m[f] = Append(@, q)]
ReadQuery(at, f)   == AddQuery(at, f, Query_copy_from_buf(at).m)

getRequestString(q) == q.requests
Query_getString(q)  == <<getRequestString(q), q.client_startts>>
-----------------------------------------------------------------------------
(* QuorumCertificate.  What the block before the parent was is left out    *)
(* when grand_empty is set, and the shares when it is the genesis'.        *)
EmptyQC ==
  [type |-> "PREPARE", genesis |-> FALSE, viewNumber |-> 0, parent_view |-> 0,
   batch_hash |-> NoStr, parent_hash |-> NoStr,
   grand_empty |-> FALSE, grand_view |-> 0, grand_hash |-> NoStr, signature_share_map |-> <<>>]

QC_get_size(qc) ==
  Bool + U32 + 2 * U64 + 2 * U64 + qc.batch_hash.len + qc.parent_hash.len
  + Bool + (IF qc.grand_empty THEN 0 ELSE U64 + U64 + qc.grand_hash.len)
  + (IF qc.genesis THEN 0 ELSE U64 + Len(qc.signature_share_map) * (U64 + Sig))

(* The shares are a sequence of pairs of a node and its share. *)
QC_copy_to_buf(at, qc) ==
  LET string(s) == <<Cell(U64, s.len), StrCell(s)>>
      share == qc.signature_share_map
  IN  Write(at,
        <<Cell(U32, qc.type), Cell(Bool, qc.genesis), Cell(U64, qc.viewNumber), Cell(U64, qc.parent_view)>>
        \o string(qc.batch_hash) \o string(qc.parent_hash) \o <<Cell(Bool, qc.grand_empty)>>
        \o (IF qc.grand_empty THEN <<>> ELSE <<Cell(U64, qc.grand_view)>> \o string(qc.grand_hash))
        \o (IF qc.genesis THEN <<>>
            ELSE <<Cell(U64, Len(share))>> \o [i \in DOMAIN share |-> Cell(U64 + Sig, share[i])]))

ReadGrand(at) ==
  IF at.m.grand_empty = TRUE THEN at
  ELSE Read(at, <<Val("grand_view", U64), Size, String("grand_hash", "")>>)
ReadShares(at) ==
  IF at.m.genesis = TRUE THEN at
  ELSE ReadArray(Read(at, <<Size>>), "signature_share_map", U64 + Sig)

QC_copy_from_buf(at) ==
  ReadShares(ReadGrand(Read([at EXCEPT !.m = EmptyQC],
    <<Val("type", U32), Val("genesis", Bool), Val("viewNumber", U64), Val("parent_view", U64),
      Size, String("batch_hash", ""), Size, String("parent_hash", ""), Val("grand_empty", Bool)>>)))

WithQC(m, r) == [r EXCEPT !.m = [m EXCEPT !.highQC = r.m]]
ReadQC(at)   == WithQC(at.m, QC_copy_from_buf(at))

QC_to_string(qc) == <<qc.batch_hash, qc.viewNumber, qc.parent_hash, qc.parent_view>>
=============================================================================

---------------------------- MODULE MCTransport -----------------------------
(* The classes of messages a node sends: one replica sends all of them,    *)
(* the others keep its sockets' neighbours busy.                           *)
EXTENDS Transport

Mixed == [n \in Node |-> CASE n = 2 -> {"KEYEX", "INIT_DONE", "READY", "CL_RSP"} \cup ToAllThreads
                           [] n = NODE_CNT -> {"CL_BATCH", "KEYEX"}
                           [] n = 0 -> {"INIT_DONE", "READY"}
                           [] OTHER -> {}]
=============================================================================

--------------------------- MODULE MCWorkerGroup ----------------------------
(***************************************************************************)
(* WorkerGroup for TLC: two of three fibers may call waitAll().            *)
(***************************************************************************)
EXTENDS WorkerGroup
=============================================================================

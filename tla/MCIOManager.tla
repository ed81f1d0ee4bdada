---------------------------- MODULE MCIOManager -----------------------------
(***************************************************************************)
(* IOManager for TLC: one descriptor, both events, three waiters and two   *)
(* workers.                                                                *)
(***************************************************************************)
EXTENDS IOManager
=============================================================================

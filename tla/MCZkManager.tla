---------------------------- MODULE MCZkManager ----------------------------
(* Instances of ZkManager for TLC. *)
EXTENDS ZkManager
=============================================================================

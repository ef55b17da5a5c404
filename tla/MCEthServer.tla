----------------------------- MODULE MCEthServer -----------------------------
(* The table and lwIP's descriptors on a small scale. *)
EXTENDS EthServer
=============================================================================

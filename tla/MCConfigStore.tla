---------------------------- MODULE MCConfigStore ----------------------------
(* One caller at a time: the store on its own, under repeated power loss.   *)
EXTENDS ConfigStore
=============================================================================

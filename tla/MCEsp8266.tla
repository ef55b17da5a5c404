------------------------------ MODULE MCEsp8266 ------------------------------
(* The module on a line with two clients. *)
EXTENDS Esp8266

Bursts == [q \in BOOLEAN |-> IF q THEN 3 ELSE 2]
=============================================================================

----------------------------- MODULE MCUartSensors -----------------------------
(* A streaming sensor and a SPEC sensor; two packet values tell fields apart. *)
EXTENDS UartSensors

MCOrder == <<"sds", "so2">>
=============================================================================

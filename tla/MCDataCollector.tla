---------------------------- MODULE MCDataCollector ----------------------------
(* data_collector alone, for the temperatures and the pressure it is given:  *)
(* a temperature on each side of zero, two pressures.                        *)
EXTENDS DataCollector

OneReading == {[co |-> 3, co_err |-> 0]}
Temperatures == {-5, 1}
TwoPressures == {2, 3}
=============================================================================

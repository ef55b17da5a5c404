------------------------------ MODULE MCDataPath ------------------------------
(* Rounds of two samples, means of two conversions, and one page of fields.  *)
(* A gas reads three or, not calibrated, two below zero: the sum of a round  *)
(* is above zero or below.  A reading that fails says seven.                 *)
EXTENDS DataPath

Reading(co, co_err) == [co |-> co, co_err |-> co_err]
SomeReadings == {Reading(3, 0), Reading(-2, 0), Reading(7, -1)}
OneTemp == {1}
OnePressure == {2}
SomeDegrees == {20}
TwoNames == <<67, 84>>
=============================================================================

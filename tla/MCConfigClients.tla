--------------------------- MODULE MCConfigClients ---------------------------
(* Two settings and two packets: enough for a lost update of either field.  *)
EXTENDS ConfigClients

CONSTANTS s0, s1

MCSettings == {s0, s1}
MCOneSetting == {s0}
MCConfigs == [settings : Settings, counter : 0..(MaxCounter + 1)]
MCZero == [settings |-> s0, counter |-> 0]
=============================================================================

------------------------------- MODULE DataPath -------------------------------
(***************************************************************************)
(* From a sensor to the display: analog_temp, data_collector and           *)
(* display_data_task.  The collector asks the first with get_analog_temp   *)
(* and hands each packet to the last through displayQueue, which holds one *)
(* packet and for which it waits without a timeout.                        *)
(*                                                                         *)
(* watch says, once for each behaviour, which half is of interest.  With   *)
(* "readings" the sensors read anything and nobody writes to the display;  *)
(* with "display" the readings are always the same.  What is read has no   *)
(* influence on how the display is written, nor the other way round, but   *)
(* for the room in the queue.                                              *)
(***************************************************************************)
EXTENDS Display, AnalogTemp

CONSTANTS DATA_PACKET_BUFFER_SIZE, Readings, Temps, Pressures, Rounds

ASSUME CollectorAssumption ==
  /\ DATA_PACKET_BUFFER_SIZE \in Nat \ {0} /\ Rounds \in Nat \ {0}
  /\ Readings \subseteq [co : Int, co_err : Int]
  /\ \A reading \in Readings : reading.co_err <= 0
  /\ Temps \subseteq Int /\ Pressures \subseteq Nat

VARIABLES watch, pc, i, dataPackets_buffer, result_packet, last_correct_co_value, earlier

collectorVars == <<pc, i, dataPackets_buffer, result_packet, last_correct_co_value, earlier>>
vars == <<watch, collectorVars, analogVars, displayVars>>

Collector == INSTANCE DataCollector

Init ==
  /\ watch \in {"readings", "display"}
  /\ Collector!Init /\ AnalogInit /\ DisplayInit
  /\ watch = "readings" => lcd.bits = 8 /\ lcd.cell = Blanks

-----------------------------------------------------------------------------

AnalogRuns ==
  /\ watch = "readings" /\ AnalogStep
  /\ UNCHANGED <<watch, collectorVars, displayVars>>

Steady == [co |-> 3, co_err |-> 0, temp |-> 1, pressure |-> 2]

Samples ==
  /\ watch = "readings"
  /\ Collector!Sample(get_analog_temp)
  /\ UNCHANGED <<watch, analogVars, displayVars>>

SamplesSteadily ==
  /\ watch = "display"
  /\ Collector!Sample(Steady.temp)
  /\ dataPackets_buffer'[Len(dataPackets_buffer')] = Steady
  /\ UNCHANGED <<watch, analogVars, displayVars>>

Computes ==
  /\ Collector!SumFailed \/ Collector!SumCorrect \/ Collector!Average
  /\ UNCHANGED <<watch, analogVars, displayVars>>

Whole(average) == average.sum \div average.over

(* The number is ConfigClients' matter; here packets are counted.  Gases    *)
(* and readings without an error code take turns among the fields.          *)
DisplayPacket ==
  [ number |-> 1 + (Len(earlier) \div DATA_PACKET_BUFFER_SIZE),
    fields |-> [k \in DOMAIN Names |->
                  Whole(IF k % 2 = 1 THEN result_packet.co ELSE result_packet.temp)] ]

(* The queue for eth_sender comes first; EthServer shows that it is emptied.*)
SendsPacket ==
  /\ Collector!SendAndClear
  /\ displayQueue = <<>>
  /\ displayQueue' = <<DisplayPacket>>
  /\ UNCHANGED <<watch, analogVars, lcd, rs, todo, display_pc, page, line, current_packet,
                 ccs_checks, cut, overwritten>>

-----------------------------------------------------------------------------

WritesDisplay ==
  /\ watch = "display"
  /\ (\E w \in Writers : Pins(w)) \/ DisplayTask \/ DhcpPrints \/ CcsChecks
  /\ UNCHANGED <<watch, collectorVars, analogVars>>

Next ==
  \/ AnalogRuns \/ Samples \/ SamplesSteadily \/ Computes \/ SendsPacket
  \/ WritesDisplay

Spec == Init /\ [][Next]_vars

(* Equal priorities are sliced; dhcp_fsm need not write again.              *)
FairSpec ==
  /\ Spec
  /\ WF_vars(WritesDisplay /\ (\/ Pins("main") \/ Pins("ccs") \/ CcsChecks
                             \/ Pins("display") \/ DisplayTask))

-----------------------------------------------------------------------------

FailedAreSubstituted == Collector!FailedAreSubstituted

(* data_collector does not wait for the display for ever: the packet in the *)
(* queue is taken, at the end of a turn through the fields if not before.   *)
DisplayDrains == watch = "display" /\ displayQueue # <<>> ~> displayQueue = <<>>
=============================================================================

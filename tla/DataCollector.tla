----------------------------- MODULE DataCollector -----------------------------
(***************************************************************************)
(* The arithmetic of data_collector.c: ten samples, summed and averaged    *)
(* into the packet that is sent.  The four gases are treated alike, co     *)
(* stands for them; temp stands for the fields that have no error code.    *)
(* What the packet is numbered and where it goes is in ConfigClients and   *)
(* EthServer.                                                              *)
(*                                                                         *)
(* The quotient of an average is not computed: it is a sum and what it has *)
(* been divided by.                                                        *)
(***************************************************************************)
EXTENDS Integers, Sequences, FiniteSetsExt

CONSTANTS
  DATA_PACKET_BUFFER_SIZE,
  Readings,                \* what getSPEC may return: a value and an error code
  Temps, Pressures,        \* what the other sensors may read
  Rounds                   \* bound on the rounds

VARIABLES
  pc, i,
  dataPackets_buffer,
  result_packet,
  last_correct_co_value,
  earlier    \* the samples of the rounds before

vars == <<pc, i, dataPackets_buffer, result_packet, last_correct_co_value, earlier>>

Size == DATA_PACKET_BUFFER_SIZE

Samples(t) ==
  {[co |-> reading.co, co_err |-> reading.co_err, temp |-> t, pressure |-> p] :
     reading \in Readings, p \in Pressures}

Zero == [sum |-> 0, over |-> 1]
NoPacket == [co |-> Zero, co_err |-> 0, temp |-> Zero, pressure |-> Zero]

Init ==
  /\ pc = "sample" /\ i = 1
  /\ dataPackets_buffer = <<>>
  /\ result_packet = NoPacket
  /\ last_correct_co_value = 0
  /\ earlier = <<>>

(* With an error code the gas is what was read last, or half of it; t is    *)
(* what the getter of a temperature returns.                                *)
Sample(t) ==
  /\ pc = "sample" /\ Len(dataPackets_buffer) < Size
  /\ \E s \in Samples(t) : dataPackets_buffer' = Append(dataPackets_buffer, s)
  /\ pc' = IF Len(dataPackets_buffer') = Size THEN "sum" ELSE "sample"
  /\ UNCHANGED <<i, result_packet, last_correct_co_value, earlier>>

Plus(average, reading) == [average EXCEPT !.sum = @ + reading]

(* The fields without an error code *)
Others(s) ==
  [result_packet EXCEPT !.temp = Plus(@, s.temp), !.pressure = Plus(@, s.pressure)]

Step ==
  /\ i' = i + 1
  /\ pc' = IF i = Size THEN "average" ELSE "sum"
  /\ UNCHANGED <<dataPackets_buffer, earlier>>

(* Has spec error code *)
SumFailed ==
  /\ pc = "sum"
  /\ LET s == dataPackets_buffer[i] IN
       /\ s.co_err < 0
       /\ result_packet' = [Others(s) EXCEPT !.co = Plus(@, last_correct_co_value), !.co_err = s.co_err]
  /\ Step
  /\ UNCHANGED last_correct_co_value

SumCorrectBug ==
  /\ pc = "sum"
  /\ LET s == dataPackets_buffer[i] IN
       /\ s.co_err >= 0
       /\ result_packet' = [Others(s) EXCEPT !.co = Plus(@, s.co)]
       /\ last_correct_co_value' = IF s.co > 0 THEN s.co ELSE last_correct_co_value
  /\ Step

SumCorrect ==
  /\ pc = "sum"
  /\ LET s == dataPackets_buffer[i] IN
       /\ s.co_err >= 0
       /\ result_packet' = [Others(s) EXCEPT !.co = Plus(@, s.co)]
       /\ last_correct_co_value' = s.co
  /\ Step

Divided(average) == [average EXCEPT !.over = IF average.sum > 0 THEN Size ELSE 1]

(* The pressure is not among the fields that are divided. *)
Average ==
  /\ pc = "average" /\ pc' = "send"
  /\ result_packet' = [result_packet EXCEPT !.co = Divided(@), !.temp = Divided(@)]
  /\ UNCHANGED <<i, dataPackets_buffer, last_correct_co_value, earlier>>

(* Both buffers are zeroed, the last correct values stay. *)
SendAndClear ==
  /\ pc = "send" /\ pc' = "sample"
  /\ earlier' = earlier \o dataPackets_buffer
  /\ Len(earlier') < Rounds * Size
  /\ dataPackets_buffer' = <<>>
  /\ result_packet' = NoPacket
  /\ i' = 1
  /\ UNCHANGED last_correct_co_value

Next == (\E t \in Temps : Sample(t)) \/ SumFailed \/ SumCorrect \/ Average \/ SendAndClear

Spec == Init /\ [][Next]_vars

-----------------------------------------------------------------------------

AllSamples == earlier \o dataPackets_buffer

(* The reading that counts for the k-th sample since the start. *)
LastCorrect(k) ==
  LET correct == {j \in 1..k : AllSamples[j].co_err = 0}
  IN IF correct = {} THEN 0 ELSE AllSamples[Max(correct)].co

Between(average, readings) ==
  /\ average.sum >= Min(readings) * average.over
  /\ average.sum <= Max(readings) * average.over

Field(f) == {dataPackets_buffer[k][f] : k \in 1..Size}

(* The gas that is sent is made of the sum of the round, where a reading    *)
(* that failed counts as the last that did not, be it from an earlier round;*)
(* and it is their average, unless that sum is below zero, as sensors that  *)
(* are not calibrated may give: such a sum is sent undivided.               *)
FailedAreSubstituted ==
  pc = "send" =>
    LET round == (Len(earlier) + 1)..Len(AllSamples)
    IN /\ result_packet.co.sum = SumFunction([k \in round |-> LastCorrect(k)])
       /\ result_packet.co.sum >= 0 => Between(result_packet.co, {LastCorrect(k) : k \in round})

(* "Temperature in degrees Celsius." *)
InDegrees == pc = "send" => Between(result_packet.temp, Field("temp"))

(* "Pressure in Pascals." *)
InPascals == pc = "send" => Between(result_packet.pressure, Field("pressure"))

=============================================================================

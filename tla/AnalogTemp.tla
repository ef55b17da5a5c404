------------------------------ MODULE AnalogTemp ------------------------------
(***************************************************************************)
(* analog_temp of lm335z.c: the mean of the last ten conversions of the    *)
(* LM335Z.  Readings are whole degrees; a mean is kept as the sum it is    *)
(* the tenth part of.                                                      *)
(***************************************************************************)
EXTENDS Integers, Sequences, FiniteSetsExt

CONSTANTS
  BUFFER_TEMP_SIZE,
  Degrees   \* what a conversion may yield

TEMP_ERROR == -273

ASSUME AnalogAssumption == BUFFER_TEMP_SIZE \in Nat \ {0} /\ Degrees \subseteq Int

VARIABLES
  analog_pc,
  temp_semaphore,   \* it has been created
  buffer_temp,
  buffer_avg_temp,
  avg_temp,
  converted         \* history: the last conversions, the latest first

analogVars == <<analog_pc, temp_semaphore, buffer_temp, buffer_avg_temp, avg_temp, converted>>

Places == 0 .. BUFFER_TEMP_SIZE - 1

Get_Analog_Temp_d == Degrees \union {TEMP_ERROR}

AnalogInit ==
  /\ analog_pc = "create" /\ temp_semaphore = FALSE
  /\ buffer_temp = [p \in Places |-> 0]
  /\ buffer_avg_temp = 0 /\ avg_temp = 0
  /\ converted = <<>>

CreateSemaphore ==
  /\ analog_pc = "create" /\ analog_pc' = "first"
  /\ temp_semaphore' = TRUE
  /\ UNCHANGED <<buffer_temp, buffer_avg_temp, avg_temp, converted>>

(* The first conversion fills the buffer; nothing is locked. *)
FirstConversion ==
  /\ analog_pc = "first" /\ analog_pc' = "convert"
  /\ \E temp \in Get_Analog_Temp_d :
       /\ buffer_temp' = [p \in Places |-> temp]
       /\ avg_temp' = BUFFER_TEMP_SIZE * temp
       /\ converted' = [k \in 1..BUFFER_TEMP_SIZE |-> temp]
  /\ UNCHANGED <<temp_semaphore, buffer_avg_temp>>

Shifted(buffer, temp) == [p \in Places |-> IF p = 0 THEN temp ELSE buffer[p - 1]]

SummedBug(buffer, temp) == temp + SumFunctionOnSet(buffer, Places \ {0})

(* The loop moves each reading up and adds it where it now is. *)
Summed(buffer, temp) == temp + SumFunctionOnSet(Shifted(buffer, temp), Places \ {0})

Convert ==
  /\ analog_pc = "convert" /\ analog_pc' = "store"
  /\ \E temp \in Get_Analog_Temp_d :
       /\ buffer_avg_temp' = Summed(buffer_temp, temp)
       /\ buffer_temp' = Shifted(buffer_temp, temp)
       /\ converted' = <<temp>> \o SubSeq(converted, 1, BUFFER_TEMP_SIZE - 1)
  /\ UNCHANGED <<temp_semaphore, avg_temp>>

StoreMean ==
  /\ analog_pc = "store" /\ analog_pc' = "convert"
  /\ avg_temp' = buffer_avg_temp
  /\ UNCHANGED <<temp_semaphore, buffer_temp, buffer_avg_temp, converted>>

AnalogStep == CreateSemaphore \/ FirstConversion \/ Convert \/ StoreMean

(* For data_collector *)
get_analog_temp == IF temp_semaphore THEN avg_temp ELSE 0

-----------------------------------------------------------------------------

(* What data_collector is given is the mean of the last conversions -- one  *)
(* that failed counts as TEMP_ERROR degrees --, the first of them counting  *)
(* for those before it.                                                     *)
MeanOfLast ==
  analog_pc = "convert" => get_analog_temp = SumFunctionOnSet(converted, 1..BUFFER_TEMP_SIZE)
=============================================================================

-------------------------------- MODULE I2cBus --------------------------------
(***************************************************************************)
(* bmp280.c and i2c_ccs811sensor.c: two tasks of one priority on one I2C   *)
(* peripheral and one HAL handle, without a mutex of their own.  Only the  *)
(* handle's State and Lock keep them apart, and neither is tested and set  *)
(* in one step.  Both tasks initialise the handle when they start.         *)
(*                                                                         *)
(* data_collector fetches the readings.  A reading is not a number but     *)
(* where it came from.  The calibration words are read in one transfer,    *)
(* and so are the CCS811's settings.                                       *)
(***************************************************************************)
EXTENDS Naturals, Sequences

VARIABLES
  State,      \* hi2cxc.State
  Lock,       \* hi2cxc.Lock
  i2c_pc,     \* where each task is
  phase,      \* where each task is in HAL_I2C_Mem_Read or HAL_I2C_Mem_Write
  spoiled,    \* the peripheral was used by another task during the transfer
  result,     \* what the transfer of each task brought
  calibrated, \* bmp280 holds the sensor's calibration
  BME_mutex, TVOC_CO2_MUTEX, \* "none" until created, else "free" or the holder
  bme,        \* where temperature, pressure and humidity came from
  co2_tvoc_t  \* where the CO2 and TVOC values came from

bus == <<State, Lock, phase, spoiled>>
readings == <<bme, co2_tvoc_t>>
mutexes == <<BME_mutex, TVOC_CO2_MUTEX>>
busVars == <<bus, i2c_pc, result, calibrated, mutexes, readings>>

Sensors == {"bme280", "ccs811"}
BusTasks == Sensors \union {"collector"}

(* bmp280_init; its wait for the reset to end is the read of "status". *)
BmeSetup == <<"id", "reset", "status", "calibration", "humidity", "config", "ctrl_hum", "ctrl">>
(* configureCCS811 *)
CcsSetup == <<"hwid", "app_start", "mode", "error_id">>

Steps(s) == {s[i] : i \in DOMAIN s}
Following(s, step) == s[(CHOOSE i \in DOMAIN s : s[i] = step) + 1]
Last(s, step) == step = s[Len(s)]

BmeTransfers == Steps(BmeSetup) \union {"data"}
CcsTransfers == Steps(CcsSetup) \union {"alg_status", "alg_result"}
Transfers == BmeTransfers \union CcsTransfers

Source == {"none", "sensor", "uncompensated", "mixed", "stack"}

I2cTypeOK ==
  /\ State \in {"RESET", "READY", "BUSY"} /\ Lock \in BOOLEAN
  /\ i2c_pc["bme280"] \in {"init", "initialising", "mutex", "take", "store", "give"} \union BmeTransfers
  /\ i2c_pc["ccs811"] \in {"init", "initialising", "mutex", "take", "give"} \union CcsTransfers
  /\ i2c_pc["collector"] \in {"bme", "bme_copy", "co2", "co2_copy"}
  /\ phase \in [Sensors -> {"none", "ready", "unlocked", "active", "over"}]
  /\ \A t \in Sensors : phase[t] # "none" => i2c_pc[t] \in Transfers
  /\ spoiled \in [Sensors -> BOOLEAN]
  /\ result \in [Sensors -> {"ok", "mixed", "failed"}]
  /\ calibrated \in BOOLEAN
  /\ BME_mutex \in {"none", "free", "bme280", "collector"}
  /\ TVOC_CO2_MUTEX \in {"none", "free", "ccs811", "collector"}
  /\ bme \in Source /\ co2_tvoc_t \in Source

BusInit ==
  /\ State = "RESET" /\ Lock = FALSE
  /\ i2c_pc = [t \in BusTasks |-> IF t = "collector" THEN "bme" ELSE "init"]
  /\ phase = [t \in Sensors |-> "none"]
  /\ spoiled = [t \in Sensors |-> FALSE]
  /\ result = [t \in Sensors |-> "failed"]
  /\ calibrated = FALSE
  /\ BME_mutex = "none" /\ TVOC_CO2_MUTEX = "none"
  /\ bme = "none" /\ co2_tvoc_t = "none"

-----------------------------------------------------------------------------
(* The HAL *)

Disturb(t) == spoiled' = [u \in Sensors |-> spoiled[u] \/ (u # t /\ phase[u] = "active")]

(* HAL_I2C_Init resets the peripheral whatever another task is doing, and   *)
(* leaves a Lock that is set.                                               *)
BeginInit(t) ==
  /\ i2c_pc[t] = "init" /\ i2c_pc' = [i2c_pc EXCEPT ![t] = "initialising"]
  /\ Lock' = (State # "RESET" /\ Lock)
  /\ State' = "BUSY"
  /\ Disturb(t)
  /\ UNCHANGED <<phase, result, calibrated, mutexes, readings>>

EndInit(t) ==
  /\ i2c_pc[t] = "initialising"
  /\ i2c_pc' = [i2c_pc EXCEPT ![t] = IF t = "bme280" THEN BmeSetup[1] ELSE CcsSetup[1]]
  /\ State' = "READY"
  /\ UNCHANGED <<Lock, phase, spoiled, result, calibrated, mutexes, readings>>

Phase(t, a, b) ==
  /\ i2c_pc[t] \in Transfers
  /\ phase[t] = a /\ phase' = [phase EXCEPT ![t] = b]
  /\ UNCHANGED <<i2c_pc, calibrated, mutexes, readings>>

Refuse(t, a) ==
  /\ Phase(t, a, "over")
  /\ result' = [result EXCEPT ![t] = "failed"]
  /\ UNCHANGED <<State, Lock, spoiled>>

(* State is tested, *)
FindReady(t) ==
  /\ State = "READY"
  /\ Phase(t, "none", "ready")
  /\ UNCHANGED <<State, Lock, spoiled, result>>

FindBusy(t) == State # "READY" /\ Refuse(t, "none")

(* then the peripheral's BUSY flag is waited for, and when that takes too   *)
(* long the handle is released, though another task may be using it;        *)
FlagStaysBusy(t) ==
  /\ Phase(t, "ready", "over")
  /\ State' = "READY" /\ Lock' = FALSE
  /\ result' = [result EXCEPT ![t] = "failed"]
  /\ UNCHANGED spoiled

(* then __HAL_LOCK tests the Lock, *)
FindUnlocked(t) ==
  /\ ~Lock
  /\ Phase(t, "ready", "unlocked")
  /\ UNCHANGED <<State, Lock, spoiled, result>>

FindLocked(t) == Lock /\ Refuse(t, "ready")

(* and then it is set.  Now the transfer has the peripheral, *)
Enter(t) ==
  /\ Phase(t, "unlocked", "active")
  /\ Lock' = TRUE /\ State' = "BUSY"
  /\ spoiled' = [u \in Sensors |-> IF u = t THEN \E v \in Sensors : phase[v] = "active"
                                   ELSE spoiled[u] \/ phase[u] = "active"]
  /\ UNCHANGED result

(* until it has brought its bytes, perhaps not the right ones when another  *)
(* task was there, *)
Complete(t) ==
  /\ Phase(t, "active", "over")
  /\ State' = "READY" /\ Lock' = FALSE
  /\ result' = [result EXCEPT ![t] = IF spoiled[t] THEN "mixed" ELSE "ok"]
  /\ UNCHANGED spoiled

GiveUpBug(t) ==
  /\ Phase(t, "active", "over")
  /\ State' = "READY"
  /\ result' = [result EXCEPT ![t] = "failed"]
  /\ UNCHANGED <<Lock, spoiled>>

(* or until the sensor has not acknowledged, or a flag not come in time.    *)
GiveUp(t) ==
  /\ Phase(t, "active", "over")
  /\ State' = "READY" /\ Lock' = FALSE
  /\ result' = [result EXCEPT ![t] = "failed"]
  /\ UNCHANGED spoiled

-----------------------------------------------------------------------------
(* bme280_sensor *)

(* The transfer at this step has returned. *)
Returned(t, step) ==
  /\ i2c_pc[t] = step /\ phase[t] = "over"
  /\ phase' = [phase EXCEPT ![t] = "none"]
  /\ spoiled' = [spoiled EXCEPT ![t] = FALSE]
  /\ UNCHANGED <<State, Lock, result>>

Goto(t, step) == i2c_pc' = [i2c_pc EXCEPT ![t] = step]

(* A register that was read wrong may still hold an acceptable value. *)
Failed(t) == result[t] = "failed"

(* bmp280_init; any failure but that of the status read ends it.            *)
BmeStep(step) ==
  /\ Returned("bme280", step)
  /\ \/ ~Failed("bme280") /\ Goto("bme280", IF Last(BmeSetup, step) THEN "mutex"
                                             ELSE Following(BmeSetup, step))
     \/ step # "status" /\ (Failed("bme280") \/ step = "id") /\ Goto("bme280", "mutex")
     \/ step = "status" /\ Goto("bme280", "status")
  /\ calibrated' = (calibrated \/ (step = "humidity" /\ ~Failed("bme280")))
  /\ UNCHANGED <<mutexes, readings>>

(* The outcome of bmp280_init goes to a handler that does nothing. *)
CreateBmeMutex ==
  /\ i2c_pc["bme280"] = "mutex" /\ Goto("bme280", "take")
  /\ BME_mutex' = "free"
  /\ UNCHANGED <<bus, result, calibrated, TVOC_CO2_MUTEX, readings>>

TakeBmeMutex ==
  /\ i2c_pc["bme280"] = "take" /\ Goto("bme280", "data")
  /\ BME_mutex = "free" /\ BME_mutex' = "bme280"
  /\ UNCHANGED <<bus, result, calibrated, TVOC_CO2_MUTEX, readings>>

(* bmp280_read_float *)
ReadData ==
  /\ Returned("bme280", "data")
  /\ Goto("bme280", IF Failed("bme280") THEN "give" ELSE "store")
  /\ UNCHANGED <<calibrated, mutexes, readings>>

StoreBme ==
  /\ i2c_pc["bme280"] = "store" /\ Goto("bme280", "give")
  /\ bme' = IF ~calibrated THEN "uncompensated"
            ELSE IF result["bme280"] = "ok" THEN "sensor" ELSE "mixed"
  /\ UNCHANGED <<bus, result, calibrated, mutexes, co2_tvoc_t>>

GiveBmeMutex ==
  /\ i2c_pc["bme280"] = "give" /\ Goto("bme280", "take")
  /\ BME_mutex' = "free"
  /\ UNCHANGED <<bus, result, calibrated, TVOC_CO2_MUTEX, readings>>

-----------------------------------------------------------------------------
(* i2c_ccs811sensor *)

(* configureCCS811 shows an error on the display and goes on. *)
CcsStep(step) ==
  /\ Returned("ccs811", step)
  /\ Goto("ccs811", IF Last(CcsSetup, step) THEN "mutex" ELSE Following(CcsSetup, step))
  /\ UNCHANGED <<calibrated, mutexes, readings>>

CreateCcsMutex ==
  /\ i2c_pc["ccs811"] = "mutex" /\ Goto("ccs811", "alg_status")
  /\ TVOC_CO2_MUTEX' = "free"
  /\ UNCHANGED <<bus, result, calibrated, BME_mutex, readings>>

(* readResults: the status is not looked at, nor is whether a read failed.  *)
ReadStatus ==
  /\ Returned("ccs811", "alg_status") /\ Goto("ccs811", "alg_result")
  /\ UNCHANGED <<calibrated, mutexes, readings>>

ReadResult ==
  /\ Returned("ccs811", "alg_result") /\ Goto("ccs811", "take")
  /\ UNCHANGED <<calibrated, mutexes, readings>>

StoreResult ==
  /\ i2c_pc["ccs811"] = "take" /\ Goto("ccs811", "give")
  /\ TVOC_CO2_MUTEX = "free" /\ TVOC_CO2_MUTEX' = "ccs811"
  /\ co2_tvoc_t' = CASE result["ccs811"] = "ok" -> "sensor"
                     [] result["ccs811"] = "mixed" -> "mixed"
                     [] OTHER -> "stack"
  /\ UNCHANGED <<bus, result, calibrated, BME_mutex, bme>>

GiveCcsMutex ==
  /\ i2c_pc["ccs811"] = "give" /\ Goto("ccs811", "alg_status")
  /\ TVOC_CO2_MUTEX' = "free"
  /\ UNCHANGED <<bus, result, calibrated, BME_mutex, readings>>

-----------------------------------------------------------------------------
(* data_collector: get_bme_value and get_co2_tvoc, which both return zeros  *)
(* before the mutex exists.                                                 *)

GetBme ==
  /\ i2c_pc["collector"] = "bme"
  /\ IF BME_mutex = "none" THEN Goto("collector", "co2") /\ UNCHANGED BME_mutex
     ELSE BME_mutex = "free" /\ BME_mutex' = "collector" /\ Goto("collector", "bme_copy")
  /\ UNCHANGED <<bus, result, calibrated, TVOC_CO2_MUTEX, readings>>

CopyBme ==
  /\ i2c_pc["collector"] = "bme_copy"
  /\ BME_mutex' = "free"
  /\ Goto("collector", "co2")
  /\ UNCHANGED <<bus, result, calibrated, TVOC_CO2_MUTEX, readings>>

GetCo2 ==
  /\ i2c_pc["collector"] = "co2"
  /\ IF TVOC_CO2_MUTEX = "none" THEN Goto("collector", "bme") /\ UNCHANGED TVOC_CO2_MUTEX
     ELSE /\ TVOC_CO2_MUTEX = "free" /\ TVOC_CO2_MUTEX' = "collector"
          /\ Goto("collector", "co2_copy")
  /\ UNCHANGED <<bus, result, calibrated, BME_mutex, readings>>

CopyCo2 ==
  /\ i2c_pc["collector"] = "co2_copy"
  /\ TVOC_CO2_MUTEX' = "free"
  /\ Goto("collector", "bme")
  /\ UNCHANGED <<bus, result, calibrated, BME_mutex, readings>>

-----------------------------------------------------------------------------

Hal(t) ==
  \/ BeginInit(t) \/ EndInit(t) \/ FindReady(t) \/ FindBusy(t) \/ FlagStaysBusy(t)
  \/ FindUnlocked(t) \/ FindLocked(t) \/ Enter(t) \/ Complete(t) \/ GiveUp(t)

BmeTask ==
  \/ Hal("bme280")
  \/ \E step \in Steps(BmeSetup) : BmeStep(step)
  \/ CreateBmeMutex \/ TakeBmeMutex \/ ReadData \/ StoreBme \/ GiveBmeMutex

CcsTask ==
  \/ Hal("ccs811")
  \/ \E step \in Steps(CcsSetup) : CcsStep(step)
  \/ CreateCcsMutex \/ ReadStatus \/ ReadResult \/ StoreResult \/ GiveCcsMutex

ReadingsTask == GetBme \/ CopyBme \/ GetCo2 \/ CopyCo2

BusNext == BmeTask \/ CcsTask \/ ReadingsTask

BusSpec == BusInit /\ [][BusNext]_busVars

-----------------------------------------------------------------------------

(* Refused, failed and colliding transfers, and an initialisation in the    *)
(* middle of one, never leave the handle busy or locked with nobody inside: *)
(* every later transfer of both sensors would be refused.                   *)
BusReleased ==
  (\A t \in Sensors : i2c_pc[t] \notin {"init", "initialising"} /\ phase[t] # "active")
    => State = "READY" /\ ~Lock

(* "Read compensated temperature and pressure data" *)
Compensated == bme # "uncompensated"

(* "Updates the total voltatile organic compounds (TVOC) in parts per       *)
(* billion (PPB) and the CO2 value": with values the sensor sent.           *)
ResultsRead == co2_tvoc_t # "stack"
=============================================================================

---------------------------- MODULE ConfigClients ----------------------------
(***************************************************************************)
(* The two tasks that share the configuration: data_collector, which       *)
(* numbers its packets from it, and wifi_task, which lets a user read and  *)
(* change it.  Both have priority 1 and time slicing is on, so they        *)
(* interleave anywhere; the global device_config and the flash have no     *)
(* mutex.  Composes ConfigStore with its callers.                          *)
(*                                                                         *)
(* A configuration is abstracted to the settings a user posts and the      *)
(* packet counter.  The fields of one post are assigned in one step.       *)
(***************************************************************************)
EXTENDS ConfigStore

CONSTANTS
  Settings,    \* values of all the fields a user can set
  MaxCounter   \* bound: no packet is numbered past it

ASSUME ClientAssumption ==
  /\ MaxCounter \in Nat
  /\ Configs = [settings : Settings, counter : 0..(MaxCounter + 1)]
  /\ ZeroCfg.counter = 0
  /\ Callers \subseteq {"collector", "wifi"}

VARIABLES
  job,       \* where each task is in its own loop
  packet,    \* result_packet.device_message_counter
  posted,    \* the settings of the request being handled
  lastSent   \* history: the highest packet number sent, -1 before the first

clientVars == <<job, packet, posted, lastSent>>
allVars == <<vars, clientVars>>

FirstJob(t) == IF t = "collector" THEN "sample" ELSE "start"

ClientTypeOK ==
  /\ StoreTypeOK
  /\ job \in [Callers -> {"sample", "pack", "fans", "store", "start", "poll", "filled", "reply"}]
  /\ packet \in 0..(MaxCounter + 1)
  /\ posted \in Settings
  /\ lastSent \in -1..MaxCounter

ClientInit ==
  /\ Init
  /\ saved # NoCfg => saved.counter = 0
  /\ job = [t \in Callers |-> FirstJob(t)]
  /\ packet = 0
  /\ posted = ZeroCfg.settings
  /\ lastSent = -1

Job(t, from, to) == t \in Callers /\ At(t, "idle") /\ job[t] = from /\ job' = [job EXCEPT ![t] = to]
StoreIdle == UNCHANGED <<chip, up, caller, history>>

-----------------------------------------------------------------------------
(* data_collector *)

(* ReadConfig(&device_config) once the samples are averaged *)
CollectorRead ==
  /\ Job("collector", "sample", "pack")
  /\ ReadMain("collector")
  /\ UNCHANGED <<packet, posted, lastSent>>

SendPacketBug ==
  /\ Job("collector", "pack", "fans")
  /\ device_config.counter <= MaxCounter
  /\ packet' = device_config.counter + 1
  /\ lastSent' = IF device_config.counter > lastSent THEN device_config.counter ELSE lastSent
  /\ UNCHANGED posted
  /\ StoreIdle /\ UNCHANGED device_config

(* Fill the header from device_config and queue the packet for sending. *)
SendPacket ==
  /\ Job("collector", "pack", "fans")
  /\ device_config.counter <= MaxCounter
  /\ packet' = device_config.counter
  /\ lastSent' = IF device_config.counter > lastSent THEN device_config.counter ELSE lastSent
  /\ UNCHANGED posted
  /\ StoreIdle /\ UNCHANGED device_config

(* After the fans have run for FANS_WORKING_TIME: *)
CountPacket ==
  /\ Job("collector", "fans", "store")
  /\ device_config' = [device_config EXCEPT !.counter = packet + 1]
  /\ UNCHANGED <<packet, posted, lastSent>>
  /\ StoreIdle

CollectorWrite ==
  /\ Job("collector", "store", "sample")
  /\ WriteConfig("collector")
  /\ UNCHANGED <<packet, posted, lastSent>>

-----------------------------------------------------------------------------
(* wifi_task *)

(* esp_start, and GET /device-conf *)
WifiRead ==
  /\ \/ Job("wifi", "start", "poll")
     \/ Job("wifi", "poll", "poll")
  /\ ReadMain("wifi")
  /\ UNCHANGED <<packet, posted, lastSent>>

(* POST /device-conf or /network: the form fields are stored one by one. *)
Fill(s) ==
  /\ Job("wifi", "poll", "filled")
  /\ device_config' = [device_config EXCEPT !.settings = s]
  /\ posted' = s
  /\ UNCHANGED <<packet, lastSent>>
  /\ StoreIdle

WifiWrite ==
  /\ Job("wifi", "filled", "reply")
  /\ WriteConfig("wifi")
  /\ UNCHANGED <<packet, posted, lastSent>>

(* The answer is "OK" whatever the flash holds. *)
Reply ==
  /\ Job("wifi", "reply", "poll")
  /\ UNCHANGED <<packet, posted, lastSent>>
  /\ StoreIdle /\ UNCHANGED device_config

-----------------------------------------------------------------------------

Restart ==
  /\ PowerLoss
  /\ job' = [t \in Callers |-> FirstJob(t)]
  /\ packet' = 0
  /\ UNCHANGED <<posted, lastSent>>

ClientNext ==
  \/ CollectorRead \/ SendPacket \/ CountPacket \/ CollectorWrite
  \/ WifiRead \/ (\E s \in Settings : Fill(s)) \/ WifiWrite \/ Reply
  \/ (FlashInit \/ ChipStep \/ \E t \in Callers : Driver(t)) /\ UNCHANGED clientVars
  \/ Restart

ClientSpec == ClientInit /\ [][ClientNext]_allVars

-----------------------------------------------------------------------------

(* Packet numbers may repeat -- after a power loss, or when the other task  *)
(* stored an older counter -- but never skip one: no counter anywhere is    *)
(* more than one past the highest number sent.                              *)
NoSkippedPacket ==
  /\ device_config.counter <= lastSent + 1
  /\ \A s \in Sectors : Intact(s) => Image(s).counter <= lastSent + 1
  /\ \A t \in Callers : Writing(t) => cfg_crc[t].counter <= lastSent + 1

(* The settings page reports "Device configuration saved successfully!" on  *)
(* the answer "OK": when that answer is given, the stored configuration has *)
(* the posted settings.                                                     *)
SavedMeansStored ==
  "wifi" \in Callers /\ job["wifi"] = "reply" /\ pc["wifi"] = "idle"
    => Stored # NoCfg /\ Stored.settings = posted
=============================================================================

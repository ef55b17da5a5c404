------------------------------- MODULE Startup -------------------------------
(***************************************************************************)
(* How the firmware starts: init_task (main.c) creates the other tasks one *)
(* after the other, each makes its handles and announces itself in the     *)
(* event group eg_task_started, some wait there for others.                *)
(*                                                                         *)
(* The scheduler is FreeRTOS with strict priorities and time slicing among *)
(* equals: a task runs only when no ready task has a higher priority.      *)
(*                                                                         *)
(* A task's code before its loop is a sequence of steps that matter here:  *)
(* making a handle, waiting for bits, setting its bits.  Its loop uses     *)
(* handles, sleeps, and uses them again.                                   *)
(***************************************************************************)
EXTENDS Naturals, Sequences

CONSTANT Wakers  \* bound: the tasks whose loops go round again during startup

VARIABLES
  created,  \* how many tasks init_task has created
  passed,   \* init_task is past its wait for the others
  at,       \* each task: 0, a step of its prologue, its loop, or asleep in it
  bits,     \* the bits of eg_task_started
  made,     \* handles that are not NULL
  used,     \* history: handles a task has used without a check for NULL
  announced \* history: tasks that have set their bits

startupVars == <<created, passed, at, bits, made, used, announced>>

SensorsLastBug ==
  <<"link_state", "dhcp_fsm", "ethernetif_input", "bme280_sensor", "eth_server",
    "i2c_ccs811sensor", "esp_rx_task", "wifi_task", "analog_temp", "data_collector",
    "eth_sender", "reed_switch_task", "display_data_task", "uart_sensors">>

(* init_task creates them in this order. *)
Order == <<"link_state", "dhcp_fsm", "ethernetif_input", "uart_sensors", "bme280_sensor",
           "eth_server", "i2c_ccs811sensor", "esp_rx_task", "wifi_task", "analog_temp",
           "data_collector", "eth_sender", "reed_switch_task", "display_data_task">>
Tasks == {Order[i] : i \in DOMAIN Order}

ASSUME StartupAssumption == Wakers \subseteq Tasks

InitPriority == 0
Priority(t) ==
  CASE t \in {"ethernetif_input", "eth_sender"} -> 3
    [] t = "link_state" -> 2
    [] OTHER -> 1

BitsShort ==
  [init |-> {0}, ethernetif_input |-> {1}, link_state |-> {2}, dhcp_fsm |-> {3},
   analog_temp |-> {4}, eth_server |-> {5}, eth_sender |-> {6}, data_collector |-> {7},
   wifi_task |-> {8}, uart_sensors |-> {9}, esp_rx_task |-> {8, 9},
   reed_switch_task |-> {10}, bme280_sensor |-> {10}, i2c_ccs811sensor |-> {9, 10}]
(* The EG_ constants, as the positions of their one bits *)
Bits ==
  [init |-> {0}, ethernetif_input |-> {1}, link_state |-> {2}, dhcp_fsm |-> {3},
   analog_temp |-> {4}, eth_server |-> {5}, eth_sender |-> {6}, data_collector |-> {7},
   wifi_task |-> {8}, uart_sensors |-> {9}, esp_rx_task |-> {8, 9},
   reed_switch_task |-> {10}, bme280_sensor |-> {8, 10}, i2c_ccs811sensor |-> {9, 10}]
BitsOf(ts) == UNION {Bits[t] : t \in ts}

Announce == [op |-> "announce"]
Make(h) == [op |-> "make", handle |-> h]
Await(ts) == [op |-> "await", tasks |-> ts]

Network == {"init", "ethernetif_input", "link_state", "dhcp_fsm"}

Prologue ==
  [link_state        |-> <<Make("link_irq_sem"), Announce>>,
   dhcp_fsm          |-> <<Make("dhcp_state_mut"), Announce>>,
   ethernetif_input  |-> <<Make("eth_irq_sem"), Announce>>,
   uart_sensors      |-> <<Announce, Make("HCHO_mutex"), Make("PMS_mutex"), Make("SPEC_mutex"),
                           Make("timer_SPEC_ISR")>>,
   bme280_sensor     |-> <<Announce, Make("BME_mutex")>>,
   eth_server        |-> <<Make("clients_mut"), Await(Network), Announce>>,
   i2c_ccs811sensor  |-> <<Announce, Make("TVOC_CO2_MUTEX")>>,
   esp_rx_task       |-> <<>>,
   wifi_task         |-> <<>>,
   analog_temp       |-> <<Announce, Make("temp_semaphore")>>,
   data_collector    |-> <<Await(Network \union {"eth_server", "eth_sender", "analog_temp",
                                                 "uart_sensors", "bme280_sensor"}),
                           Announce>>,
   eth_sender        |-> <<Await(Network \union {"eth_server"}), Make("QueueTransmitEthernet"),
                           Announce>>,
   reed_switch_task  |-> <<Announce>>,
   display_data_task |-> <<Make("displayQueueHandle")>>]

(* Handles a task's loop uses as they are; the others it checks for NULL.   *)
Uses(t) ==
  CASE t = "ethernetif_input" -> {"eth_irq_sem"}
    [] t = "link_state"       -> {"link_irq_sem"}
    [] t = "uart_sensors"     -> {"HCHO_mutex", "PMS_mutex", "SPEC_mutex", "timer_SPEC_ISR"}
    [] t = "bme280_sensor"    -> {"BME_mutex"}
    [] t = "eth_server"       -> {"clients_mut"}
    [] t = "i2c_ccs811sensor" -> {"TVOC_CO2_MUTEX"}
    [] t = "analog_temp"      -> {"temp_semaphore"}
    [] t = "data_collector"   -> {"SPEC_mutex"}
    [] t = "eth_sender"       -> {"QueueTransmitEthernet"}
    [] t = "display_data_task" -> {"displayQueueHandle"}
    [] OTHER                  -> {}

(* What the first packet needs: data_collector queues it for eth_sender and *)
(* the display, and eth_sender writes it to the clients.                    *)
PacketUses == {"QueueTransmitEthernet", "displayQueueHandle", "clients_mut"}

-----------------------------------------------------------------------------

Loop(t) == Len(Prologue[t]) + 1
Asleep(t) == Len(Prologue[t]) + 2
InPrologue(t) == at[t] \in 1..Len(Prologue[t])
Op(t) == Prologue[t][at[t]]

Waits(op) == op.op = "await" /\ ~(BitsOf(op.tasks) \subseteq bits)
Ready(t) == at[t] = Loop(t) \/ (InPrologue(t) /\ ~Waits(Op(t)))

AllNamed == {"init"} \union (Tasks \ {"display_data_task"})
InitReady == created < Len(Order) \/ (~passed /\ BitsOf(AllNamed) \subseteq bits)

Runs(t) ==
  /\ Ready(t)
  /\ \A u \in Tasks : Ready(u) => Priority(u) <= Priority(t)
  /\ InitReady => InitPriority <= Priority(t)
InitRuns == InitReady /\ \A u \in Tasks : Ready(u) => Priority(u) <= InitPriority

(* init_task has created the event group and set its own bit. *)
StartupInit ==
  /\ created = 0 /\ passed = FALSE
  /\ at = [t \in Tasks |-> 0]
  /\ bits = Bits["init"]
  /\ made = {} /\ used = {} /\ announced = {"init"}

CreateTask ==
  /\ InitRuns /\ created < Len(Order)
  /\ created' = created + 1
  /\ at' = [at EXCEPT ![Order[created + 1]] = 1]
  /\ UNCHANGED <<passed, bits, made, used, announced>>

(* "Wait for all tasks initialization" is over. *)
InitPasses ==
  /\ InitRuns /\ created = Len(Order)
  /\ passed' = TRUE
  /\ UNCHANGED <<created, at, bits, made, used, announced>>

(* The next step of the code before the loop *)
Begin(t) ==
  /\ Runs(t) /\ InPrologue(t)
  /\ at' = [at EXCEPT ![t] = @ + 1]
  /\ CASE Op(t).op = "make" ->
            made' = made \union {Op(t).handle} /\ UNCHANGED <<bits, announced>>
       [] Op(t).op = "announce" ->
            bits' = bits \union Bits[t] /\ announced' = announced \union {t} /\ UNCHANGED made
       [] OTHER -> UNCHANGED <<bits, made, announced>>
  /\ UNCHANGED <<created, passed, used>>

(* One round of the loop, up to where it blocks; later it wakes up again.   *)
Round(t) ==
  /\ Runs(t) /\ at[t] = Loop(t)
  /\ at' = [at EXCEPT ![t] = Asleep(t)]
  /\ used' = used \union Uses(t)
  /\ UNCHANGED <<created, passed, bits, made, announced>>

Wake(t) ==
  /\ t \in Wakers
  /\ at[t] = Asleep(t)
  /\ at' = [at EXCEPT ![t] = Loop(t)]
  /\ UNCHANGED <<created, passed, bits, made, used, announced>>

(* The first packet comes after ten delays of five seconds, in which every  *)
(* other task has run until it blocked.                                     *)
FirstPacket ==
  /\ at["data_collector"] = Asleep("data_collector")
  /\ ~InitReady /\ \A t \in Tasks : ~Ready(t)
  /\ used' = used \union PacketUses
  /\ UNCHANGED <<created, passed, at, bits, made, announced>>

StartupNext ==
  \/ CreateTask \/ InitPasses
  \/ \E t \in Tasks : Begin(t) \/ Round(t) \/ Wake(t)
  \/ FirstPacket

StartupSpec == StartupInit /\ [][StartupNext]_startupVars

-----------------------------------------------------------------------------

(* No task uses a handle another has not made yet.  data_collector's wait   *)
(* does not cover SPEC_mutex, which uart_sensors makes after announcing     *)
(* itself, nor the display queue: only the priorities and the order of      *)
(* creation do.                                                             *)
HandlesReady == used \subseteq made

(* init_task gets past its wait -- although two of the tasks it waits for   *)
(* announce nothing -- and data_collector past its own, provided the loops  *)
(* that are already running all sleep at the same time again and again.     *)
Quiet == \A t \in Tasks : at[t] # Loop(t)
StartupCompletes == <>[]~Quiet \/ <>(passed /\ "data_collector" \in announced)

(* main.c: "Wait for all tasks initialization" *)
AllInitialized == passed => AllNamed \subseteq announced
=============================================================================

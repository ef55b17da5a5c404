------------------------------ MODULE BoardProofs ------------------------------
(***************************************************************************)
(* Proofs about the board around the network: how the tasks start          *)
(* (Startup), for any of them whose loops go round again, the LEDs on top  *)
(* of that (Leds), and what becomes of the readings in DataPath: the       *)
(* display, for any names and packets, and the means of analog_temp and    *)
(* the averages of data_collector, for any readings.                       *)
(***************************************************************************)
EXTENDS Leds, DataPath, I2cBus, NumberProofs, FiniteSetTheorems

-----------------------------------------------------------------------------
(* The LEDs. *)

(* LedTellsMode holds from the start, and also while the switch is held for *)
(* the first time.                                                          *)
Told == reed \in {"start", "look", "held"} /\ ~unshown
ModeShown == Told => (current_mode = "WIFI_MODE" <=> esp_server_mode)

(* Whatever changes neither the LEDs, the modes nor the switch keeps both.  *)
LEMMA Stutters ==
  ASSUME UNCHANGED leds
  PROVE  (OneLit => OneLit') /\ (ModeShown => ModeShown')
BY DEF leds, OneLit, ModeShown, Told

(* Both hold at the start, with the LEDs off.                               *)
LEMMA Starts == LedsInit => OneLit /\ ModeShown
BY DEF LedsInit, OneLit, ModeShown, Told

(* change_led turns the LED of the mode it leaves off.                      *)
LEMMA ChangeLed ==
  ASSUME NEW mode, OneLit, change_led(mode)
  PROVE  OneLit'
<1>1. CASE mode = current_mode
  BY <1>1 DEF change_led, OneLit
<1>2. CASE mode # current_mode
  BY <1>2 DEF change_led, OneLit
<1> QED BY <1>1, <1>2

(* Blinking, the switch and a new mode leave no other LED lit.              *)
LEMMA OneLitStep ==
  ASSUME OneLit, [LedsNext]_ledsVars
  PROVE  OneLit'
<1>1. CASE StartupStep
  BY <1>1, Stutters DEF StartupStep
<1>2. CASE ChoosePin
  BY <1>2 DEF ChoosePin, OneLit
<1>3. CASE TogglePin
  BY <1>3 DEF TogglePin, OneLit
<1>4. CASE ReedStarts \/ LookAtSwitch \/ LookAgain \/ Toggle \/ WifiRound
  BY <1>4 DEF ReedStarts, LookAtSwitch, LookAgain, Toggle, WifiRound, OneLit
<1>5. CASE ShowMode
  BY <1>5, ChangeLed DEF ShowMode
<1>6. CASE UNCHANGED ledsVars
  BY <1>6, Stutters DEF ledsVars
<1> QED BY <1>1, <1>2, <1>3, <1>4, <1>5, <1>6 DEF LedsNext

(* Only reed_switch_task shows the mode, and only wifi_task hides it.       *)
LEMMA ModeShownStep ==
  ASSUME ModeShown, [LedsNext]_ledsVars
  PROVE  ModeShown'
<1>1. CASE StartupStep
  BY <1>1, Stutters DEF StartupStep
<1>2. CASE ChoosePin \/ TogglePin
  BY <1>2 DEF ChoosePin, TogglePin, ModeShown, Told
<1>3. CASE ReedStarts \/ LookAtSwitch
  BY <1>3 DEF ReedStarts, LookAtSwitch, ModeShown, Told
<1>4. CASE LookAgain
  <2>1. reed' \in {"show", "clear", "set"}
    BY <1>4 DEF LookAgain
  <2> QED BY <2>1 DEF ModeShown, Told
<1>5. CASE Toggle
  BY <1>5 DEF Toggle, ModeShown, Told
<1>6. CASE ShowMode
  <2>1. current_mode' = IF esp_server_mode THEN "WIFI_MODE" ELSE "WORKING_MODE"
    BY <1>6 DEF ShowMode, change_led
  <2>2. esp_server_mode' = esp_server_mode
    BY <1>6 DEF ShowMode
  <2> QED BY <2>1, <2>2 DEF ModeShown
<1>7. CASE WifiRound
  <2>1. CASE UNCHANGED <<esp_server_mode, unshown>>
    BY <1>7, <2>1 DEF WifiRound, ModeShown, Told
  <2>2. CASE unshown'
    BY <2>2 DEF ModeShown, Told
  <2> QED BY <1>7, <2>1, <2>2 DEF WifiRound
<1>8. CASE UNCHANGED ledsVars
  BY <1>8, Stutters DEF ledsVars
<1> QED BY <1>1, <1>2, <1>3, <1>4, <1>5, <1>6, <1>7, <1>8 DEF LedsNext

(* Only the LED of the current mode is lit, but for a pin init_task had     *)
(* chosen before change_led.                                                *)
THEOREM NoOtherLedLit == LedsSpec => []OneLit
<1>1. LedsInit => OneLit
  BY Starts
<1>2. OneLit /\ [LedsNext]_ledsVars => OneLit'
  BY OneLitStep
<1> QED BY <1>1, <1>2, PTL DEF LedsSpec

(* However the switch is held and released, once reed_switch_task has shown *)
(* the mode the LED tells it until wifi_task changes it.                    *)
THEOREM LedTellsTheMode == LedsSpec => []LedTellsMode
<1>1. LedsInit => ModeShown
  BY Starts
<1>2. ModeShown /\ [LedsNext]_ledsVars => ModeShown'
  BY ModeShownStep
<1>3. ModeShown => LedTellsMode
  BY DEF ModeShown, Told, LedTellsMode
<1> QED BY <1>1, <1>2, <1>3, PTL DEF LedsSpec

-----------------------------------------------------------------------------
(* The start. *)

(* A handle is there once its task is past making it, *)
MadeInv ==
  \A t \in Tasks : \A j \in 1..Len(Prologue[t]) :
    j < at[t] /\ Prologue[t][j].op = "make" => Prologue[t][j].handle \in made

(* tasks are created in order, and a task that waits for nobody has reached *)
(* its loop before the next one is created, *)
OrderInv ==
  /\ created \in 0..14
  /\ \A j \in 1..14 : at[Order[j]] > 0 <=> j <= created
  /\ created > 4 => at["uart_sensors"] > 5

(* and a bit that only one task has tells that this task has announced itself. *)
BitsInv ==
  /\ bits = BitsOf(announced)
  /\ "eth_sender" \in announced => at["eth_sender"] > 3
  /\ at["data_collector"] > 1 => 6 \in bits

StartInv ==
  /\ at \in [Tasks -> Nat] /\ announced \subseteq AllNamed
  /\ MadeInv /\ OrderInv /\ BitsInv /\ HandlesReady

(* Where each task is in Order. *)
Place ==
  [link_state |-> 1, dhcp_fsm |-> 2, ethernetif_input |-> 3, uart_sensors |-> 4,
   bme280_sensor |-> 5, eth_server |-> 6, i2c_ccs811sensor |-> 7, esp_rx_task |-> 8,
   wifi_task |-> 9, analog_temp |-> 10, data_collector |-> 11, eth_sender |-> 12,
   reed_switch_task |-> 13, display_data_task |-> 14]

(* Order lists fourteen tasks, each in one place.                           *)
LEMMA OrderPlaces ==
  /\ Len(Order) = 14 /\ DOMAIN Order = 1..14
  /\ \A j \in 1..14 : Place[Order[j]] = j /\ Order[j] \in Tasks
  /\ Order[4] = "uart_sensors" /\ Order[6] = "eth_server" /\ Order[11] = "data_collector"
  /\ Order[12] = "eth_sender" /\ Order[14] = "display_data_task"
<1>1. Len(Order) = 14 /\ DOMAIN Order = 1..14
  BY DEF Order
<1>2. ASSUME NEW j \in 1..14 PROVE Place[Order[j]] = j
  <2>1. j = 1 \/ j = 2 \/ j = 3 \/ j = 4 \/ j = 5 \/ j = 6 \/ j = 7 \/ j = 8 \/ j = 9 \/ j = 10
        \/ j = 11 \/ j = 12 \/ j = 13 \/ j = 14
    OBVIOUS
  <2> QED BY <2>1 DEF Place, Order
<1>3. /\ Order[4] = "uart_sensors" /\ Order[6] = "eth_server" /\ Order[11] = "data_collector"
      /\ Order[12] = "eth_sender" /\ Order[14] = "display_data_task"
  BY DEF Order
<1> QED BY <1>1, <1>2, <1>3 DEF Tasks

(* The tasks, by name.                                                      *)
LEMMA TaskNames ==
  Tasks = {"link_state", "dhcp_fsm", "ethernetif_input", "uart_sensors", "bme280_sensor",
           "eth_server", "i2c_ccs811sensor", "esp_rx_task", "wifi_task", "analog_temp",
           "data_collector", "eth_sender", "reed_switch_task", "display_data_task"}
<1>1. DOMAIN Order = 1..14
  BY DEF Order
<1>2. ASSUME NEW t PROVE t \in Tasks <=> \E j \in 1..14 : t = Order[j]
  BY <1>1 DEF Tasks
<1>3. ASSUME NEW t PROVE (\E j \in 1..14 : t = Order[j]) <=> 
      t \in {"link_state", "dhcp_fsm", "ethernetif_input", "uart_sensors", "bme280_sensor",
           "eth_server", "i2c_ccs811sensor", "esp_rx_task", "wifi_task", "analog_temp",
           "data_collector", "eth_sender", "reed_switch_task", "display_data_task"}
  BY DEF Order
<1> QED BY <1>2, <1>3

(* Every task has a higher priority than init_task.                         *)
LEMMA Priorities == ASSUME NEW t \in Tasks PROVE Priority(t) \in {1, 2, 3}
BY DEF Priority

(* A prologue is a sequence.                                                *)
LEMMA Lengths == ASSUME NEW t \in Tasks PROVE Len(Prologue[t]) \in Nat
BY TaskNames DEF Prologue

(* When init_task creates a task or gets past its wait nobody else is       *)
(* ready.                                                                   *)
LEMMA InitLast ==
  ASSUME InitRuns
  PROVE  \A t \in Tasks : ~Ready(t)
BY Priorities DEF InitRuns, InitPriority

(* Being past a step that makes a handle means that it has been made.       *)
LEMMA MadeStep ==
  ASSUME StartInv, StartupNext
  PROVE  MadeInv'
<1> USE DEF StartInv, MadeInv
<1>1. CASE CreateTask
  <2>1. Order[created + 1] \in Tasks
    <3>1. created + 1 \in 1..14
      BY <1>1, OrderPlaces DEF CreateTask, OrderInv
    <3> QED BY <3>1, OrderPlaces
  <2> QED BY <1>1, <2>1 DEF CreateTask
<1>2. CASE InitPasses \/ FirstPacket
  BY <1>2 DEF InitPasses, FirstPacket
<1>3. ASSUME NEW t \in Tasks, Begin(t)
      PROVE  MadeInv'
  <2>1. made \subseteq made' /\ (Op(t).op = "make" => Op(t).handle \in made')
    BY <1>3 DEF Begin
  <2>2. at[t] \in 1..Len(Prologue[t]) /\ Op(t) = Prologue[t][at[t]] /\ at' = [at EXCEPT ![t] = @ + 1]
    BY <1>3 DEF Begin, InPrologue, Op
  <2>3. ASSUME NEW j \in 1..Len(Prologue[t]), j < at[t] + 1 PROVE j < at[t] \/ j = at[t]
    BY <2>2, <2>3
  <2> QED BY <2>1, <2>2, <2>3
<1>4. ASSUME NEW t \in Tasks, Round(t) \/ Wake(t)
      PROVE  MadeInv'
  <2>1. at[t] > Len(Prologue[t]) /\ made' = made /\ \E n : at' = [at EXCEPT ![t] = n]
    BY <1>4 DEF Round, Wake, Loop, Asleep
  <2> QED BY <2>1
<1> QED BY <1>1, <1>2, <1>3, <1>4 DEF StartupNext

(* init_task, the lowest of all, creates the next task only when            *)
(* uart_sensors, which waits for nobody, is in its loop.                    *)
LEMMA OrderStep ==
  ASSUME StartInv, StartupNext
  PROVE  OrderInv'
<1> USE DEF StartInv, OrderInv
<1>0. "uart_sensors" \in Tasks /\ Len(Prologue["uart_sensors"]) = 5
  BY TaskNames DEF Prologue
<1>1. CASE CreateTask
  <2>1. created + 1 \in 1..14 /\ created' = created + 1
    BY <1>1, OrderPlaces DEF CreateTask
  <2>2. at' = [at EXCEPT ![Order[created + 1]] = 1] /\ Order[created + 1] \in Tasks
    BY <1>1, <2>1, OrderPlaces DEF CreateTask
  <2>3. \A j \in 1..14 : Order[j] = Order[created + 1] <=> j = created + 1
    BY <2>1, OrderPlaces
  <2>4. \A j \in 1..14 : at'[Order[j]] = IF j = created + 1 THEN 1 ELSE at[Order[j]]
    BY <2>2, <2>3, OrderPlaces
  <2>5. \A j \in 1..14 : at'[Order[j]] > 0 <=> j <= created + 1
    BY <2>1, <2>4
  <2>6. created + 1 > 4 => at'["uart_sensors"] > 5
    <3>1. ASSUME created + 1 > 4 PROVE at["uart_sensors"] > 5
      <4>1. CASE created > 4
        BY <4>1
      <4>2. CASE created = 4
        <5>1. at["uart_sensors"] > 0
          BY <4>2, OrderPlaces
        <5>2. ~Ready("uart_sensors")
          BY <1>0, <1>1, InitLast DEF CreateTask
        <5>3. \A j \in 1..5 : Prologue["uart_sensors"][j].op # "await"
          BY DEF Prologue, Announce, Make
        <5>4. at["uart_sensors"] \notin 1..5
          BY <1>0, <5>2, <5>3 DEF Ready, InPrologue, Waits, Op
        <5> QED BY <1>0, <5>1, <5>4
      <4> QED BY <2>1, <3>1, <4>1, <4>2
    <3>2. created + 1 > 4 => Order[created + 1] # "uart_sensors"
      BY <2>1, OrderPlaces
    <3> QED BY <1>0, <2>2, <3>1, <3>2
  <2> QED BY <2>1, <2>5, <2>6
<1>2. CASE InitPasses \/ FirstPacket
  BY <1>2 DEF InitPasses, FirstPacket
<1>3. ASSUME NEW t \in Tasks, Begin(t) \/ Round(t) \/ Wake(t)
      PROVE  OrderInv'
  <2>0. created' = created /\ at[t] \in Nat \ {0} /\ Len(Prologue[t]) \in Nat
    BY <1>3, Lengths DEF Begin, Round, Wake, InPrologue, Loop, Asleep
  <2>1. PICK n \in Nat \ {0} : at' = [at EXCEPT ![t] = n] /\ (n > at[t] \/ n > Len(Prologue[t]))
    <3>1. CASE Begin(t)
      <4>1. at[t] + 1 \in Nat \ {0} /\ at[t] + 1 > at[t] /\ at' = [at EXCEPT ![t] = at[t] + 1]
        BY <2>0, <3>1 DEF Begin
      <4> QED BY <4>1
    <3>2. CASE Round(t)
      <4>1. Asleep(t) \in Nat \ {0} /\ Asleep(t) > Len(Prologue[t])
        BY <2>0 DEF Asleep
      <4> QED BY <3>2, <4>1 DEF Round
    <3>3. CASE Wake(t)
      <4>1. Loop(t) \in Nat \ {0} /\ Loop(t) > Len(Prologue[t])
        BY <2>0 DEF Loop
      <4> QED BY <3>3, <4>1 DEF Wake
    <3> QED BY <1>3, <3>1, <3>2, <3>3
  <2>2. \A j \in 1..14 : at'[Order[j]] > 0 <=> at[Order[j]] > 0
    <3>1. ASSUME NEW u \in Tasks PROVE at'[u] > 0 <=> at[u] > 0
      BY <2>0, <2>1
    <3> QED BY <3>1, OrderPlaces
  <2>3. at["uart_sensors"] > 5 => at'["uart_sensors"] > 5
    <3>1. CASE t = "uart_sensors"
      <4>1. at'[t] = n
        BY <2>1
      <4>2. Len(Prologue[t]) = 5
        BY <1>0, <3>1
      <4> QED BY <2>0, <2>1, <3>1, <4>1, <4>2
    <3>2. CASE t # "uart_sensors"
      BY <1>0, <2>1, <3>2
    <3> QED BY <3>1, <3>2
  <2> QED BY <2>0, <2>2, <2>3
<1> QED BY <1>1, <1>2, <1>3 DEF StartupNext

(* Bit 6 is that of eth_sender and of nobody else; data_collector waits     *)
(* for it.                                                                  *)
LEMMA BitsStep ==
  ASSUME StartInv, StartupNext
  PROVE  BitsInv'
<1> USE DEF StartInv, BitsInv
<1>0. /\ "eth_sender" \in Tasks /\ Len(Prologue["eth_sender"]) = 3
      /\ "data_collector" \in Tasks /\ Len(Prologue["data_collector"]) = 2
  BY TaskNames DEF Prologue
<1>1. CASE CreateTask
  <2>1. created + 1 \in 1..14 /\ Order[created + 1] \in Tasks
    <3>1. created + 1 \in 1..14
      BY <1>1, OrderPlaces DEF CreateTask, OrderInv
    <3> QED BY <3>1, OrderPlaces
  <2>2. at[Order[created + 1]] = 0
    BY <2>1 DEF OrderInv
  <2> QED BY <1>0, <1>1, <2>1, <2>2 DEF CreateTask
<1>2. CASE InitPasses \/ FirstPacket
  BY <1>2 DEF InitPasses, FirstPacket
<1>3. ASSUME NEW t \in Tasks, Begin(t)
      PROVE  BitsInv'
  <2>1. at' = [at EXCEPT ![t] = @ + 1] /\ at[t] \in 1..Len(Prologue[t]) /\ Op(t) = Prologue[t][at[t]]
    BY <1>3 DEF Begin, InPrologue, Op
  <2>2. bits' = BitsOf(announced')
    BY <1>3 DEF Begin, BitsOf
  <2>3. "eth_sender" \in announced' => at'["eth_sender"] > 3
    <3>1. CASE t = "eth_sender"
      <4>1. Op(t).op = "announce" => at[t] = 3
        BY <1>0, <2>1, <3>1 DEF Prologue, Announce, Await, Make
      <4> QED BY <1>0, <1>3, <2>1, <3>1, <4>1 DEF Begin
    <3>2. CASE t # "eth_sender"
      BY <1>0, <1>3, <2>1, <3>2 DEF Begin
    <3> QED BY <3>1, <3>2
  <2>4. at'["data_collector"] > 1 => 6 \in bits'
    <3>1. bits \subseteq bits'
      BY <1>3 DEF Begin
    <3>2. CASE t = "data_collector" /\ at[t] = 1
      <4>1. Op(t) = Prologue["data_collector"][1] /\ ~Waits(Op(t))
        BY <1>3, <2>1, <3>2 DEF Begin, Runs, Ready, Loop
      <4>2. /\ Prologue["data_collector"][1].op = "await"
            /\ "eth_sender" \in Prologue["data_collector"][1].tasks
        BY DEF Prologue, Await
      <4>3. 6 \in BitsOf(Prologue["data_collector"][1].tasks)
        BY <4>2 DEF BitsOf, Bits
      <4> QED BY <3>1, <4>1, <4>2, <4>3 DEF Waits
    <3>3. CASE ~(t = "data_collector" /\ at[t] = 1)
      BY <1>0, <2>1, <3>1, <3>3
    <3> QED BY <3>2, <3>3
  <2> QED BY <2>2, <2>3, <2>4
<1>4. ASSUME NEW t \in Tasks, Round(t) \/ Wake(t)
      PROVE  BitsInv'
  <2>1. UNCHANGED <<bits, announced>> /\ at[t] > Len(Prologue[t]) /\ at[t] \in Nat
    BY <1>4, Lengths DEF Round, Wake, Loop, Asleep
  <2>2. PICK n \in Nat : at' = [at EXCEPT ![t] = n] /\ n > Len(Prologue[t])
    BY <1>4, Lengths DEF Round, Wake, Loop, Asleep
  <2>3. \A u \in Tasks : at'[u] = IF u = t THEN n ELSE at[u]
    BY <2>2
  <2>4. at["eth_sender"] > 3 => at'["eth_sender"] > 3
    <3>1. CASE t = "eth_sender"
      BY <1>0, <2>2, <2>3, <3>1
    <3>2. CASE t # "eth_sender"
      BY <1>0, <2>3, <3>2
    <3> QED BY <3>1, <3>2
  <2>5. at'["data_collector"] > 1 => at["data_collector"] > 1
    <3>1. CASE t = "data_collector"
      <4>1. at[t] \in Nat /\ at[t] > 2
        BY <1>0, <2>1, <3>1
      <4>2. at[t] > 1
        BY <4>1
      <4> QED BY <3>1, <4>2
    <3>2. CASE t # "data_collector"
      BY <1>0, <2>3, <3>2
    <3> QED BY <3>1, <3>2
  <2> QED BY <2>1, <2>4, <2>5
<1> QED BY <1>1, <1>2, <1>3, <1>4 DEF StartupNext

(* A handle a task has made on its way is not NULL.                         *)
LEMMA HandleMade ==
  ASSUME StartInv, NEW t \in Tasks, NEW j \in 1..Len(Prologue[t]), j < at[t],
         NEW h, Prologue[t][j] = Make(h)
  PROVE  h \in made
BY DEF StartInv, MadeInv, Make

(* What a task uses in its loop it has made before, or, SPEC_mutex for      *)
(* data_collector, uart_sensors has.                                        *)
LEMMA LoopUses ==
  ASSUME StartInv, NEW t \in Tasks, at[t] = Loop(t)
  PROVE  Uses(t) \subseteq made
<1>1. \A j \in 1..Len(Prologue[t]) : j < at[t]
  BY Lengths DEF Loop
<1>2. CASE t \in {"ethernetif_input", "link_state", "eth_server", "display_data_task"}
  <2>1. 1 \in 1..Len(Prologue[t]) /\ \A h \in Uses(t) : Prologue[t][1] = Make(h)
    <3>1. CASE t \in {"ethernetif_input", "link_state"}
      BY <3>1 DEF Uses, Prologue
    <3>2. CASE t = "eth_server"
      BY <3>2 DEF Uses, Prologue
    <3>3. CASE t = "display_data_task"
      BY <3>3 DEF Uses, Prologue
    <3> QED BY <1>2, <3>1, <3>2, <3>3
  <2> QED BY <1>1, <2>1, HandleMade
<1>3. CASE t \in {"bme280_sensor", "i2c_ccs811sensor", "analog_temp", "eth_sender"}
  <2>1. 2 \in 1..Len(Prologue[t]) /\ \A h \in Uses(t) : Prologue[t][2] = Make(h)
    BY <1>3 DEF Uses, Prologue
  <2> QED BY <1>1, <2>1, HandleMade
<1>4. CASE t = "uart_sensors"
  <2>1. /\ 1..Len(Prologue[t]) = 1..5
        /\ Prologue[t][2] = Make("HCHO_mutex") /\ Prologue[t][3] = Make("PMS_mutex")
        /\ Prologue[t][4] = Make("SPEC_mutex") /\ Prologue[t][5] = Make("timer_SPEC_ISR")
    BY <1>4 DEF Prologue
  <2>2. "HCHO_mutex" \in made
    BY <1>1, <2>1, HandleMade
  <2>3. "PMS_mutex" \in made
    BY <1>1, <2>1, HandleMade
  <2>4. "SPEC_mutex" \in made
    BY <1>1, <2>1, HandleMade
  <2>5. "timer_SPEC_ISR" \in made
    BY <1>1, <2>1, HandleMade
  <2> QED BY <1>4, <2>2, <2>3, <2>4, <2>5 DEF Uses
<1>5. CASE t = "data_collector"
  <2>1. at["uart_sensors"] > 5
    BY <1>5, OrderPlaces, Lengths DEF StartInv, OrderInv, Loop
  <2>2. "SPEC_mutex" \in made
    <3>1. /\ "uart_sensors" \in Tasks /\ 4 \in 1..Len(Prologue["uart_sensors"])
          /\ Prologue["uart_sensors"][4] = Make("SPEC_mutex")
      BY TaskNames DEF Prologue
    <3>2. 4 < at["uart_sensors"]
      BY <2>1, <3>1 DEF StartInv
    <3> QED BY <3>1, <3>2, HandleMade
  <2> QED BY <1>5, <2>2 DEF Uses
<1>6. CASE t \in {"dhcp_fsm", "esp_rx_task", "wifi_task", "reed_switch_task"}
  BY <1>6 DEF Uses
<1> QED BY <1>2, <1>3, <1>4, <1>5, <1>6, TaskNames

(* When the first packet comes nobody is left before its loop but those     *)
(* that wait, and data_collector would not be there without eth_sender:     *)
(* the handles the packet needs have been made.                             *)
LEMMA PacketHandles ==
  ASSUME StartInv, FirstPacket
  PROVE  PacketUses \subseteq made
<1>1. created = 14
  BY OrderPlaces DEF FirstPacket, InitReady, StartInv, OrderInv
<1>2. /\ at["eth_server"] > 0 /\ at["display_data_task"] > 0
  BY <1>1, OrderPlaces DEF StartInv, OrderInv
<1>3. "clients_mut" \in made
  <2>1. /\ "eth_server" \in Tasks /\ 1 \in 1..Len(Prologue["eth_server"])
        /\ Prologue["eth_server"][1] = Make("clients_mut")
    BY TaskNames DEF Prologue
  <2>2. at["eth_server"] # 1
    BY <2>1 DEF FirstPacket, Ready, InPrologue, Waits, Op, Make
  <2>3. at["eth_server"] > 1
    BY <1>2, <2>1, <2>2 DEF StartInv
  <2> QED BY <2>1, <2>3, HandleMade
<1>4. "displayQueueHandle" \in made
  <2>1. /\ "display_data_task" \in Tasks /\ 1 \in 1..Len(Prologue["display_data_task"])
        /\ Prologue["display_data_task"][1] = Make("displayQueueHandle")
    BY TaskNames DEF Prologue
  <2>2. at["display_data_task"] # 1
    BY <2>1 DEF FirstPacket, Ready, InPrologue, Waits, Op, Make
  <2>3. at["display_data_task"] > 1
    BY <1>2, <2>1, <2>2 DEF StartInv
  <2> QED BY <2>1, <2>3, HandleMade
<1>5. "QueueTransmitEthernet" \in made
  <2>1. /\ "eth_sender" \in Tasks /\ 2 \in 1..Len(Prologue["eth_sender"])
        /\ Prologue["eth_sender"][2] = Make("QueueTransmitEthernet")
        /\ Len(Prologue["data_collector"]) = 2
    BY TaskNames DEF Prologue
  <2>2. 6 \in BitsOf(announced)
    BY <2>1 DEF FirstPacket, Asleep, StartInv, BitsInv
  <2>3. PICK t \in announced : 6 \in Bits[t]
    BY <2>2 DEF BitsOf
  <2>4. t = "eth_sender"
    <3>1. t \in AllNamed
      BY <2>3 DEF StartInv
    <3>2. t \notin {"init", "ethernetif_input", "link_state", "dhcp_fsm", "analog_temp"}
      BY <2>3 DEF Bits
    <3>3. t \notin {"eth_server", "data_collector", "wifi_task", "uart_sensors"}
      BY <2>3 DEF Bits
    <3>4. t \notin {"esp_rx_task", "bme280_sensor", "i2c_ccs811sensor"}
      BY <2>3 DEF Bits
    <3>5. t # "reed_switch_task"
      BY <2>3 DEF Bits
    <3> QED BY <3>1, <3>2, <3>3, <3>4, <3>5, TaskNames DEF AllNamed
  <2>5. at["eth_sender"] > 2
    BY <2>1, <2>3, <2>4 DEF StartInv, BitsInv
  <2> QED BY <2>1, <2>5, HandleMade
<1> QED BY <1>3, <1>4, <1>5 DEF PacketUses

(* Every step of the start keeps the invariant.                             *)
LEMMA StartStep ==
  ASSUME StartInv, StartupNext
  PROVE  StartInv'
<1>1. MadeInv' /\ OrderInv' /\ BitsInv'
  BY MadeStep, OrderStep, BitsStep
<1>2. CASE CreateTask \/ InitPasses
  <2>1. created + 1 \in 1..14 /\ CreateTask => Order[created + 1] \in Tasks
    BY OrderPlaces
  <2> QED BY <1>1, <1>2, <2>1 DEF StartInv, HandlesReady, CreateTask, InitPasses
<1>3. CASE FirstPacket
  BY <1>1, <1>3, PacketHandles DEF StartInv, HandlesReady, FirstPacket
<1>4. ASSUME NEW t \in Tasks, Begin(t)
      PROVE  StartInv'
  <2>1. at' \in [Tasks -> Nat] /\ used' = used
    BY <1>4 DEF StartInv, Begin
  <2>2. made \subseteq made' /\ announced' \subseteq AllNamed
    <3>1. t = "display_data_task" => Op(t).op # "announce"
      BY <1>4 DEF Begin, InPrologue, Op, Prologue, Make
    <3> QED BY <1>4, <3>1 DEF Begin, StartInv, AllNamed
  <2> QED BY <1>1, <2>1, <2>2 DEF StartInv, HandlesReady
<1>5. ASSUME NEW t \in Tasks, Round(t) \/ Wake(t)
      PROVE  StartInv'
  <2>1. at' \in [Tasks -> Nat] /\ UNCHANGED <<made, announced>>
    BY <1>5, Lengths DEF StartInv, Round, Wake, Loop, Asleep
  <2>2. used' \subseteq made
    BY <1>5, LoopUses DEF Round, Wake, StartInv, HandlesReady
  <2> QED BY <1>1, <2>1, <2>2 DEF StartInv, HandlesReady
<1> QED BY <1>2, <1>3, <1>4, <1>5 DEF StartupNext

(* It holds when init_task has made the event group.                        *)
LEMMA StartInit == StartupInit => StartInv
<1> SUFFICES ASSUME StartupInit PROVE StartInv
  OBVIOUS
<1> USE DEF StartupInit
<1>1. MadeInv
  BY DEF MadeInv
<1>2. OrderInv
  BY OrderPlaces DEF OrderInv
<1>3. BitsInv
  <2>1. BitsOf({"init"}) = Bits["init"]
    BY DEF BitsOf
  <2>2. "data_collector" \in Tasks
    BY TaskNames
  <2> QED BY <2>1, <2>2 DEF BitsInv
<1> QED BY <1>1, <1>2, <1>3 DEF StartInv, HandlesReady, AllNamed

(* The tasks start with the LEDs as they do without: every step of Leds,    *)
(* the blinking, the switch and the mode, is one of Startup or changes      *)
(* nothing there.                                                           *)
THEOREM LedsKeepStartup == LedsSpec => StartupSpec
<1>1. LedsInit => StartupInit
  BY DEF LedsInit
<1>2. [LedsNext]_ledsVars => [StartupNext]_startupVars
  <2>1. "reed_switch_task" \in Tasks /\ "wifi_task" \in Tasks
    BY TaskNames
  <2>2. StartupStep => StartupNext
    BY DEF StartupStep, StartupNext
  <2>3. ReedStarts \/ LookAtSwitch \/ ShowMode \/ WifiRound => StartupNext
    BY <2>1 DEF ReedStarts, LookAtSwitch, ShowMode, WifiRound, StartupNext
  <2>4. ChoosePin \/ TogglePin \/ LookAgain \/ Toggle => UNCHANGED startupVars
    BY DEF ChoosePin, TogglePin, LookAgain, Toggle
  <2>5. UNCHANGED ledsVars => UNCHANGED startupVars
    BY DEF ledsVars
  <2> QED BY <2>2, <2>3, <2>4, <2>5 DEF LedsNext
<1> QED BY <1>1, <1>2, PTL DEF LedsSpec, StartupSpec

(* No task uses a handle that has not been made, whichever loops go round   *)
(* again while the others start: neither the one data_collector takes from  *)
(* uart_sensors nor those the first packet needs.                           *)
THEOREM HandlesAreReady == StartupSpec => []HandlesReady
<1>1. StartInv /\ [StartupNext]_startupVars => StartInv'
  <2>1. StartInv /\ UNCHANGED startupVars => StartInv'
    BY DEF StartInv, MadeInv, OrderInv, BitsInv, HandlesReady, startupVars
  <2> QED BY <2>1, StartStep
<1>2. StartInv => HandlesReady
  BY DEF StartInv
<1> QED BY <1>1, <1>2, StartInit, PTL DEF StartupSpec

(* Nor does one when the switch is held and the LEDs blink.                 *)
COROLLARY HandlesReadyWithLeds == LedsSpec => []HandlesReady
BY LedsKeepStartup, HandlesAreReady, PTL

-----------------------------------------------------------------------------
(* The display. *)

(* Steps on the pins.  Counted from the end, every third sets RS, the two   *)
(* behind it strobe a byte; no command asks for another width.              *)
Paced(s) ==
  /\ \E S : s \in Seq(S)
  /\ \A n \in 1..Len(s) : s[n].op = IF (Len(s) - n) % 3 = 2 THEN "rs" ELSE "strobe"
  /\ \A n \in 1..(Len(s) - 1) :
       s[n].op = "rs" /\ s[n].value # 1 => s[n + 1].value # 3
Bytes(s) == Paced(s) /\ Len(s) % 3 = 0

(* What is left after the first of the paced steps is paced.                *)
LEMMA DropOne ==
  ASSUME NEW s, Paced(s), s # <<>>
  PROVE  /\ Len(s) \in Nat \ {0} /\ Head(s) = s[1]
         /\ Paced(Tail(s)) /\ Len(Tail(s)) = Len(s) - 1
         /\ \A n \in 1..Len(Tail(s)) : Tail(s)[n] = s[n + 1]
         /\ s[1].op = IF Len(s) % 3 = 0 THEN "rs" ELSE "strobe"
         /\ Len(s) % 3 = 0 /\ s[1].value # 1 => Tail(s)[1].value # 3
<1>1. PICK S : s \in Seq(S)
  BY DEF Paced
<1>2. /\ Len(s) \in Nat \ {0} /\ Head(s) = s[1]
      /\ Tail(s) \in Seq(S) /\ Len(Tail(s)) = Len(s) - 1
      /\ \A n \in 1..Len(Tail(s)) : Tail(s)[n] = s[n + 1]
  BY <1>1
<1>3. s[1].op = IF Len(s) % 3 = 0 THEN "rs" ELSE "strobe"
  <2>1. (Len(s) - 1) % 3 = 2 <=> Len(s) % 3 = 0
    BY <1>2
  <2> QED BY <1>2, <2>1 DEF Paced
<1>4. Paced(Tail(s))
  <2>1. ASSUME NEW n \in 1..Len(Tail(s))
        PROVE  Tail(s)[n].op = IF (Len(Tail(s)) - n) % 3 = 2 THEN "rs" ELSE "strobe"
    <3>1. n + 1 \in 1..Len(s) /\ Len(s) - (n + 1) = Len(Tail(s)) - n
      BY <1>2
    <3> QED BY <1>2, <3>1 DEF Paced
  <2>2. ASSUME NEW n \in 1..(Len(Tail(s)) - 1), Tail(s)[n].op = "rs", Tail(s)[n].value # 1
        PROVE  Tail(s)[n + 1].value # 3
    <3>1. n + 1 \in 1..(Len(s) - 1) /\ n \in 1..Len(Tail(s)) /\ n + 1 \in 1..Len(Tail(s))
      BY <1>2
    <3> QED BY <1>2, <2>2, <3>1 DEF Paced
  <2> QED BY <1>2, <2>1, <2>2 DEF Paced
<1>5. Len(s) % 3 = 0 /\ s[1].value # 1 => Tail(s)[1].value # 3
  <2>1. Len(s) % 3 = 0 => 1 \in 1..(Len(s) - 1) /\ 1 \in 1..Len(Tail(s))
    BY <1>2
  <2> QED BY <1>2, <1>3, <2>1 DEF Paced
<1> QED BY <1>2, <1>3, <1>4, <1>5

(* Adding a multiple of three does not change where one is.                 *)
LEMMA Mod3 ==
  ASSUME NEW a \in Int, NEW b \in Int, b % 3 = 0
  PROVE  (a + b) % 3 = a % 3
OBVIOUS

(* The elements of two sequences in a row.                                  *)
LEMMA Joined ==
  ASSUME NEW s, NEW t, \E S : s \in Seq(S), \E S : t \in Seq(S)
  PROVE  /\ \E S : s \o t \in Seq(S)
         /\ Len(s \o t) = Len(s) + Len(t) /\ Len(s) \in Nat /\ Len(t) \in Nat
         /\ \A n \in 1..Len(s) : (s \o t)[n] = s[n]
         /\ \A n \in 1..Len(t) : (s \o t)[Len(s) + n] = t[n]
<1>1. PICK S, T : s \in Seq(S) /\ t \in Seq(T)
  OBVIOUS
<1>2. s \in Seq(S \union T) /\ t \in Seq(S \union T)
  BY <1>1
<1> QED BY <1>2

(* Bytes after bytes are bytes.                                             *)
LEMMA BytesJoined ==
  ASSUME NEW s, NEW t, Bytes(s), Bytes(t)
  PROVE  Bytes(s \o t)
<1>1. /\ \E S : s \o t \in Seq(S)
      /\ Len(s \o t) = Len(s) + Len(t) /\ Len(s) \in Nat /\ Len(t) \in Nat
      /\ \A n \in 1..Len(s) : (s \o t)[n] = s[n]
      /\ \A n \in 1..Len(t) : (s \o t)[Len(s) + n] = t[n]
  BY Joined DEF Bytes, Paced
<1>2. Len(s \o t) % 3 = 0
  BY <1>1 DEF Bytes
<1>3. ASSUME NEW n \in 1..Len(s \o t)
      PROVE  (s \o t)[n].op = IF (Len(s \o t) - n) % 3 = 2 THEN "rs" ELSE "strobe"
  <2>1. CASE n <= Len(s)
    <3>1. n \in 1..Len(s) /\ Len(s) - n \in Int /\ Len(s \o t) - n = (Len(s) - n) + Len(t)
      BY <1>1, <2>1
    <3>2. (Len(s \o t) - n) % 3 = (Len(s) - n) % 3
      <4>1. Len(t) \in Int /\ Len(t) % 3 = 0
        BY <1>1 DEF Bytes
      <4>2. ((Len(s) - n) + Len(t)) % 3 = (Len(s) - n) % 3
        BY <3>1, <4>1, Mod3
      <4> QED BY <3>1, <4>2
    <3> QED BY <1>1, <3>1, <3>2 DEF Bytes, Paced
  <2>2. CASE n > Len(s)
    <3>1. PICK m \in 1..Len(t) : n = Len(s) + m
      <4>1. n - Len(s) \in 1..Len(t) /\ n = Len(s) + (n - Len(s))
        BY <1>1, <2>2
      <4> QED BY <4>1
    <3>2. Len(s \o t) - n = Len(t) - m
      BY <1>1, <3>1
    <3>3. (s \o t)[n] = t[m]
      BY <1>1, <3>1
    <3> QED BY <3>2, <3>3 DEF Bytes, Paced
  <2> QED BY <1>1, <2>1, <2>2
<1>4. ASSUME NEW n \in 1..(Len(s \o t) - 1), (s \o t)[n].op = "rs", (s \o t)[n].value # 1
      PROVE  (s \o t)[n + 1].value # 3
  <2>1. CASE n < Len(s)
    <3>1. n \in 1..(Len(s) - 1) /\ n + 1 \in 1..Len(s) /\ n \in 1..Len(s)
      BY <1>1, <2>1
    <3> QED BY <1>1, <1>4, <3>1 DEF Bytes, Paced
  <2>2. CASE n = Len(s)
    <3>1. n \in 1..Len(s) /\ (Len(s) - n) % 3 # 2
      BY <1>1, <2>2
    <3> QED BY <1>1, <1>4, <3>1 DEF Bytes, Paced
  <2>3. CASE n > Len(s)
    <3>1. /\ n - Len(s) \in 1..(Len(t) - 1) /\ n - Len(s) + 1 \in 1..Len(t) /\ n - Len(s) \in 1..Len(t)
          /\ n = Len(s) + (n - Len(s)) /\ n + 1 = Len(s) + (n - Len(s) + 1)
      BY <1>1, <2>3
    <3>2. (s \o t)[n] = t[n - Len(s)] /\ (s \o t)[n + 1] = t[n - Len(s) + 1]
      BY <1>1, <3>1
    <3> QED BY <1>4, <3>1, <3>2 DEF Bytes, Paced
  <2> QED BY <1>1, <2>1, <2>2, <2>3
<1> QED BY <1>1, <1>2, <1>3, <1>4 DEF Bytes, Paced

(* RS and two strobes are a byte, if it does not ask for eight bits.        *)
LEMMA OneByte ==
  ASSUME NEW v, NEW hi, NEW lo, v = 1 \/ hi # 3
  PROVE  /\ Bytes(<<SetRs(v)>> \o <<StrobeE(hi), StrobeE(lo)>>)
         /\ Len(<<SetRs(v)>> \o <<StrobeE(hi), StrobeE(lo)>>) = 3
<1> DEFINE a == <<SetRs(v)>>
           b == <<StrobeE(hi), StrobeE(lo)>>
           s == a \o b
<1>1. /\ Len(a) = 1 /\ a[1] = SetRs(v) /\ a \in Seq({SetRs(v)})
      /\ Len(b) = 2 /\ b[1] = StrobeE(hi) /\ b[2] = StrobeE(lo)
      /\ b \in Seq({StrobeE(hi), StrobeE(lo)})
  OBVIOUS
<1> HIDE DEF a, b
<1>2. /\ \E S : s \in Seq(S)
      /\ Len(s) = 3 /\ s[1] = SetRs(v) /\ s[2] = StrobeE(hi) /\ s[3] = StrobeE(lo)
  <2>1. (\E S : a \in Seq(S)) /\ (\E S : b \in Seq(S))
    BY <1>1
  <2>2. /\ \E S : s \in Seq(S)
        /\ Len(s) = Len(a) + Len(b)
        /\ \A n \in 1..Len(a) : s[n] = a[n]
        /\ \A n \in 1..Len(b) : s[Len(a) + n] = b[n]
    BY <2>1, Joined
  <2> HIDE DEF s
  <2>3. s[1] = a[1] /\ s[1 + 1] = b[1] /\ s[1 + 2] = b[2]
    BY <1>1, <2>2
  <2> QED BY <1>1, <2>2, <2>3
<1> HIDE DEF s
<1>3. Bytes(s)
  <2>1. ASSUME NEW n \in 1..3 PROVE s[n].op = IF (3 - n) % 3 = 2 THEN "rs" ELSE "strobe"
    BY <1>2 DEF SetRs, StrobeE
  <2>2. ASSUME NEW n \in 1..2, s[n].op = "rs", s[n].value # 1 PROVE s[n + 1].value # 3
    <3>1. n = 1
      BY <1>2, <2>2 DEF SetRs, StrobeE
    <3> QED BY <1>2, <2>2, <3>1 DEF SetRs, StrobeE
  <2> QED BY <1>2, <2>1, <2>2 DEF Bytes, Paced
<1> QED BY <1>2, <1>3 DEF s, a, b

(* lcd_write_command sends a byte, and no command for eight bits unless     *)
(* told to.                                                                 *)
LEMMA CommandBytes ==
  ASSUME NEW byte, byte \div 16 # 3
  PROVE  Bytes(lcd_write_command(byte)) /\ Len(lcd_write_command(byte)) = 3
BY OneByte DEF lcd_write_command, lcd_write

(* lcd_write_data sends a byte, whatever the character.                     *)
LEMMA DataBytes ==
  ASSUME NEW byte
  PROVE  Bytes(lcd_write_data(byte)) /\ Len(lcd_write_data(byte)) = 3
BY OneByte DEF lcd_write_data, lcd_write

(* lcd_clear sends a byte.                                                  *)
LEMMA ClearBytes == Bytes(lcd_clear) /\ Len(lcd_clear) = 3
<1>1. 1 \div 16 = 0
  OBVIOUS
<1> QED BY <1>1, CommandBytes DEF lcd_clear

(* Nothing to send is no byte.                                              *)
LEMMA EmptyBytes == Bytes(<<>>)
<1>1. <<>> \in Seq({}) /\ Len(<<>>) = 0
  OBVIOUS
<1> QED BY <1>1 DEF Bytes, Paced

(* lcd_move_to sends a byte, or nothing when the place is not on the        *)
(* display; an address never looks like a command for eight bits.           *)
LEMMA MoveBytes ==
  ASSUME NEW x \in Nat, NEW y \in Nat
  PROVE  Bytes(lcd_move_to(x, y))
<1>1. CASE x > 15 \/ y > 1
  BY <1>1, EmptyBytes DEF lcd_move_to
<1>2. CASE ~(x > 15 \/ y > 1)
  <2>1. (128 + Address(x, y)) \div 16 # 3
    BY <1>2 DEF Address
  <2> QED BY <1>2, <2>1, CommandBytes DEF lcd_move_to
<1> QED BY <1>1, <1>2

(* lcd_print_string sends as many bytes as there are characters.            *)
LEMMA StringBytes ==
  ASSUME NEW str, Len(str) \in Nat
  PROVE  Bytes(lcd_print_string(str)) /\ Len(lcd_print_string(str)) = 3 * Len(str)
<1> DEFINE p == lcd_print_string(str)
           Char(n) == lcd_write_data(str[(n + 2) \div 3])
<1>1. /\ p = [n \in 1 .. 3 * Len(str) |-> Char(n)[1 + ((n + 2) % 3)]]
      /\ \A n \in 1 .. 3 * Len(str) : p[n] = Char(n)[1 + ((n + 2) % 3)]
  BY DEF lcd_print_string
<1>2. \A n : Bytes(Char(n)) /\ Len(Char(n)) = 3
  BY DataBytes
<1> HIDE DEF p, Char
<1>3. p \in Seq({p[n] : n \in 1 .. 3 * Len(str)}) /\ Len(p) = 3 * Len(str) /\ Len(p) \in Nat
  BY <1>1
<1>4. ASSUME NEW n
      PROVE  /\ Char(n)[1].op = "rs" /\ Char(n)[2].op = "strobe" /\ Char(n)[3].op = "strobe"
             /\ Char(n)[1].value # 1 => Char(n)[2].value # 3
  <2>1. \A m \in 1..3 : Char(n)[m].op = IF (3 - m) % 3 = 2 THEN "rs" ELSE "strobe"
    BY <1>2 DEF Bytes, Paced
  <2>2. \A m \in 1..2 : Char(n)[m].op = "rs" /\ Char(n)[m].value # 1 => Char(n)[m + 1].value # 3
    BY <1>2 DEF Bytes, Paced
  <2> QED BY <2>1, <2>2
<1>5. ASSUME NEW n \in 1..Len(p)
      PROVE  /\ (n + 2) % 3 = 0 => p[n] = Char(n)[1] /\ (Len(p) - n) % 3 = 2
             /\ (n + 2) % 3 = 1 => p[n] = Char(n)[2] /\ (Len(p) - n) % 3 = 1
             /\ (n + 2) % 3 = 2 => p[n] = Char(n)[3] /\ (Len(p) - n) % 3 = 0
             /\ (n + 2) % 3 \in {0, 1, 2}
  <2>1. n \in 1 .. 3 * Len(str) /\ n \in Nat
    BY <1>3
  <2>2. p[n] = Char(n)[1 + ((n + 2) % 3)]
    BY <1>1, <2>1
  <2>3. /\ (n + 2) % 3 = 0 => (Len(p) - n) % 3 = 2
        /\ (n + 2) % 3 = 1 => (Len(p) - n) % 3 = 1
        /\ (n + 2) % 3 = 2 => (Len(p) - n) % 3 = 0
        /\ (n + 2) % 3 \in {0, 1, 2}
    BY <1>3, <2>1
  <2> QED BY <2>2, <2>3
<1>6. ASSUME NEW n \in 1..Len(p)
      PROVE  p[n].op = IF (Len(p) - n) % 3 = 2 THEN "rs" ELSE "strobe"
  BY <1>4, <1>5
<1>8. ASSUME NEW n \in 1..(Len(p) - 1), p[n].op = "rs", p[n].value # 1
      PROVE  p[n + 1].value # 3
  <2>1. n \in 1..Len(p) /\ n + 1 \in 1..Len(p) /\ n \in Nat
    BY <1>3
  <2>2. p[n] = Char(n)[1] /\ (n + 2) % 3 = 0
    BY <1>4, <1>5, <1>8, <2>1
  <2>3. (n + 1 + 2) % 3 = 1 /\ (n + 1 + 2) \div 3 = (n + 2) \div 3
    BY <2>1, <2>2
  <2>4. Char(n + 1) = Char(n)
    BY <2>3 DEF Char
  <2>5. p[n + 1] = Char(n)[2]
    BY <1>5, <2>1, <2>3, <2>4
  <2> QED BY <1>4, <1>8, <2>2, <2>5
<1>7. Bytes(p)
  <2>1. Len(p) % 3 = 0
    BY <1>3
  <2> QED BY <1>3, <1>6, <1>8, <2>1 DEF Bytes, Paced
<1> QED BY <1>3, <1>7 DEF p

(* And so does lcd_print_string_at.                                         *)
LEMMA StringAtBytes ==
  ASSUME NEW str, Len(str) \in Nat, NEW x \in Nat, NEW y \in Nat
  PROVE  Bytes(lcd_print_string_at(str, x, y))
BY MoveBytes, StringBytes, BytesJoined DEF lcd_print_string_at

(* The steps left at the start: four nibbles for the interface, then bytes. *)
BootPaced(s) ==
  /\ (\E S : s \in Seq(S)) /\ Len(s) <= 29
  /\ \A n \in 1..Len(s) :
       /\ Len(s) - n <= 20 => s[n].op = IF (Len(s) - n) % 3 = 2 THEN "rs" ELSE "strobe"
       /\ Len(s) - n = 21 => s[n] = StrobeE(2)
       /\ Len(s) - n \in {23, 25, 27} => s[n] = StrobeE(3)
       /\ Len(s) - n \in {22, 24, 26, 28} => s[n] = SetRs(0)
  /\ \A n \in 1..(Len(s) - 1) :
       Len(s) - n <= 20 /\ s[n].op = "rs" /\ s[n].value # 1 => s[n + 1].value # 3

(* What is left after the first of the steps at the start.                  *)
LEMMA BootStep ==
  ASSUME NEW s, BootPaced(s), s # <<>>
  PROVE  /\ Len(s) \in Nat \ {0} /\ Head(s) = s[1] /\ Len(Tail(s)) = Len(s) - 1
         /\ BootPaced(Tail(s))
         /\ Len(s) = 22 => s[1] = StrobeE(2)
         /\ Len(s) \in {24, 26, 28} => s[1] = StrobeE(3)
         /\ Len(s) \in {23, 25, 27, 29} => s[1] = SetRs(0)
<1>1. PICK S : s \in Seq(S)
  BY DEF BootPaced
<1>2. /\ Len(s) \in Nat \ {0} /\ Head(s) = s[1]
      /\ Tail(s) \in Seq(S) /\ Len(Tail(s)) = Len(s) - 1
      /\ \A n \in 1..Len(Tail(s)) : Tail(s)[n] = s[n + 1]
  BY <1>1
<1> DEFINE t == Tail(s)
<1>3. ASSUME NEW n \in 1..Len(t)
      PROVE  n + 1 \in 1..Len(s) /\ Len(s) - (n + 1) = Len(t) - n /\ t[n] = s[n + 1]
  BY <1>2
<1>4. BootPaced(t)
  <2> HIDE DEF t
  <2>1. ASSUME NEW n \in 1..Len(t)
        PROVE  /\ Len(t) - n <= 20 => t[n].op = IF (Len(t) - n) % 3 = 2 THEN "rs" ELSE "strobe"
               /\ Len(t) - n = 21 => t[n] = StrobeE(2)
               /\ Len(t) - n \in {23, 25, 27} => t[n] = StrobeE(3)
               /\ Len(t) - n \in {22, 24, 26, 28} => t[n] = SetRs(0)
    <3>1. PICK m \in 1..Len(s) : Len(s) - m = Len(t) - n /\ t[n] = s[m]
      BY <1>3
    <3>2. /\ Len(s) - m <= 20 => s[m].op = IF (Len(s) - m) % 3 = 2 THEN "rs" ELSE "strobe"
          /\ Len(s) - m = 21 => s[m] = StrobeE(2)
          /\ Len(s) - m \in {23, 25, 27} => s[m] = StrobeE(3)
          /\ Len(s) - m \in {22, 24, 26, 28} => s[m] = SetRs(0)
      BY DEF BootPaced
    <3> QED BY <3>1, <3>2
  <2>2. ASSUME NEW n \in 1..(Len(t) - 1), Len(t) - n <= 20, t[n].op = "rs", t[n].value # 1
        PROVE  t[n + 1].value # 3
    <3>1. n + 1 \in 1..(Len(s) - 1) /\ n \in 1..Len(t) /\ n + 1 \in 1..Len(t)
      BY <1>2 DEF t
    <3>2. t[n] = s[n + 1] /\ t[n + 1] = s[n + 1 + 1] /\ Len(s) - (n + 1) <= 20
      BY <1>3, <2>2, <3>1
    <3> QED BY <2>2, <3>1, <3>2 DEF BootPaced
  <2>3. (\E T : t \in Seq(T)) /\ Len(t) <= 29
    <3>1. Len(s) <= 29
      BY DEF BootPaced
    <3> QED BY <1>2, <3>1 DEF t
  <2> QED BY <2>1, <2>2, <2>3 DEF BootPaced
<1>5. /\ Len(s) = 22 => s[1] = StrobeE(2)
      /\ Len(s) \in {24, 26, 28} => s[1] = StrobeE(3)
      /\ Len(s) \in {23, 25, 27, 29} => s[1] = SetRs(0)
  <2>1. 1 \in 1..Len(s)
    BY <1>2
  <2>2. /\ Len(s) - 1 = 21 => s[1] = StrobeE(2)
        /\ Len(s) - 1 \in {23, 25, 27} => s[1] = StrobeE(3)
        /\ Len(s) - 1 \in {22, 24, 26, 28} => s[1] = SetRs(0)
    BY <2>1 DEF BootPaced
  <2>3. /\ Len(s) = 22 => Len(s) - 1 = 21
        /\ Len(s) \in {24, 26, 28} => Len(s) - 1 \in {23, 25, 27}
        /\ Len(s) \in {23, 25, 27, 29} => Len(s) - 1 \in {22, 24, 26, 28}
    <3>1. Len(s) \in Nat
      BY <1>2
    <3> QED BY <3>1
  <2> QED BY <2>2, <2>3
<1> QED BY <1>2, <1>4, <1>5

(* After the interface there are only bytes.                                *)
LEMMA BootBytes ==
  ASSUME NEW s, BootPaced(s), Len(s) <= 21
  PROVE  Paced(s)
<1>1. PICK S : s \in Seq(S)
  BY DEF BootPaced
<1>2. \A n \in 1..Len(s) : Len(s) - n <= 20
  BY <1>1
<1> QED BY <1>1, <1>2 DEF BootPaced, Paced

(* lcd_write_command_init adds two steps.                                   *)
LEMMA OneNibble ==
  ASSUME NEW s, \E S : s \in Seq(S), NEW v
  PROVE  /\ \E S : s \o lcd_write_command_init(v) \in Seq(S)
         /\ Len(s \o lcd_write_command_init(v)) = Len(s) + 2 /\ Len(s) \in Nat
         /\ \A n \in 1..Len(s) : (s \o lcd_write_command_init(v))[n] = s[n]
         /\ (s \o lcd_write_command_init(v))[Len(s) + 1] = SetRs(0)
         /\ (s \o lcd_write_command_init(v))[Len(s) + 2] = StrobeE(v)
<1> DEFINE c == lcd_write_command_init(v)
<1>1. c \in Seq({SetRs(0), StrobeE(v)}) /\ Len(c) = 2 /\ c[1] = SetRs(0) /\ c[2] = StrobeE(v)
  BY DEF lcd_write_command_init
<1> HIDE DEF c
<1>2. \E S : c \in Seq(S)
  BY <1>1
<1>3. /\ \E S : s \o c \in Seq(S)
      /\ Len(s \o c) = Len(s) + Len(c) /\ Len(s) \in Nat
      /\ \A n \in 1..Len(s) : (s \o c)[n] = s[n]
      /\ \A n \in 1..Len(c) : (s \o c)[Len(s) + n] = c[n]
  BY <1>2, Joined
<1>4. 1 \in 1..Len(c) /\ 2 \in 1..Len(c)
  BY <1>1
<1> QED BY <1>1, <1>3, <1>4 DEF c

(* The interface, then bytes.                                               *)
Front(s) ==
  /\ \E S : s \in Seq(S)
  /\ Len(s) >= 8 /\ Len(s) % 3 = 2
  /\ \A n \in {1, 3, 5, 7} : s[n] = SetRs(0)
  /\ \A n \in {2, 4, 6} : s[n] = StrobeE(3)
  /\ s[8] = StrobeE(2)
  /\ \A n \in 9..Len(s) : s[n].op = IF (Len(s) - n) % 3 = 2 THEN "rs" ELSE "strobe"
  /\ \A n \in 9..(Len(s) - 1) :
       s[n].op = "rs" /\ s[n].value # 1 => s[n + 1].value # 3

(* The eight steps of InitInterface: 3, 3, 3 and 2, as commands.            *)
LEMMA Interface == Front(InitInterface) /\ Len(InitInterface) = 8
<1> DEFINE a == lcd_write_command_init(3)
           b == a \o lcd_write_command_init(3)
           c == b \o lcd_write_command_init(3)
           d == c \o lcd_write_command_init(2)
<1>1. (\E S : a \in Seq(S)) /\ Len(a) = 2 /\ a[1] = SetRs(0) /\ a[2] = StrobeE(3)
  <2>1. a \in Seq({SetRs(0), StrobeE(3)})
    BY DEF lcd_write_command_init
  <2> QED BY <2>1 DEF lcd_write_command_init
<1> HIDE DEF a
<1>2. /\ \E S : b \in Seq(S)
      /\ Len(b) = 4 /\ (\A n \in 1..2 : b[n] = a[n]) /\ b[3] = SetRs(0) /\ b[4] = StrobeE(3)
  <2>1. /\ \E S : b \in Seq(S)
        /\ Len(b) = Len(a) + 2 /\ (\A n \in 1..Len(a) : b[n] = a[n])
        /\ b[Len(a) + 1] = SetRs(0) /\ b[Len(a) + 2] = StrobeE(3)
    BY <1>1, OneNibble
  <2> HIDE DEF b
  <2> QED BY <1>1, <2>1
<1> HIDE DEF b
<1>3. /\ \E S : c \in Seq(S)
      /\ Len(c) = 6 /\ (\A n \in 1..4 : c[n] = b[n]) /\ c[5] = SetRs(0) /\ c[6] = StrobeE(3)
  <2>1. /\ \E S : c \in Seq(S)
        /\ Len(c) = Len(b) + 2 /\ (\A n \in 1..Len(b) : c[n] = b[n])
        /\ c[Len(b) + 1] = SetRs(0) /\ c[Len(b) + 2] = StrobeE(3)
    BY <1>2, OneNibble
  <2> HIDE DEF c
  <2> QED BY <1>2, <2>1
<1> HIDE DEF c
<1>4. /\ \E S : d \in Seq(S)
      /\ Len(d) = 8 /\ (\A n \in 1..6 : d[n] = c[n]) /\ d[7] = SetRs(0) /\ d[8] = StrobeE(2)
  <2>1. /\ \E S : d \in Seq(S)
        /\ Len(d) = Len(c) + 2 /\ (\A n \in 1..Len(c) : d[n] = c[n])
        /\ d[Len(c) + 1] = SetRs(0) /\ d[Len(c) + 2] = StrobeE(2)
    <3>1. \E S : c \in Seq(S)
      BY <1>3
    <3> QED BY <3>1, OneNibble, Zenon
  <2> HIDE DEF d
  <2> QED BY <1>3, <2>1
<1>5. InitInterface = d
  BY DEF InitInterface, a, b, c
<1> HIDE DEF d
<1>6. /\ d[1] = a[1] /\ d[2] = a[2] /\ d[3] = b[3] /\ d[4] = b[4] /\ d[5] = c[5] /\ d[6] = c[6]
  BY <1>2, <1>3, <1>4
<1>7. /\ \A n \in {1, 3, 5, 7} : d[n] = SetRs(0)
      /\ \A n \in {2, 4, 6} : d[n] = StrobeE(3)
  BY <1>1, <1>2, <1>3, <1>4, <1>6
<1>8. Front(d)
  BY <1>4, <1>7 DEF Front
<1> QED BY <1>4, <1>5, <1>8

(* Bytes may follow.                                                        *)
LEMMA FrontJoined ==
  ASSUME NEW s, NEW t, Front(s), Bytes(t)
  PROVE  Front(s \o t) /\ Len(s \o t) = Len(s) + Len(t)
<1>1. /\ \E S : s \o t \in Seq(S)
      /\ Len(s \o t) = Len(s) + Len(t) /\ Len(s) \in Nat /\ Len(t) \in Nat
      /\ \A n \in 1..Len(s) : (s \o t)[n] = s[n]
      /\ \A n \in 1..Len(t) : (s \o t)[Len(s) + n] = t[n]
  BY Joined DEF Bytes, Paced, Front
<1>2. Len(s \o t) % 3 = 2 /\ Len(s \o t) >= 8 /\ Len(s) >= 8
  <2>1. Len(t) % 3 = 0 /\ Len(s) % 3 = 2 /\ Len(s) >= 8
    BY DEF Bytes, Front
  <2>2. (Len(s) + Len(t)) % 3 = Len(s) % 3
    BY <1>1, <2>1, Mod3
  <2>3. Len(s) \in Nat /\ Len(t) \in Nat /\ Len(s \o t) = Len(s) + Len(t)
    BY <1>1
  <2> QED BY <2>1, <2>3
<1>3. /\ \A n \in {1, 3, 5, 7} : (s \o t)[n] = SetRs(0)
      /\ \A n \in {2, 4, 6} : (s \o t)[n] = StrobeE(3)
      /\ (s \o t)[8] = StrobeE(2)
  <2>1. \A n \in 1..8 : (s \o t)[n] = s[n]
    BY <1>1, <1>2
  <2>2. {1, 3, 5, 7} \subseteq 1..8 /\ {2, 4, 6} \subseteq 1..8 /\ 8 \in 1..8
    OBVIOUS
  <2>3. /\ \A n \in {1, 3, 5, 7} : s[n] = SetRs(0)
        /\ \A n \in {2, 4, 6} : s[n] = StrobeE(3)
        /\ s[8] = StrobeE(2)
    BY DEF Front
  <2> QED BY <2>1, <2>2, <2>3, Zenon
<1>4. ASSUME NEW n \in 9..Len(s \o t)
      PROVE  (s \o t)[n].op = IF (Len(s \o t) - n) % 3 = 2 THEN "rs" ELSE "strobe"
  <2>1. CASE n <= Len(s)
    <3>1. n \in 9..Len(s) /\ n \in 1..Len(s) /\ Len(s) - n \in Int
          /\ Len(s \o t) - n = (Len(s) - n) + Len(t)
      BY <1>1, <2>1
    <3>2. (Len(s \o t) - n) % 3 = (Len(s) - n) % 3
      <4>1. Len(t) \in Int /\ Len(t) % 3 = 0
        BY <1>1 DEF Bytes
      <4>2. ((Len(s) - n) + Len(t)) % 3 = (Len(s) - n) % 3
        BY <3>1, <4>1, Mod3
      <4> QED BY <3>1, <4>2
    <3> QED BY <1>1, <3>1, <3>2 DEF Front
  <2>2. CASE n > Len(s)
    <3>1. PICK m \in 1..Len(t) : n = Len(s) + m
      <4>1. n - Len(s) \in 1..Len(t) /\ n = Len(s) + (n - Len(s))
        BY <1>1, <2>2
      <4> QED BY <4>1
    <3>2. Len(s \o t) - n = Len(t) - m
      BY <1>1, <3>1
    <3>3. (s \o t)[n] = t[m]
      BY <1>1, <3>1
    <3> QED BY <3>2, <3>3 DEF Bytes, Paced
  <2> QED BY <1>1, <2>1, <2>2
<1>5. ASSUME NEW n \in 9..(Len(s \o t) - 1), (s \o t)[n].op = "rs", (s \o t)[n].value # 1
      PROVE  (s \o t)[n + 1].value # 3
  <2>1. CASE n < Len(s)
    <3>1. n \in 9..(Len(s) - 1) /\ n + 1 \in 1..Len(s) /\ n \in 1..Len(s)
      BY <1>1, <2>1
    <3> QED BY <1>1, <1>5, <3>1 DEF Front
  <2>2. CASE n = Len(s)
    <3>1. n \in 1..Len(s) /\ n \in 9..Len(s) /\ (Len(s) - n) % 3 # 2
      BY <1>1, <2>2
    <3> QED BY <1>1, <1>5, <3>1 DEF Front
  <2>3. CASE n > Len(s)
    <3>1. /\ n - Len(s) \in 1..(Len(t) - 1) /\ n - Len(s) + 1 \in 1..Len(t) /\ n - Len(s) \in 1..Len(t)
          /\ n = Len(s) + (n - Len(s)) /\ n + 1 = Len(s) + (n - Len(s) + 1)
      BY <1>1, <2>3
    <3>2. (s \o t)[n] = t[n - Len(s)] /\ (s \o t)[n + 1] = t[n - Len(s) + 1]
      BY <1>1, <3>1
    <3> QED BY <1>5, <3>1, <3>2 DEF Bytes, Paced
  <2> QED BY <1>1, <2>1, <2>2, <2>3
<1> QED BY <1>1, <1>2, <1>3, <1>4, <1>5 DEF Front

(* One of them, for instance.                                               *)
LEMMA FrontByte ==
  ASSUME NEW s, NEW t, Front(s), Bytes(t), Len(t) = 3
  PROVE  Front(s \o t) /\ Len(s \o t) = Len(s) + 3
BY FrontJoined

(* lcd_init: the interface and five commands.                               *)
LEMMA InitSteps == Front(lcd_init) /\ Len(lcd_init) = 23
<1> DEFINE p1 == InitInterface \o lcd_write_command(40)
           p2 == p1 \o lcd_write_command(8)
           p3 == p2 \o lcd_write_command(12)
           p4 == p3 \o lcd_clear
           p5 == p4 \o lcd_write_command(6)
<1>1. lcd_init = p5
  BY DEF lcd_init
<1>2. Front(p1) /\ Len(p1) = 11
  <2>1. 40 \div 16 = 2
    OBVIOUS
  <2>2. Bytes(lcd_write_command(40)) /\ Len(lcd_write_command(40)) = 3
    BY <2>1, CommandBytes
  <2>3. Front(p1) /\ Len(p1) = Len(InitInterface) + 3
    BY Interface, <2>2, FrontByte
  <2> HIDE DEF p1
  <2> QED BY Interface, <2>3
<1> HIDE DEF p1
<1>3. Front(p2) /\ Len(p2) = 14
  <2>1. 8 \div 16 = 0
    OBVIOUS
  <2>2. Bytes(lcd_write_command(8)) /\ Len(lcd_write_command(8)) = 3
    BY <2>1, CommandBytes
  <2>3. Front(p2) /\ Len(p2) = Len(p1) + 3
    BY <1>2, <2>2, FrontByte
  <2> HIDE DEF p2
  <2> QED BY <1>2, <2>3
<1> HIDE DEF p2
<1>4. Front(p3) /\ Len(p3) = 17
  <2>1. 12 \div 16 = 0
    OBVIOUS
  <2>2. Bytes(lcd_write_command(12)) /\ Len(lcd_write_command(12)) = 3
    BY <2>1, CommandBytes
  <2>3. Front(p3) /\ Len(p3) = Len(p2) + 3
    BY <1>3, <2>2, FrontByte
  <2> HIDE DEF p3
  <2> QED BY <1>3, <2>3
<1> HIDE DEF p3
<1>5. Front(p4) /\ Len(p4) = 20
  <2>2. Bytes(lcd_clear) /\ Len(lcd_clear) = 3
    BY ClearBytes
  <2>3. Front(p4) /\ Len(p4) = Len(p3) + 3
    BY <1>4, <2>2, FrontByte
  <2> HIDE DEF p4
  <2> QED BY <1>4, <2>3
<1> HIDE DEF p4
<1>6. Front(p5) /\ Len(p5) = 23
  <2>1. 6 \div 16 = 0
    OBVIOUS
  <2>2. Bytes(lcd_write_command(6)) /\ Len(lcd_write_command(6)) = 3
    BY <2>1, CommandBytes
  <2>3. Front(p5) /\ Len(p5) = Len(p4) + 3
    BY <1>5, <2>2, FrontByte
  <2> HIDE DEF p5
  <2> QED BY <1>5, <2>3
<1> QED BY <1>1, <1>6

(* What init_task writes at the start: lcd_init, lcd_clear and one character.*)
LEMMA BootStarts == BootPaced(Boot) /\ Len(Boot) = 29
<1> DEFINE p6 == lcd_init \o lcd_clear
           p7 == p6 \o lcd_print_string(<<73>>)
<1>1. Boot = p7
  BY DEF Boot
<1>2. Front(p6) /\ Len(p6) = 26
  <2>2. Bytes(lcd_clear) /\ Len(lcd_clear) = 3
    BY ClearBytes
  <2>3. Front(p6) /\ Len(p6) = Len(lcd_init) + 3
    BY InitSteps, <2>2, FrontByte
  <2> HIDE DEF p6
  <2> QED BY InitSteps, <2>3
<1> HIDE DEF p6
<1>3. Front(p7) /\ Len(p7) = 29
  <2> DEFINE str == <<73>>
  <2>1. Len(str) = 1
    OBVIOUS
  <2> HIDE DEF str
  <2>2. Bytes(lcd_print_string(str)) /\ Len(lcd_print_string(str)) = 3
    <3>1. Len(str) \in Nat /\ 3 * Len(str) = 3
      BY <2>1
    <3>2. Bytes(lcd_print_string(str)) /\ Len(lcd_print_string(str)) = 3 * Len(str)
      BY <3>1, StringBytes
    <3> QED BY <3>1, <3>2
  <2>3. Front(p6 \o lcd_print_string(str)) /\ Len(p6 \o lcd_print_string(str)) = Len(p6) + 3
    BY <1>2, <2>2, FrontJoined
  <2> QED BY <1>2, <2>3 DEF str
<1> HIDE DEF p7
<1>4. BootPaced(p7)
  <2>1. ASSUME NEW n \in 1..29
        PROVE  /\ 29 - n <= 20 => p7[n].op = IF (29 - n) % 3 = 2 THEN "rs" ELSE "strobe"
               /\ 29 - n = 21 => p7[n] = StrobeE(2)
               /\ 29 - n \in {23, 25, 27} => p7[n] = StrobeE(3)
               /\ 29 - n \in {22, 24, 26, 28} => p7[n] = SetRs(0)
    <3>1. 29 - n <= 20 => n \in 9..29
      OBVIOUS
    <3>2. /\ 29 - n = 21 => n = 8
          /\ 29 - n \in {23, 25, 27} => n \in {2, 4, 6}
          /\ 29 - n \in {22, 24, 26, 28} => n \in {1, 3, 5, 7}
      OBVIOUS
    <3> QED BY <1>3, <3>1, <3>2 DEF Front
  <2>2. ASSUME NEW n \in 1..28, 29 - n <= 20, p7[n].op = "rs", p7[n].value # 1
        PROVE  p7[n + 1].value # 3
    <3>1. n \in 9..28
      BY <2>2
    <3>2. \A m \in 9..(Len(p7) - 1) : p7[m].op = "rs" /\ p7[m].value # 1 => p7[m + 1].value # 3
      BY <1>3 DEF Front
    <3>3. \A m \in 9..28 : p7[m].op = "rs" /\ p7[m].value # 1 => p7[m + 1].value # 3
      BY <1>3, <3>2
    <3> QED BY <2>2, <3>1, <3>3
  <2> QED BY <1>3, <2>1, <2>2 DEF BootPaced, Front
<1> QED BY <1>1, <1>3, <1>4

(* A writer has no part of a byte left to do. *)
BetweenBytes(w) == Len(todo[w]) % 3 = 0

(* What a reset leaves the display in and what becomes of it while          *)
(* init_task has m steps left to do and the interface is not set up.        *)
Waiting == lcd.bits = 8 /\ lcd.half = <<>>
Anyhow == lcd.bits = 4 /\ (lcd.half = <<>> \/ lcd.half = <<lcd.half[1]>>)
Halved == lcd.bits = 4 /\ lcd.half = <<3>>
Fallen(m) ==
  /\ rs = 0
  /\ m \in 28..29 => Waiting \/ Anyhow
  /\ m \in 26..27 => Waiting \/ Halved \/ (lcd.bits = 4 /\ lcd.half = <<>>)
  /\ m \in 24..25 => Waiting \/ Halved
  /\ m \in 22..23 => Waiting

(* From then on: only one writer can be inside a byte, and the display has  *)
(* got as much of it as that writer has sent.                               *)
InStep ==
  /\ lcd.bits = 4
  /\ (\A w \in Writers : BetweenBytes(w)) => lcd.half = <<>>
  /\ \A w \in Writers : ~BetweenBytes(w) =>
       /\ \A v \in Writers \ {w} : BetweenBytes(v)
       /\ Len(todo[w]) % 3 = 2 => lcd.half = <<>> /\ (rs # 1 => todo[w][1].value # 3)
       /\ Len(todo[w]) % 3 = 1 => lcd.half = <<lcd.half[1]>> /\ (rs # 1 => lcd.half[1] # 3)

(* The display keeps its four fields, *)
LcdRecord(l) == l = [bits |-> l.bits, half |-> l.half, at |-> l.at, cell |-> l.cell]

(* the writers their steps, init_task alone until it has finished, *)
TodoInv ==
  /\ todo = [w \in Writers |-> todo[w]]
  /\ BootPaced(todo["main"])
  /\ Paced(todo["display"]) /\ Paced(todo["dhcp"]) /\ Paced(todo["ccs"])
  /\ cut \in BOOLEAN
  /\ Booting => ~cut /\ todo["display"] = <<>> /\ todo["dhcp"] = <<>> /\ todo["ccs"] = <<>>

(* and all of it together.  LineInv keeps the places on the display.        *)
PanelInv ==
  /\ TodoInv
  /\ LcdRecord(lcd)
  /\ ~cut => IF Len(todo["main"]) > 21 THEN Fallen(Len(todo["main"])) ELSE InStep

LineInv ==
  /\ line = [x |-> line.x, y |-> line.y, current_line |-> line.current_line]
  /\ line.x \in Nat /\ line.y \in Nat

(* Whatever a reset has left the display in, Init is where the invariant    *)
(* starts.                                                                  *)
LEMMA Started == Init => PanelInv /\ LineInv
<1> SUFFICES ASSUME Init PROVE PanelInv /\ LineInv
  OBVIOUS
<1> USE DEF Init, DisplayInit, TasksStart
<1>1. /\ todo["main"] = Boot /\ ~cut /\ cut \in BOOLEAN
      /\ todo["display"] = <<>> /\ todo["dhcp"] = <<>> /\ todo["ccs"] = <<>>
  OBVIOUS
<1>2. todo = [w \in Writers |-> todo[w]]
  BY <1>1 DEF Writers
<1>3. TodoInv
  BY <1>1, <1>2, BootStarts, EmptyBytes DEF TodoInv, Bytes
<1>4. LcdRecord(lcd) /\ Fallen(29)
  <2>1. rs = 0 /\ lcd \in Left
    OBVIOUS
  <2>2. /\ LcdRecord(lcd)
        /\ Waiting \/ Anyhow
    BY <2>1 DEF Left, LcdRecord, Waiting, Anyhow
  <2> QED BY <2>1, <2>2 DEF Fallen
<1>5. LineInv
  BY DEF LineInv
<1>6. Len(todo["main"]) = 29
  BY <1>1, BootStarts
<1> HIDE DEF Init, DisplayInit, TasksStart
<1>7. Len(todo["main"]) > 21 /\ Fallen(Len(todo["main"]))
  <2>1. 29 > 21
    OBVIOUS
  <2> QED BY <1>4, <1>6, <2>1, Zenon
<1> QED BY <1>3, <1>4, <1>5, <1>7 DEF PanelInv

(* A byte changes the width only when it is a command of 2 or 3, and        *)
(* leaves no half behind.                                                   *)
LEMMA ExecuteKeeps ==
  ASSUME NEW l, LcdRecord(l), NEW r, NEW hi, NEW lo
  PROVE  /\ LcdRecord(Execute(l, r, hi, lo)) /\ Execute(l, r, hi, lo).half = l.half
         /\ l.bits = 4 /\ (r = 1 \/ hi # 3) => Execute(l, r, hi, lo).bits = 4
         /\ r # 1 /\ hi = 3 => Execute(l, r, hi, lo).bits = 8
         /\ r # 1 /\ hi = 2 => Execute(l, r, hi, lo).bits = 4
<1>1. /\ LcdRecord(Write(l, hi, lo)) /\ Write(l, hi, lo).half = l.half /\ Write(l, hi, lo).bits = l.bits
  <2> DEFINE a == NoAddress(l.at + 1)
             c == IF l.at \in Addresses THEN [l.cell EXCEPT ![l.at] = 16 * hi + lo] ELSE l.cell
  <2>1. Write(l, hi, lo) = [l EXCEPT !.at = a, !.cell = c]
    BY DEF Write
  <2> HIDE DEF a, c
  <2> QED BY <2>1 DEF LcdRecord
<1>2. /\ LcdRecord(Obey(l, hi, lo)) /\ Obey(l, hi, lo).half = l.half
      /\ l.bits = 4 /\ hi # 3 => Obey(l, hi, lo).bits = 4
  BY DEF Obey, LcdRecord
<1>3. hi = 3 => Obey(l, hi, lo).bits = 8
  BY DEF Obey, LcdRecord
<1>4. hi = 2 => Obey(l, hi, lo).bits = 4
  BY DEF Obey, LcdRecord
<1> QED BY <1>1, <1>2, <1>3, <1>4 DEF Execute

(* The first strobe waits for the second;                                   *)
LEMMA StrobeFirst ==
  ASSUME NEW l, LcdRecord(l), NEW r, NEW v, l.bits = 4, l.half = <<>>
  PROVE  LcdRecord(Strobe(l, r, v)) /\ Strobe(l, r, v).bits = 4 /\ Strobe(l, r, v).half = <<v>>
<1>1. Strobe(l, r, v) = [l EXCEPT !.half = <<v>>]
  BY DEF Strobe
<1> QED BY <1>1 DEF LcdRecord

(* with the second the display obeys, and only a command of 3 widens it.    *)
LEMMA StrobeSecond ==
  ASSUME NEW l, LcdRecord(l), NEW r, NEW v, NEW h, l.bits = 4, l.half = <<h>>
  PROVE  /\ LcdRecord(Strobe(l, r, v)) /\ Strobe(l, r, v).half = <<>>
         /\ r = 1 \/ h # 3 => Strobe(l, r, v).bits = 4
         /\ r # 1 /\ h = 3 => Strobe(l, r, v).bits = 8
<1> DEFINE m == [l EXCEPT !.half = <<>>]
<1>1. LcdRecord(m) /\ m.half = <<>> /\ m.bits = 4
  BY DEF LcdRecord
<1>2. Strobe(l, r, v) = Execute(m, r, h, v)
  BY DEF Strobe
<1> HIDE DEF m
<1> QED BY <1>1, <1>2, ExecuteKeeps

(* Eight bits wide, it obeys every strobe.                                  *)
LEMMA StrobeWide ==
  ASSUME NEW l, LcdRecord(l), NEW v, l.bits = 8
  PROVE  /\ LcdRecord(Strobe(l, 0, v)) /\ Strobe(l, 0, v).half = l.half
         /\ v = 3 => Strobe(l, 0, v).bits = 8
         /\ v = 2 => Strobe(l, 0, v).bits = 4
<1>1. Strobe(l, 0, v) = Execute(l, 0, v, 15)
  BY DEF Strobe
<1> QED BY <1>1, ExecuteKeeps

(* A step of one writer is no step of another.                              *)
LEMMA Others ==
  ASSUME TodoInv, NEW w \in Writers, NEW s, todo' = [todo EXCEPT ![w] = s]
  PROVE  /\ todo' = [v \in Writers |-> todo'[v]]
         /\ todo'[w] = s
         /\ \A v \in Writers \ {w} : todo'[v] = todo[v]
BY DEF TodoInv

(* Once the interface is set up, the next step of a writer is RS exactly    *)
(* when the writer is between two bytes.                                    *)
LEMMA NextStep ==
  ASSUME TodoInv, NEW w \in Writers, todo[w] # <<>>, w = "main" => Len(todo[w]) <= 21
  PROVE  /\ Len(todo[w]) \in Nat \ {0} /\ Head(todo[w]) = todo[w][1]
         /\ Paced(Tail(todo[w])) /\ Len(Tail(todo[w])) = Len(todo[w]) - 1
         /\ todo[w][1].op = IF BetweenBytes(w) THEN "rs" ELSE "strobe"
         /\ BetweenBytes(w) /\ todo[w][1].value # 1 => Tail(todo[w])[1].value # 3
<1>1. Paced(todo[w])
  BY BootBytes DEF TodoInv, Writers
<1> QED BY <1>1, DropOne DEF BetweenBytes

(* A writer that is not inside a byte is between two.                       *)
LEMMA NotInByte ==
  ASSUME TodoInv, NEW w \in Writers, ~InByte(w), w = "main" => Len(todo[w]) <= 21
  PROVE  BetweenBytes(w)
<1>1. CASE todo[w] = <<>>
  BY <1>1, EmptyBytes DEF BetweenBytes, Bytes
<1>2. CASE todo[w] # <<>>
  BY <1>2, NextStep DEF InByte
<1> QED BY <1>1, <1>2

(* A step on the pins leaves what is to do paced, and init_task alone       *)
(* until it has finished.                                                   *)
LEMMA TodoStep ==
  ASSUME TodoInv, NEW w \in Writers, Pins(w)
  PROVE  TodoInv'
<1>1. todo[w] # <<>> /\ todo' = [todo EXCEPT ![w] = Tail(todo[w])]
  BY DEF Pins, TodoInv
<1>2. /\ todo' = [v \in Writers |-> todo'[v]]
      /\ todo'[w] = Tail(todo[w])
      /\ \A v \in Writers \ {w} : todo'[v] = todo[v]
  BY <1>1, Others
<1>3. w # "main" => ~Booting
  BY DEF Pins
<1>4. /\ BootPaced(todo'["main"])
      /\ Paced(todo'["display"]) /\ Paced(todo'["dhcp"]) /\ Paced(todo'["ccs"])
  <2>1. CASE w = "main"
    BY <1>1, <1>2, <2>1, BootStep DEF TodoInv, Writers
  <2>2. CASE w = "display"
    BY <1>1, <1>2, <2>2, DropOne DEF TodoInv, Writers
  <2>3. CASE w \in {"dhcp", "ccs"}
    BY <1>1, <1>2, <2>3, DropOne DEF TodoInv, Writers
  <2> QED BY <2>1, <2>2, <2>3 DEF Writers
<1>5. cut' \in BOOLEAN
  BY DEF Pins, TodoInv
<1>6. Booting' => w = "main" /\ Booting
  BY <1>1, <1>2, <1>3 DEF Booting, Writers
<1>7. ASSUME Booting'
      PROVE  ~cut' /\ todo'["display"] = <<>> /\ todo'["dhcp"] = <<>> /\ todo'["ccs"] = <<>>
  <2>1. /\ w = "main" /\ ~cut
        /\ todo["display"] = <<>> /\ todo["dhcp"] = <<>> /\ todo["ccs"] = <<>>
    BY <1>6, <1>7 DEF TodoInv
  <2>2. \A v \in Writers \ {w} : ~InByte(v)
    BY <2>1 DEF InByte, Writers
  <2>3. ~cut'
    BY <2>1, <2>2 DEF Pins
  <2> QED BY <1>2, <2>1, <2>3 DEF Writers
<1> QED BY <1>2, <1>4, <1>5, <1>7 DEF TodoInv

(* A step that cuts nobody: the others are not inside a byte.               *)
LEMMA PinsActs ==
  ASSUME NEW w \in Writers, Pins(w), ~cut', TodoInv
  PROVE  /\ todo[w] # <<>> /\ todo'[w] = Tail(todo[w])
         /\ \A v \in Writers \ {w} : todo'[v] = todo[v] /\ ~InByte(v)
         /\ ~cut
         /\ Head(todo[w]).op = "rs" => rs' = Head(todo[w]).value /\ lcd' = lcd
         /\ Head(todo[w]).op = "strobe" => lcd' = Strobe(lcd, rs, Head(todo[w]).value) /\ rs' = rs
<1>1. cut' = (cut \/ \E v \in Writers \ {w} : InByte(v))
  BY DEF Pins
<1>2. ~cut /\ \A v \in Writers \ {w} : ~InByte(v)
  BY <1>1
<1>3. todo[w] # <<>> /\ todo' = [todo EXCEPT ![w] = Tail(todo[w])]
  BY DEF Pins, TodoInv
<1>4. todo'[w] = Tail(todo[w]) /\ \A v \in Writers \ {w} : todo'[v] = todo[v]
  BY <1>3, Others
<1>5. /\ Head(todo[w]).op = "rs" => rs' = Head(todo[w]).value /\ lcd' = lcd
      /\ Head(todo[w]).op = "strobe" => lcd' = Strobe(lcd, rs, Head(todo[w]).value) /\ rs' = rs
  BY DEF Pins
<1> QED BY <1>2, <1>3, <1>4, <1>5

(* The steps of InitInterface, case by case: the first 3 may complete a     *)
(* half that a reset had left, the second may be the first half of a byte   *)
(* then, and the third ends eight bits wide for certain; 2 makes it four.   *)
LEMMA BootInterface ==
  ASSUME PanelInv, Pins("main"), ~cut', Len(todo["main"]) > 21
  PROVE  /\ LcdRecord(lcd')
         /\ IF Len(todo'["main"]) > 21 THEN Fallen(Len(todo["main"]))' ELSE InStep'
<1> DEFINE m == Len(todo["main"])
<1>1. "main" \in Writers /\ TodoInv /\ BootPaced(todo["main"])
  BY DEF PanelInv, TodoInv, Writers
<1>2. /\ todo["main"] # <<>> /\ todo'["main"] = Tail(todo["main"]) /\ ~cut
      /\ Head(todo["main"]).op = "rs" => rs' = Head(todo["main"]).value /\ lcd' = lcd
      /\ Head(todo["main"]).op = "strobe" =>
           lcd' = Strobe(lcd, rs, Head(todo["main"]).value) /\ rs' = rs
  BY <1>1, PinsActs
<1>3. /\ m \in Nat \ {0} /\ Head(todo["main"]) = todo["main"][1] /\ Len(Tail(todo["main"])) = m - 1
      /\ m = 22 => todo["main"][1] = StrobeE(2)
      /\ m \in {24, 26, 28} => todo["main"][1] = StrobeE(3)
      /\ m \in {23, 25, 27, 29} => todo["main"][1] = SetRs(0)
  BY <1>1, <1>2, BootStep
<1>4. m <= 29 /\ m > 21 /\ LcdRecord(lcd) /\ Fallen(m)
  BY <1>1, <1>2 DEF PanelInv, BootPaced
<1>5. Len(todo'["main"]) = m - 1
  BY <1>2, <1>3
<1>6. m \in {23, 25, 27, 29} => rs' = 0 /\ lcd' = lcd
  BY <1>2, <1>3 DEF SetRs
<1>7. m \in {24, 26, 28} => lcd' = Strobe(lcd, rs, 3) /\ rs' = rs
  BY <1>2, <1>3 DEF StrobeE
<1>8. m = 22 => lcd' = Strobe(lcd, rs, 2) /\ rs' = rs
  BY <1>2, <1>3 DEF StrobeE
<1>9. rs = 0
  BY <1>4 DEF Fallen
<1> HIDE DEF m
<1> DEFINE k == Len(todo'["main"])
<1>10. CASE m \in {23, 25, 27, 29}
  <2>1. rs' = 0 /\ lcd' = lcd /\ k = m - 1 /\ k > 21
    BY <1>3, <1>4, <1>5, <1>6, <1>10
  <2>2. Waiting' = Waiting /\ Halved' = Halved /\ Anyhow' = Anyhow
    BY <2>1 DEF Waiting, Halved, Anyhow
  <2>3. CASE m = 29
    BY <1>4, <2>1, <2>2, <2>3 DEF Fallen
  <2>4. CASE m = 27
    BY <1>4, <2>1, <2>2, <2>4 DEF Fallen
  <2>5. CASE m = 25
    BY <1>4, <2>1, <2>2, <2>5 DEF Fallen
  <2>6. CASE m = 23
    BY <1>4, <2>1, <2>2, <2>6 DEF Fallen
  <2> QED BY <1>10, <2>3, <2>4, <2>5, <2>6
<1>11. CASE m = 28
  <2>1. lcd' = Strobe(lcd, 0, 3) /\ rs' = 0 /\ k = 27
    BY <1>5, <1>7, <1>9, <1>11
  <2>2. Waiting \/ Anyhow
    <3>1. m \in 28..29
      BY <1>11
    <3> QED BY <1>4, <3>1 DEF Fallen
  <2>3. LcdRecord(lcd') /\ (Waiting' \/ Halved' \/ (lcd'.bits = 4 /\ lcd'.half = <<>>))
    <3>1. CASE Waiting
      BY <1>4, <2>1, <3>1, StrobeWide DEF Waiting
    <3>2. CASE lcd.bits = 4 /\ lcd.half = <<>>
      BY <1>4, <2>1, <3>2, StrobeFirst DEF Halved
    <3>3. CASE lcd.bits = 4 /\ lcd.half = <<lcd.half[1]>>
      <4> DEFINE h == lcd.half[1]
      <4> HIDE DEF h
      <4>1. lcd.half = <<h>>
        BY <3>3 DEF h
      <4>2. /\ LcdRecord(lcd') /\ lcd'.half = <<>>
            /\ h # 3 => lcd'.bits = 4
            /\ h = 3 => lcd'.bits = 8
        BY <1>4, <2>1, <3>3, <4>1, StrobeSecond
      <4> QED BY <4>2 DEF Waiting
    <3> QED BY <2>2, <3>1, <3>2, <3>3 DEF Anyhow
  <2> QED BY <2>1, <2>3 DEF Fallen
<1>12. CASE m = 26
  <2>1. lcd' = Strobe(lcd, 0, 3) /\ rs' = 0 /\ k = 25
    BY <1>5, <1>7, <1>9, <1>12
  <2>2. Waiting \/ Halved \/ (lcd.bits = 4 /\ lcd.half = <<>>)
    BY <1>4, <1>12 DEF Fallen
  <2>3. LcdRecord(lcd') /\ (Waiting' \/ Halved')
    <3>1. CASE Waiting
      BY <1>4, <2>1, <3>1, StrobeWide DEF Waiting
    <3>2. CASE lcd.bits = 4 /\ lcd.half = <<>>
      BY <1>4, <2>1, <3>2, StrobeFirst DEF Halved
    <3>3. CASE Halved
      BY <1>4, <2>1, <3>3, StrobeSecond DEF Waiting, Halved
    <3> QED BY <2>2, <3>1, <3>2, <3>3
  <2> QED BY <2>1, <2>3 DEF Fallen
<1>13. CASE m = 24
  <2>1. lcd' = Strobe(lcd, 0, 3) /\ rs' = 0 /\ k = 23
    BY <1>5, <1>7, <1>9, <1>13
  <2>2. Waiting \/ Halved
    BY <1>4, <1>13 DEF Fallen
  <2>3. LcdRecord(lcd') /\ Waiting'
    <3>1. CASE Waiting
      BY <1>4, <2>1, <3>1, StrobeWide DEF Waiting
    <3>3. CASE Halved
      BY <1>4, <2>1, <3>3, StrobeSecond DEF Waiting, Halved
    <3> QED BY <2>2, <3>1, <3>3
  <2> QED BY <2>1, <2>3 DEF Fallen
<1>14. CASE m = 22
  <2>1. lcd' = Strobe(lcd, 0, 2) /\ rs' = 0 /\ k = 21 /\ Waiting
    BY <1>4, <1>5, <1>8, <1>9, <1>14 DEF Fallen
  <2>2. LcdRecord(lcd') /\ lcd'.bits = 4 /\ lcd'.half = <<>>
    BY <1>4, <2>1, StrobeWide DEF Waiting
  <2>3. Booting /\ \A v \in Writers \ {"main"} : todo'[v] = <<>>
    <3>1. Booting /\ todo["display"] = <<>> /\ todo["dhcp"] = <<>> /\ todo["ccs"] = <<>>
      BY <1>1, <1>2 DEF Booting, TodoInv
    <3>2. \A v \in Writers \ {"main"} : todo'[v] = todo[v]
      BY <1>1, PinsActs
    <3> QED BY <3>1, <3>2 DEF Writers
  <2>4. \A v \in Writers : BetweenBytes(v)'
    <3>1. 21 % 3 = 0 /\ Len(<<>>) % 3 = 0
      OBVIOUS
    <3> QED BY <2>1, <2>3, <3>1 DEF BetweenBytes
  <2>5. InStep'
    BY <2>2, <2>4 DEF InStep
  <2> QED BY <2>1, <2>2, <2>5
<1>15. m \in {23, 25, 27, 29} \/ m = 28 \/ m = 26 \/ m = 24 \/ m = 22
  BY <1>3, <1>4
<1> QED BY <1>10, <1>11, <1>12, <1>13, <1>14, <1>15

(* Counting down by one, modulo three.                                      *)
LEMMA Count3 ==
  ASSUME NEW k \in Nat \ {0}
  PROVE  /\ k % 3 \in {0, 1, 2}
         /\ k % 3 = 0 => (k - 1) % 3 = 2
         /\ k % 3 = 1 => (k - 1) % 3 = 0
         /\ k % 3 = 2 => (k - 1) % 3 = 1
OBVIOUS

(* After the interface a step that cuts nobody keeps the display in step    *)
(* with the only writer inside a byte.                                      *)
LEMMA ByteStep ==
  ASSUME PanelInv, NEW w \in Writers, Pins(w), ~cut', Len(todo["main"]) <= 21
  PROVE  LcdRecord(lcd') /\ InStep'
<1> DEFINE s == todo[w]
           t == Tail(s)
<1>1. TodoInv /\ LcdRecord(lcd)
  BY DEF PanelInv
<1>2. /\ s # <<>> /\ todo'[w] = t
      /\ \A v \in Writers \ {w} : todo'[v] = todo[v] /\ ~InByte(v)
      /\ ~cut
      /\ Head(s).op = "rs" => rs' = Head(s).value /\ lcd' = lcd
      /\ Head(s).op = "strobe" => lcd' = Strobe(lcd, rs, Head(s).value) /\ rs' = rs
  BY <1>1, PinsActs
<1>3. InStep
  <2>1. ~(Len(todo["main"]) > 21)
    BY <1>1 DEF TodoInv, BootPaced
  <2> QED BY <1>2, <2>1 DEF PanelInv
<1>4. \A v \in Writers \ {w} : BetweenBytes(v) /\ BetweenBytes(v)'
  BY <1>1, <1>2, NotInByte DEF BetweenBytes
<1>5. /\ Len(s) \in Nat \ {0} /\ Head(s) = s[1]
      /\ Paced(t) /\ Len(t) = Len(s) - 1
      /\ s[1].op = IF BetweenBytes(w) THEN "rs" ELSE "strobe"
      /\ BetweenBytes(w) /\ s[1].value # 1 => t[1].value # 3
  BY <1>1, <1>2, NextStep
<1>11. /\ Len(s) % 3 \in {0, 1, 2} /\ (BetweenBytes(w) <=> Len(s) % 3 = 0)
       /\ Len(s) % 3 = 0 => Len(t) % 3 = 2
       /\ Len(s) % 3 = 1 => Len(t) % 3 = 0
       /\ Len(s) % 3 = 2 => Len(t) % 3 = 1
  <2>1. BetweenBytes(w) <=> Len(s) % 3 = 0
    BY DEF BetweenBytes
  <2> HIDE DEF s, t
  <2> QED BY <1>5, <2>1, Count3
<1>6. ASSUME /\ lcd'.bits = 4
             /\ Len(t) % 3 = 0 => lcd'.half = <<>>
             /\ Len(t) % 3 = 2 => lcd'.half = <<>> /\ (rs' # 1 => t[1].value # 3)
             /\ Len(t) % 3 = 1 => lcd'.half = <<lcd'.half[1]>> /\ (rs' # 1 => lcd'.half[1] # 3)
      PROVE  InStep'
  <2>1. /\ BetweenBytes(w)' <=> Len(t) % 3 = 0
        /\ \A v \in Writers \ {w} : BetweenBytes(v)'
    BY <1>2, <1>4 DEF BetweenBytes
  <2>2. (\A v \in Writers : BetweenBytes(v)') => lcd'.half = <<>>
    BY <1>6, <2>1
  <2>3. ASSUME NEW v \in Writers, ~BetweenBytes(v)'
        PROVE  /\ \A u \in Writers \ {v} : BetweenBytes(u)'
               /\ Len(todo'[v]) % 3 = 2 => lcd'.half = <<>> /\ (rs' # 1 => todo'[v][1].value # 3)
               /\ Len(todo'[v]) % 3 = 1 => lcd'.half = <<lcd'.half[1]>> /\ (rs' # 1 => lcd'.half[1] # 3)
    <3>1. v = w
      BY <2>1, <2>3
    <3>2. todo'[v] = t
      BY <1>2, <3>1
    <3> HIDE DEF s, t
    <3> QED BY <1>6, <2>1, <3>1, <3>2
  <2> QED BY <1>6, <2>2, <2>3 DEF InStep
<1>7. CASE Len(s) % 3 = 0
  <2>1. BetweenBytes(w) /\ Len(t) % 3 = 2
    BY <1>7, <1>11
  <2>2. \A v \in Writers : BetweenBytes(v)
    BY <1>4, <2>1
  <2>3. rs' = s[1].value /\ lcd' = lcd /\ lcd.bits = 4 /\ lcd.half = <<>>
    BY <1>2, <1>3, <1>5, <2>1, <2>2 DEF InStep
  <2>4. s[1].value # 1 => t[1].value # 3
    BY <1>5, <2>1
  <2> HIDE DEF s, t
  <2> QED BY <1>1, <1>6, <2>1, <2>3, <2>4
<1>8. CASE Len(s) % 3 = 2
  <2>1. ~BetweenBytes(w) /\ Len(t) % 3 = 1
    <3> HIDE DEF s, t
    <3> QED BY <1>8, <1>11
  <2>2. lcd' = Strobe(lcd, rs, s[1].value) /\ rs' = rs
    BY <1>2, <1>5, <2>1
  <2>3. lcd.bits = 4 /\ lcd.half = <<>> /\ (rs # 1 => s[1].value # 3)
    BY <1>3, <1>8, <2>1 DEF InStep
  <2>4. LcdRecord(lcd') /\ lcd'.bits = 4 /\ lcd'.half = <<s[1].value>>
    BY <1>1, <2>2, <2>3, StrobeFirst
  <2>5. lcd'.half[1] = s[1].value
    BY <2>4
  <2> HIDE DEF s, t
  <2> QED BY <1>6, <2>1, <2>2, <2>3, <2>4, <2>5
<1>9. CASE Len(s) % 3 = 1
  <2>1. ~BetweenBytes(w) /\ Len(t) % 3 = 0
    <3> HIDE DEF s, t
    <3> QED BY <1>9, <1>11
  <2>2. lcd' = Strobe(lcd, rs, s[1].value) /\ rs' = rs
    BY <1>2, <1>5, <2>1
  <2>3. lcd.bits = 4 /\ lcd.half = <<lcd.half[1]>> /\ (rs # 1 => lcd.half[1] # 3)
    BY <1>3, <1>9, <2>1 DEF InStep
  <2>4. LcdRecord(lcd') /\ lcd'.bits = 4 /\ lcd'.half = <<>>
    BY <1>1, <2>2, <2>3, StrobeSecond
  <2> HIDE DEF s, t
  <2> QED BY <1>6, <2>1, <2>4
<1> QED BY <1>7, <1>8, <1>9, <1>11

(* Together: any step on the pins keeps the invariant.                      *)
LEMMA PinsStep ==
  ASSUME PanelInv, NEW w \in Writers, Pins(w)
  PROVE  PanelInv'
<1>1. TodoInv'
  BY TodoStep DEF PanelInv
<1>2. CASE cut'
  <2>1. lcd' = Unknown
    BY <1>2 DEF Pins
  <2>2. LcdRecord(lcd')
    BY <2>1 DEF Unknown, LcdRecord
  <2> QED BY <1>1, <1>2, <2>2 DEF PanelInv
<1>3. CASE ~cut' /\ Len(todo["main"]) <= 21
  <2>1. LcdRecord(lcd') /\ InStep'
    BY <1>3, ByteStep
  <2>2. ~(Len(todo'["main"]) > 21)
    <3>1. TodoInv
      BY DEF PanelInv
    <3>2. todo' = [todo EXCEPT ![w] = Tail(todo[w])] /\ todo[w] # <<>>
      BY DEF Pins
    <3>3. /\ todo'[w] = Tail(todo[w])
          /\ \A v \in Writers \ {w} : todo'[v] = todo[v]
      BY <3>1, <3>2, Others
    <3>4. CASE w = "main"
      BY <1>3, <3>1, <3>2, <3>3, <3>4, BootStep DEF TodoInv
    <3>5. CASE w # "main"
      <4>1. todo'["main"] = todo["main"]
        BY <3>3, <3>5 DEF Writers
      <4>2. \E S : todo["main"] \in Seq(S)
        BY <3>1 DEF TodoInv, BootPaced
      <4> QED BY <1>3, <4>1, <4>2
    <3> QED BY <3>4, <3>5
  <2> QED BY <1>1, <2>1, <2>2 DEF PanelInv
<1>4. CASE ~cut' /\ ~(Len(todo["main"]) <= 21)
  <2>1. Len(todo["main"]) > 21 /\ Booting
    <3>1. Len(todo["main"]) \in Nat
      BY DEF PanelInv, TodoInv, BootPaced
    <3>2. Len(<<>>) = 0
      OBVIOUS
    <3> QED BY <1>4, <3>1, <3>2 DEF Booting
  <2>2. w = "main"
    BY <2>1 DEF Pins
  <2>3. /\ LcdRecord(lcd')
        /\ IF Len(todo'["main"]) > 21 THEN Fallen(Len(todo["main"]))' ELSE InStep'
    BY <1>4, <2>1, <2>2, BootInterface
  <2> QED BY <1>1, <2>3 DEF PanelInv
<1> QED BY <1>2, <1>3, <1>4, <1>1 DEF TodoInv

(* A writer that has nothing left to do starts on whole bytes.              *)
LEMMA SaysBytes ==
  ASSUME PanelInv, ~Booting, NEW w \in {"display", "dhcp", "ccs"}, todo[w] = <<>>,
         NEW s, Bytes(s), todo' = [todo EXCEPT ![w] = s],
         lcd' = lcd, rs' = rs, cut' = cut
  PROVE  PanelInv'
<1>1. TodoInv /\ w \in Writers
  BY DEF PanelInv, Writers
<1>2. /\ todo' = [v \in Writers |-> todo'[v]]
      /\ todo'[w] = s
      /\ \A v \in Writers \ {w} : todo'[v] = todo[v]
  BY <1>1, Others
<1>3. todo'["main"] = todo["main"] /\ Booting' = Booting
  BY <1>2 DEF Booting, Writers
<1>4. Paced(todo'["display"]) /\ Paced(todo'["dhcp"]) /\ Paced(todo'["ccs"])
  BY <1>1, <1>2 DEF TodoInv, Bytes, Writers
<1>5. TodoInv'
  BY <1>1, <1>2, <1>3, <1>4 DEF TodoInv
<1>6. \A v \in Writers : BetweenBytes(v)' <=> BetweenBytes(v)
  <2>1. BetweenBytes(w) /\ BetweenBytes(w)'
    BY <1>2, EmptyBytes DEF BetweenBytes, Bytes
  <2>2. \A v \in Writers \ {w} : BetweenBytes(v)' <=> BetweenBytes(v)
    BY <1>2 DEF BetweenBytes
  <2> QED BY <2>1, <2>2
<1>7. InStep => InStep'
  <2>1. ASSUME InStep, NEW v \in Writers, ~BetweenBytes(v)'
        PROVE  /\ \A u \in Writers \ {v} : BetweenBytes(u)'
               /\ Len(todo'[v]) % 3 = 2 => lcd'.half = <<>> /\ (rs' # 1 => todo'[v][1].value # 3)
               /\ Len(todo'[v]) % 3 = 1 => lcd'.half = <<lcd'.half[1]>> /\ (rs' # 1 => lcd'.half[1] # 3)
    <3>1. ~BetweenBytes(v) /\ v # w /\ todo'[v] = todo[v]
      <4>1. BetweenBytes(w)
        BY EmptyBytes DEF BetweenBytes, Bytes
      <4> QED BY <1>2, <1>6, <2>1, <4>1
    <3> QED BY <1>6, <2>1, <3>1 DEF InStep
  <2>2. InStep => lcd'.bits = 4 /\ ((\A v \in Writers : BetweenBytes(v)') => lcd'.half = <<>>)
    BY <1>6 DEF InStep
  <2> QED BY <2>1, <2>2 DEF InStep
<1>8. LcdRecord(lcd') /\ (~cut' => ~(Len(todo'["main"]) > 21) /\ InStep')
  <2>1. ~(Len(<<>>) > 21)
    OBVIOUS
  <2> QED BY <1>3, <1>7, <2>1 DEF PanelInv, Booting
<1> QED BY <1>5, <1>8 DEF PanelInv

(* The texts of a page have lengths.                                        *)
LEMMA TextIsText ==
  ASSUME NEW n
  PROVE  Len(Text(n).name) \in Nat /\ Len(Text(n).value) \in Nat
<1>1. \A c : Len(<<c>>) = 1
  OBVIOUS
<1>2. /\ Len(FieldText(n).name) = 1 /\ Len(FieldText(n).value) = 1
  BY <1>1 DEF FieldText
<1>3. /\ Len(PacketText(n).name) = 1 /\ Len(PacketText(n).value) = 0
  BY <1>1 DEF PacketText
<1> QED BY <1>2, <1>3 DEF Text

(* What touches neither the display nor the steps to do keeps the           *)
(* invariant.                                                               *)
LEMMA Unmoved ==
  ASSUME PanelInv, todo' = todo, lcd' = lcd, rs' = rs, cut' = cut
  PROVE  PanelInv'
BY DEF PanelInv, TodoInv, Fallen, InStep, Booting, BetweenBytes, Waiting, Anyhow, Halved

(* display_data_task prints a name,                                         *)
LEMMA PrintsName == PanelInv /\ LineInv /\ PrintName => PanelInv' /\ LineInv'
<1> SUFFICES ASSUME PanelInv, LineInv, PrintName PROVE PanelInv' /\ LineInv'
  OBVIOUS
<1>1. Bytes(lcd_print_string_at(Text(page.i).name, line.x, line.y))
  BY TextIsText, StringAtBytes DEF LineInv
<1>2. /\ ~Booting /\ todo["display"] = <<>> /\ lcd' = lcd /\ rs' = rs /\ cut' = cut
      /\ todo' = [todo EXCEPT !["display"] = lcd_print_string_at(Text(page.i).name, line.x, line.y)]
      /\ line' = line
  BY DEF PrintName, DisplayRuns, Says, Still
<1>3. PanelInv'
  BY <1>1, <1>2, SaysBytes
<1> QED BY <1>2, <1>3 DEF LineInv

(* a value behind it,                                                       *)
LEMMA PrintsValue == PanelInv /\ LineInv /\ PrintValue => PanelInv' /\ LineInv'
<1> SUFFICES ASSUME PanelInv, LineInv, PrintValue PROVE PanelInv' /\ LineInv'
  OBVIOUS
<1> DEFINE text == Text(page.i)
<1>1. Len(text.name) \in Nat /\ Len(text.value) \in Nat
  BY TextIsText
<1>2. /\ ~Booting /\ todo["display"] = <<>> /\ lcd' = lcd /\ rs' = rs /\ cut' = cut
  BY DEF PrintValue, DisplayRuns, Still
<1>3. CASE text.value = <<>>
  <2>1. todo' = todo /\ line' = line
    BY <1>3 DEF PrintValue
  <2> QED BY <1>2, <2>1, Unmoved DEF LineInv
<1>4. CASE text.value # <<>>
  <2>1. /\ line' = [line EXCEPT !.x = Len(text.name)]
        /\ todo' = [todo EXCEPT !["display"] =
                      lcd_print_string_at(text.value, Len(text.name), line.y)]
    BY <1>4 DEF PrintValue, Says
  <2> HIDE DEF text
  <2>2. Bytes(lcd_print_string_at(text.value, Len(text.name), line.y))
    BY <1>1, StringAtBytes DEF LineInv
  <2>3. PanelInv'
    BY <1>2, <2>1, <2>2, SaysBytes
  <2>4. LineInv'
    BY <1>1, <2>1 DEF LineInv
  <2> QED BY <2>3, <2>4
<1> QED BY <1>3, <1>4

(* and clears;                                                              *)
LEMMA ClearsPage == PanelInv /\ LineInv /\ ClearPage => PanelInv' /\ LineInv'
<1> SUFFICES ASSUME PanelInv, LineInv, ClearPage PROVE PanelInv' /\ LineInv'
  OBVIOUS
<1>1. /\ ~Booting /\ todo["display"] = <<>> /\ lcd' = lcd /\ rs' = rs /\ cut' = cut
      /\ todo' = [todo EXCEPT !["display"] = lcd_clear] /\ line' = line
  BY DEF ClearPage, DisplayRuns, Says, Still
<1> QED BY <1>1, ClearBytes, SaysBytes DEF LineInv

(* dhcp_fsm clears and writes two lines;                                    *)
LEMMA DhcpSays == PanelInv /\ LineInv /\ DhcpPrints => PanelInv' /\ LineInv'
<1> SUFFICES ASSUME PanelInv, LineInv, DhcpPrints PROVE PanelInv' /\ LineInv'
  OBVIOUS
<1> DEFINE Report(c) == lcd_clear \o lcd_print_string_at(<<c>>, 0, 0) \o lcd_print_string_at(<<c>>, 0, 1)
<1>1. PICK c \in DhcpTexts : todo' = [todo EXCEPT !["dhcp"] = Report(c)]
  BY DEF DhcpPrints
<1>2. /\ ~Booting /\ todo["dhcp"] = <<>> /\ lcd' = lcd /\ rs' = rs /\ cut' = cut /\ line' = line
  BY DEF DhcpPrints, Still
<1>3. Bytes(Report(c))
  <2> DEFINE str == <<c>>
  <2>1. Len(str) \in Nat
    OBVIOUS
  <2> HIDE DEF str
  <2>2. Bytes(lcd_print_string_at(str, 0, 0)) /\ Bytes(lcd_print_string_at(str, 0, 1))
    BY <2>1, StringAtBytes
  <2>3. Bytes(lcd_clear \o lcd_print_string_at(str, 0, 0))
    BY <2>2, ClearBytes, BytesJoined
  <2>4. Bytes(lcd_clear \o lcd_print_string_at(str, 0, 0) \o lcd_print_string_at(str, 0, 1))
    BY <2>2, <2>3, BytesJoined
  <2> QED BY <2>4 DEF str
<1> HIDE DEF Report
<1>4. PanelInv'
  BY <1>1, <1>2, <1>3, SaysBytes
<1> QED BY <1>2, <1>4 DEF LineInv

(* i2c_ccs811sensor clears and writes an error, or has none to write;       *)
LEMMA CcsSays == PanelInv /\ LineInv /\ CcsChecks => PanelInv' /\ LineInv'
<1> SUFFICES ASSUME PanelInv, LineInv, CcsChecks PROVE PanelInv' /\ LineInv'
  OBVIOUS
<1> DEFINE Report == lcd_clear \o lcd_print_string(CcsText)
<1>1. /\ ~Booting /\ todo["ccs"] = <<>> /\ lcd' = lcd /\ rs' = rs /\ cut' = cut /\ line' = line
      /\ todo' = todo \/ todo' = [todo EXCEPT !["ccs"] = Report]
  BY DEF CcsChecks
<1>2. Bytes(Report)
  <2>1. Len(CcsText) \in Nat
    BY DEF CcsText
  <2>2. Bytes(lcd_print_string(CcsText))
    BY <2>1, StringBytes
  <2> QED BY <2>2, ClearBytes, BytesJoined
<1> HIDE DEF Report
<1>3. PanelInv'
  BY <1>1, <1>2, SaysBytes, Unmoved
<1> QED BY <1>1, <1>3 DEF LineInv

(* the other steps of display_data_task do not touch the pins.              *)
LEMMA OtherDisplaySteps ==
  ReceivePacket \/ ShowFields \/ SecondLine \/ FirstLine =>
    /\ lcd' = lcd /\ rs' = rs /\ cut' = cut /\ todo' = todo
    /\ LineInv => LineInv'
<1>1. ReceivePacket \/ ShowFields => lcd' = lcd /\ rs' = rs /\ cut' = cut /\ todo' = todo /\ line' = line
  BY DEF ReceivePacket, ShowFields, Still
<1>2. SecondLine \/ FirstLine => lcd' = lcd /\ rs' = rs /\ cut' = cut /\ todo' = todo
  BY DEF SecondLine, FirstLine, Still
<1>3. SecondLine => line'.x = 0 /\ line'.y = 1 /\ line' = [x |-> line'.x, y |-> line'.y, current_line |-> line'.current_line]
  BY DEF SecondLine
<1>4. FirstLine => line'.x = 0 /\ line'.y = 0 /\ line' = [x |-> line'.x, y |-> line'.y, current_line |-> line'.current_line]
  BY DEF FirstLine
<1> QED BY <1>1, <1>2, <1>3, <1>4 DEF LineInv

(* So every step keeps the invariant.                                       *)
LEMMA PanelStep == PanelInv /\ LineInv /\ [Next]_vars => PanelInv' /\ LineInv'
<1> SUFFICES ASSUME PanelInv, LineInv, [Next]_vars PROVE PanelInv' /\ LineInv'
  OBVIOUS
<1>1. CASE UNCHANGED displayVars
  BY <1>1, Unmoved DEF displayVars, LineInv
<1>2. CASE AnalogRuns \/ Samples \/ SamplesSteadily \/ Computes \/ vars' = vars
  <2>1. UNCHANGED displayVars
    BY <1>2 DEF AnalogRuns, Samples, SamplesSteadily, Computes, vars
  <2> QED BY <1>1, <2>1
<1>3. CASE SendsPacket
  BY <1>3, Unmoved DEF SendsPacket, LineInv
<1>4. ASSUME NEW w \in Writers, Pins(w) PROVE PanelInv' /\ LineInv'
  <2>1. line' = line
    BY <1>4 DEF Pins
  <2> QED BY <1>4, <2>1, PinsStep DEF LineInv
<1>5. CASE DisplayTask
  BY <1>5, OtherDisplaySteps, Unmoved, PrintsName, PrintsValue, ClearsPage DEF DisplayTask
<1>6. CASE DhcpPrints \/ CcsChecks
  BY <1>6, DhcpSays, CcsSays
<1> QED BY <1>2, <1>3, <1>4, <1>5, <1>6 DEF Next, WritesDisplay

(* When nobody is inside a byte the invariant is what LcdInSync says.       *)
LEMMA PanelShows == PanelInv => LcdInSync
<1> SUFFICES ASSUME PanelInv, ~Booting, ~cut, \A w \in Writers : ~InByte(w)
             PROVE  lcd.bits = 4 /\ lcd.half = <<>>
  BY DEF LcdInSync
<1>1. TodoInv /\ Len(todo["main"]) = 0
  <2>1. Len(<<>>) = 0
    OBVIOUS
  <2> QED BY <2>1 DEF PanelInv, Booting
<1>2. InStep
  BY <1>1 DEF PanelInv
<1>3. \A w \in Writers : BetweenBytes(w)
  BY <1>1, NotInByte
<1> QED BY <1>2, <1>3 DEF InStep

(* Whatever state a reset has left the display in, after init_task has set  *)
(* it up it is four bits wide and waits for the first half whenever no      *)
(* writer is inside a byte, until one writer cuts another's byte: no name,  *)
(* no value and no place ever sends a command that changes the width.       *)
THEOREM DisplayInSync == Spec => []LcdInSync
<1>1. Init => PanelInv /\ LineInv
  BY Started
<1>2. PanelInv /\ LineInv /\ [Next]_vars => PanelInv' /\ LineInv'
  BY PanelStep
<1>3. PanelInv => LcdInSync
  BY PanelShows
<1> QED BY <1>1, <1>2, <1>3, PTL DEF Spec

-----------------------------------------------------------------------------
(* Sums, SumFunctionOnSet of the community modules.  What is proved by       *)
(* induction is put as the membership in a set of all the subsets, or of all *)
(* the numbers, it holds for.                                                *)

(* Induction over the subsets of a finite set.                             *)
LEMMA SubsetInduction ==
  ASSUME NEW S, IsFiniteSet(S), NEW Good,
         \A s \in SUBSET S : (\A t \in SUBSET s : t # s => t \in Good) => s \in Good
  PROVE  SUBSET S \subseteq Good
<1> SUFFICES ASSUME (SUBSET S) \ Good # {} PROVE FALSE
  OBVIOUS
<1> DEFINE Bad == (SUBSET S) \ Good
<1>1. IsWellFoundedOn(StrictSubsetOrdering(S), SUBSET S)
  <2>1. FiniteSubsetsOf(S) = SUBSET S
    BY FS_FiniteSubsetsOfFinite
  <2>2. IsWellFoundedOn(StrictSubsetOrdering(S), FiniteSubsetsOf(S))
    BY FS_StrictSubsetOrderingWellFounded
  <2> QED BY <2>1, <2>2, Zenon
<1>2. Bad \subseteq SUBSET S /\ Bad # {}
  OBVIOUS
<1> HIDE DEF Bad
<1>3. PICK s \in Bad : \A t \in Bad : ~(<<t, s>> \in StrictSubsetOrdering(S))
  BY <1>1, <1>2, WFMin
<1>4. ASSUME NEW t \in SUBSET s, t # s
      PROVE  t \in Good
  <2>1. s \in SUBSET S /\ t \in SUBSET S
    BY <1>2
  <2>2. <<t, s>> \in StrictSubsetOrdering(S)
    BY <1>4, <2>1 DEF StrictSubsetOrdering
  <2> QED BY <1>3, <2>1, <2>2 DEF Bad
<1> QED BY <1>4 DEF Bad

(* The member that a sum takes first.                                      *)
Chosen(s) == CHOOSE x \in s : TRUE
Remaining(s) == s \ {Chosen(s)}

(* The table that SumFunctionOnSet looks its result up in.                 *)
SumTable(it, f, S) ==
  it = [s \in SUBSET S |-> IF s = {} THEN 0 ELSE f[Chosen(s)] + it[Remaining(s)]]

Tabulates(it, f, S) ==
  \A s \in SUBSET S : it[s] = IF s = {} THEN 0 ELSE f[Chosen(s)] + it[Remaining(s)]

SumOn(f, S) == SumFunctionOnSet(f, S)

(* It is one of them, and without it there are fewer.                      *)
LEMMA MemberIn == ASSUME NEW s, s # {} PROVE Chosen(s) \in s /\ Remaining(s) \subseteq s /\ Remaining(s) # s
BY DEF Chosen, Remaining

(* The table is chosen.                                                    *)
LEMMA SumIs == ASSUME NEW f, NEW S PROVE SumOn(f, S) = (CHOOSE it : SumTable(it, f, S))[S]
BY DEF SumOn, SumFunctionOnSet, FoldFunctionOnSet, MapThenFoldSet, SumTable, Chosen, Remaining

(* Two tables agree where the functions they sum up do.                    *)
LEMMA TablesAgree ==
  ASSUME NEW S, IsFiniteSet(S), NEW f, NEW g, \A x \in S : f[x] = g[x],
         NEW a, Tabulates(a, f, S), NEW b, Tabulates(b, g, S)
  PROVE  \A s \in SUBSET S : a[s] = b[s]
<1> DEFINE Good == {s \in SUBSET S : a[s] = b[s]}
<1>1. ASSUME NEW s \in SUBSET S, \A t \in SUBSET s : t # s => t \in Good
      PROVE  s \in Good
  <2>1. CASE s = {}
    BY <2>1 DEF Tabulates
  <2>2. CASE s # {}
    <3>1. Chosen(s) \in s /\ Remaining(s) \in SUBSET s /\ Remaining(s) # s
      BY <2>2, MemberIn
    <3>2. a[Remaining(s)] = b[Remaining(s)]
      BY <1>1, <3>1
    <3> QED BY <2>2, <3>1, <3>2 DEF Tabulates
  <2> QED BY <2>1, <2>2
<1> HIDE DEF Good
<1>2. SUBSET S \subseteq Good
  BY <1>1, SubsetInduction
<1> QED BY <1>2 DEF Good

(* There is one: SumFunctionOnSet is what its recursion says.              *)
LEMMA SumUnfolds ==
  ASSUME NEW f, NEW S, IsFiniteSet(S)
  PROVE  SumOn(f, S) = IF S = {} THEN 0 ELSE f[Chosen(S)] + SumOn(f, Remaining(S))
<1> DEFINE Unfolds(s) == SumOn(f, s) = IF s = {} THEN 0 ELSE f[Chosen(s)] + SumOn(f, Remaining(s))
           Good == {s \in SUBSET S : Unfolds(s)}
<1>1. ASSUME NEW s \in SUBSET S, \A t \in SUBSET s : t # s => t \in Good
      PROVE  s \in Good
  <2> DEFINE it == [t \in SUBSET s |-> IF t = {} THEN 0 ELSE f[Chosen(t)] + SumOn(f, Remaining(t))]
  <2>1. \A t \in SUBSET s : t # s => it[t] = SumOn(f, t)
    BY <1>1
  <2>2. ASSUME NEW t \in SUBSET s, t # {}
        PROVE  it[Remaining(t)] = SumOn(f, Remaining(t))
    <3>1. Remaining(t) \in SUBSET s /\ Remaining(t) # s
      BY <2>2, MemberIn
    <3> HIDE DEF it
    <3> QED BY <2>1, <3>1
  <2>3. SumTable(it, f, s)
    BY <2>2 DEF SumTable
  <2> DEFINE c == CHOOSE w : SumTable(w, f, s)
  <2>4. SumTable(c, f, s)
    BY <2>3
  <2>5. SumOn(f, s) = c[s]
    BY SumIs
  <2>6. Tabulates(c, f, s)
    BY <2>4 DEF SumTable, Tabulates
  <2>7. Tabulates(it, f, s)
    BY <2>2 DEF Tabulates
  <2>8. IsFiniteSet(s)
    BY FS_Subset
  <2> HIDE DEF it, c
  <2>9. \A t \in SUBSET s : c[t] = it[t]
    <3>1. \A x \in s : f[x] = f[x]
      OBVIOUS
    <3> QED BY <2>6, <2>7, <2>8, <3>1, TablesAgree
  <2>10. SumOn(f, s) = it[s]
    BY <2>5, <2>9
  <2> QED BY <2>10 DEF it
<1> HIDE DEF Good
<1>2. SUBSET S \subseteq Good
  BY <1>1, SubsetInduction
<1> QED BY <1>2 DEF Good

(* Integers can be summed in any order.                                    *)
LEMMA SumTakesOut ==
  ASSUME NEW f, NEW S, IsFiniteSet(S), \A x \in S : f[x] \in Int
  PROVE  /\ SumOn(f, S) \in Int
         /\ \A x \in S : SumOn(f, S) = f[x] + SumOn(f, S \ {x})
<1> DEFINE Good == {s \in SUBSET S : /\ SumOn(f, s) \in Int
                                     /\ \A x \in s : SumOn(f, s) = f[x] + SumOn(f, s \ {x})}
<1>1. ASSUME NEW s \in SUBSET S, \A t \in SUBSET s : t # s => t \in Good
      PROVE  s \in Good
  <2>1. CASE s = {}
    <3>1. SumOn(f, {}) = 0
      BY SumUnfolds, FS_EmptySet
    <3> QED BY <2>1, <3>1
  <2>2. CASE s # {}
    <3> DEFINE m == Chosen(s)
               r == s \ {m}
    <3>1. m \in s /\ r \in SUBSET s /\ r # s /\ f[m] \in Int
      BY <2>2, MemberIn
    <3>2. SumOn(f, s) = f[m] + SumOn(f, r)
      <4>1. IsFiniteSet(s)
        BY FS_Subset
      <4> QED BY <2>2, <4>1, SumUnfolds DEF Remaining
    <3> HIDE DEF m
    <3>3. SumOn(f, r) \in Int /\ \A x \in r : SumOn(f, r) = f[x] + SumOn(f, r \ {x})
      BY <1>1, <3>1
    <3>4. SumOn(f, s) \in Int
      BY <3>1, <3>2, <3>3
    <3>5. ASSUME NEW x \in s
          PROVE  SumOn(f, s) = f[x] + SumOn(f, s \ {x})
      <4>1. CASE x = m
        BY <3>2, <4>1
      <4>2. CASE x # m
        <5>1. x \in r /\ SumOn(f, r) = f[x] + SumOn(f, r \ {x}) /\ f[x] \in Int
          BY <3>3, <4>2
        <5>2. s \ {x} \in SUBSET s /\ s \ {x} # s /\ m \in s \ {x} /\ (s \ {x}) \ {m} = r \ {x}
          BY <3>1, <4>2
        <5>3. SumOn(f, s \ {x}) = f[m] + SumOn(f, r \ {x}) /\ SumOn(f, s \ {x}) \in Int
          BY <1>1, <5>2
        <5>4. SumOn(f, r \ {x}) \in Int
          <6>1. r \ {x} \in SUBSET s /\ r \ {x} # s
            BY <3>1
          <6> QED BY <1>1, <6>1
        <5> QED BY <3>1, <3>2, <5>1, <5>3, <5>4
      <4> QED BY <4>1, <4>2
    <3> QED BY <3>4, <3>5
  <2> QED BY <2>1, <2>2
<1> HIDE DEF Good
<1>2. SUBSET S \subseteq Good
  BY <1>1, SubsetInduction
<1> QED BY <1>2 DEF Good

(* The sum looks at nothing but the values on the set.                     *)
LEMMA SumSame ==
  ASSUME NEW f, NEW g, NEW S, IsFiniteSet(S), \A x \in S : f[x] = g[x]
  PROVE  SumOn(f, S) = SumOn(g, S)
<1> DEFINE a == [s \in SUBSET S |-> SumOn(f, s)]
           b == [s \in SUBSET S |-> SumOn(g, s)]
<1>0. \A s \in SUBSET S : IsFiniteSet(s) /\ (s # {} => Remaining(s) \in SUBSET S)
  BY FS_Subset, MemberIn
<1>1. Tabulates(a, f, S)
  BY <1>0, SumUnfolds DEF Tabulates
<1>2. Tabulates(b, g, S)
  BY <1>0, SumUnfolds DEF Tabulates
<1> HIDE DEF a, b
<1>3. \A s \in SUBSET S : a[s] = b[s]
  BY <1>1, <1>2, TablesAgree
<1> QED BY <1>3 DEF a, b

(* One place further, one value more.                                      *)
LEMMA SumNext ==
  ASSUME NEW f, NEW m \in Int, NEW n \in Int, m <= n + 1, \A k \in m..(n + 1) : f[k] \in Int
  PROVE  /\ SumOn(f, m..n) \in Int
         /\ SumOn(f, m..(n + 1)) = SumOn(f, m..n) + f[n + 1]
<1>1. IsFiniteSet(m..n) /\ IsFiniteSet(m..(n + 1))
  BY FS_Interval
<1>2. (m..(n + 1)) \ {n + 1} = m..n /\ n + 1 \in m..(n + 1)
  OBVIOUS
<1>3. SumOn(f, m..n) \in Int
  BY <1>1, SumTakesOut
<1>4. SumOn(f, m..(n + 1)) = f[n + 1] + SumOn(f, m..n)
  BY <1>1, <1>2, SumTakesOut
<1> QED BY <1>3, <1>4

(* Over no places it is zero.                                              *)
LEMMA SumNone == \A f : SumOn(f, {}) = 0
BY SumUnfolds, FS_EmptySet

(* A sum does not change when its members move up by one.                  *)
LEMMA SumMoved ==
  ASSUME NEW f, NEW g, NEW n \in Nat, \A k \in 1..n : f[k] \in Int /\ g[k + 1] = f[k]
  PROVE  SumOn(g, 2..(n + 1)) = SumOn(f, 1..n)
<1> DEFINE Moved(k) == k <= n => SumOn(g, 2..(k + 1)) = SumOn(f, 1..k)
           Good == {k \in Nat : Moved(k)}
<1>1. 0 \in Good
  <2>1. 2..(0 + 1) = {} /\ 1..0 = {}
    OBVIOUS
  <2> QED BY <2>1, SumNone
<1>2. ASSUME NEW k \in Good
      PROVE  k + 1 \in Good
  <2> SUFFICES ASSUME k + 1 <= n PROVE Moved(k + 1)
    OBVIOUS
  <2>1. SumOn(f, 1..(k + 1)) = SumOn(f, 1..k) + f[k + 1]
    <3>1. k \in Int /\ 1 \in Int /\ 1 <= k + 1 /\ \A j \in 1..(k + 1) : f[j] \in Int
      OBVIOUS
    <3> HIDE DEF Good
    <3> QED BY <3>1, SumNext
  <2>2. SumOn(g, 2..((k + 1) + 1)) = SumOn(g, 2..(k + 1)) + g[(k + 1) + 1]
    <3>1. k + 1 \in Int /\ 2 \in Int /\ 2 <= (k + 1) + 1
      OBVIOUS
    <3>2. \A j \in 2..((k + 1) + 1) : g[j] \in Int
      <4> TAKE j \in 2..((k + 1) + 1)
      <4>1. j - 1 \in 1..n /\ (j - 1) + 1 = j
        OBVIOUS
      <4> QED BY <4>1
    <3> HIDE DEF Good
    <3> QED BY <3>1, <3>2, SumNext
  <2>3. k + 1 \in 1..n /\ k <= n
    OBVIOUS
  <2> QED BY <2>1, <2>2, <2>3
<1> HIDE DEF Good
<1>3. Nat \subseteq Good
  <2>1. Good \subseteq Nat
    BY DEF Good
  <2> QED BY <1>1, <1>2, <2>1, CountInduction
<1>4. n \in Good
  BY <1>3
<1> QED BY <1>4 DEF Good

(* The sum of n times the same.                                            *)
LEMMA SumEqual ==
  ASSUME NEW f, NEW n \in Nat, NEW c \in Int, \A k \in 1..n : f[k] = c
  PROVE  SumOn(f, 1..n) = n * c
<1> DEFINE Times(k) == k <= n => SumOn(f, 1..k) = k * c
           Good == {k \in Nat : Times(k)}
<1>1. 0 \in Good
  <2>1. 1..0 = {} /\ 0 * c = 0
    OBVIOUS
  <2> QED BY <2>1, SumNone
<1>2. ASSUME NEW k \in Good
      PROVE  k + 1 \in Good
  <2> SUFFICES ASSUME k + 1 <= n PROVE Times(k + 1)
    OBVIOUS
  <2>1. SumOn(f, 1..(k + 1)) = SumOn(f, 1..k) + f[k + 1]
    <3>1. k \in Int /\ 1 \in Int /\ 1 <= k + 1 /\ \A j \in 1..(k + 1) : f[j] \in Int
      OBVIOUS
    <3> HIDE DEF Good
    <3> QED BY <3>1, SumNext
  <2>2. f[k + 1] = c /\ SumOn(f, 1..k) = k * c /\ k \in Int
    OBVIOUS
  <2>3. k * c + c = (k + 1) * c
    BY <2>2, SMT
  <2> HIDE DEF Good
  <2> QED BY <2>1, <2>2, <2>3
<1> HIDE DEF Good
<1>3. Nat \subseteq Good
  <2>1. Good \subseteq Nat
    BY DEF Good
  <2> QED BY <1>1, <1>2, <2>1, CountInduction
<1>4. n \in Good
  BY <1>3
<1> QED BY <1>4 DEF Good

-----------------------------------------------------------------------------
(* The analog temperature.                                                 *)

(* While a mean is being worked out the buffer holds the last conversions, *)
(* and the mean is theirs.                                                 *)
AnalogInv ==
  /\ analog_pc \in {"create", "first", "convert", "store"}
  /\ analog_pc # "create" => temp_semaphore
  /\ analog_pc \in {"convert", "store"} =>
       /\ converted \in Seq(Int) /\ Len(converted) = BUFFER_TEMP_SIZE
       /\ \A p \in Places : buffer_temp[p] = converted[p + 1]
  /\ analog_pc = "convert" => avg_temp = SumOn(converted, 1..BUFFER_TEMP_SIZE)
  /\ analog_pc = "store" => buffer_avg_temp = SumOn(converted, 1..BUFFER_TEMP_SIZE)

(* The first conversion counts for all those before it.                    *)
LEMMA FirstMean == AnalogInv /\ FirstConversion => AnalogInv'
<1> SUFFICES ASSUME AnalogInv, FirstConversion PROVE AnalogInv'
  OBVIOUS
<1> DEFINE N == BUFFER_TEMP_SIZE
<1>1. N \in Nat \ {0} /\ Get_Analog_Temp_d \subseteq Int
  BY AnalogAssumption DEF Get_Analog_Temp_d, TEMP_ERROR
<1>2. PICK temp \in Get_Analog_Temp_d :
        /\ buffer_temp' = [p \in Places |-> temp]
        /\ avg_temp' = N * temp
        /\ converted' = [k \in 1..N |-> temp]
  BY DEF FirstConversion
<1>3. converted' \in Seq(Int) /\ Len(converted') = N /\ \A k \in 1..N : converted'[k] = temp
  BY <1>1, <1>2
<1>4. SumOn(converted', 1..N) = N * temp
  BY <1>1, <1>3, SumEqual
<1>5. \A p \in Places : p + 1 \in 1..N
  BY <1>1 DEF Places
<1>6. \A p \in Places : buffer_temp'[p] = converted'[p + 1]
  BY <1>2, <1>3, <1>5
<1>7. SumOn(converted, 1..N)' = SumOn(converted', 1..N)
  BY DEF SumOn
<1> QED BY <1>2, <1>3, <1>4, <1>6, <1>7 DEF AnalogInv, FirstConversion

(* Each place is added after its reading has moved there, so none is missed *)
(* and none counts twice.                                                  *)
LEMMA NextMean == AnalogInv /\ Convert => AnalogInv'
<1> SUFFICES ASSUME AnalogInv, Convert PROVE AnalogInv'
  OBVIOUS
<1> DEFINE N == BUFFER_TEMP_SIZE
<1>1. N \in Nat \ {0} /\ Get_Analog_Temp_d \subseteq Int
  BY AnalogAssumption DEF Get_Analog_Temp_d, TEMP_ERROR
<1>2. PICK temp \in Get_Analog_Temp_d :
        /\ buffer_avg_temp' = Summed(buffer_temp, temp)
        /\ buffer_temp' = Shifted(buffer_temp, temp)
        /\ converted' = <<temp>> \o SubSeq(converted, 1, N - 1)
  BY DEF Convert
<1>3. converted \in Seq(Int) /\ Len(converted) = N /\ \A p \in Places : buffer_temp[p] = converted[p + 1]
  BY DEF AnalogInv, Convert
<1>4. /\ converted' \in Seq(Int) /\ Len(converted') = N /\ converted'[1] = temp
      /\ \A k \in 2..N : converted'[k] = converted[k - 1]
  BY <1>1, <1>2, <1>3
<1>5. \A p \in Places : buffer_temp'[p] = converted'[p + 1]
  <2> TAKE p \in Places
  <2>1. p \in 0..(N - 1)
    BY DEF Places
  <2>2. CASE p = 0
    BY <1>2, <1>4, <2>2 DEF Shifted
  <2>3. CASE p # 0
    <3>1. p - 1 \in Places /\ p + 1 \in 2..N
      BY <2>1, <2>3, <1>1 DEF Places
    <3> QED BY <1>2, <1>3, <1>4, <2>1, <2>3, <3>1 DEF Shifted
  <2> QED BY <2>2, <2>3
<1>6. Places \ {0} = 1..(N - 1)
  BY <1>1 DEF Places
<1>7. SumOn(converted', 2..((N - 1) + 1)) = SumOn(buffer_temp', 1..(N - 1))
  <2>1. \A k \in 1..(N - 1) : buffer_temp'[k] \in Int /\ converted'[k + 1] = buffer_temp'[k]
    <3> TAKE k \in 1..(N - 1)
    <3>1. k \in Places /\ k + 1 \in 1..N
      BY <1>1 DEF Places
    <3> QED BY <1>4, <1>5, <3>1
  <2>2. N - 1 \in Nat
    BY <1>1
  <2> QED BY <2>1, <2>2, SumMoved
<1>8. SumOn(converted', 1..N) = temp + SumOn(converted', 2..N)
  <2>1. IsFiniteSet(1..N) /\ \A k \in 1..N : converted'[k] \in Int
    BY <1>1, <1>4, FS_Interval
  <2>2. 1 \in 1..N /\ (1..N) \ {1} = 2..N
    BY <1>1
  <2> QED BY <1>4, <2>1, <2>2, SumTakesOut
<1>9. buffer_avg_temp' = SumOn(converted', 1..N)
  <2>1. Summed(buffer_temp, temp) = temp + SumOn(Shifted(buffer_temp, temp), Places \ {0})
    BY DEF Summed, SumOn
  <2>2. buffer_avg_temp' = temp + SumOn(buffer_temp', 1..(N - 1))
    BY <1>2, <1>6, <2>1, Zenon
  <2>3. (N - 1) + 1 = N
    BY <1>1
  <2> QED BY <1>7, <1>8, <2>2, <2>3
<1>10. SumOn(converted, 1..N)' = SumOn(converted', 1..N)
  BY DEF SumOn
<1> QED BY <1>4, <1>5, <1>9, <1>10 DEF AnalogInv, Convert

(* So every step keeps the invariant.                                      *)
LEMMA MeanStep == AnalogInv /\ [AnalogStep]_analogVars => AnalogInv'
<1> SUFFICES ASSUME AnalogInv, [AnalogStep]_analogVars PROVE AnalogInv'
  OBVIOUS
<1>1. CASE CreateSemaphore
  BY <1>1 DEF CreateSemaphore, AnalogInv
<1>2. CASE FirstConversion
  BY <1>2, FirstMean
<1>3. CASE Convert
  BY <1>3, NextMean
<1>4. CASE StoreMean
  BY <1>4 DEF StoreMean, AnalogInv, SumOn
<1>5. CASE UNCHANGED analogVars
  BY <1>5 DEF analogVars, AnalogInv, SumOn
<1> QED BY <1>1, <1>2, <1>3, <1>4, <1>5 DEF AnalogStep

(* Nothing is asked before the first conversion.                           *)
LEMMA MeanStarts == AnalogInit => AnalogInv
BY DEF AnalogInit, AnalogInv

(* It says what data_collector is given.                                   *)
LEMMA MeanKept == AnalogInv => MeanOfLast
BY DEF AnalogInv, MeanOfLast, get_analog_temp, SumOn

(* What data_collector is given is the mean of the last conversions, for any*)
(* size of the buffer and any readings, below zero and failed ones included,*)
(* except while analog_temp is between a new mean and storing it.           *)
THEOREM MeansOfTheLast == Spec => []MeanOfLast
<1>1. Init => AnalogInv
  BY MeanStarts DEF Init
<1>2. AnalogInv /\ [Next]_vars => AnalogInv'
  <2> SUFFICES ASSUME AnalogInv, [Next]_vars PROVE AnalogInv'
    OBVIOUS
  <2>1. [AnalogStep]_analogVars
    <3>1. CASE AnalogRuns
      BY <3>1 DEF AnalogRuns
    <3>2. CASE Samples \/ SamplesSteadily \/ Computes \/ SendsPacket \/ WritesDisplay
      BY <3>2 DEF Samples, SamplesSteadily, Computes, SendsPacket, WritesDisplay, analogVars
    <3>3. CASE UNCHANGED vars
      BY <3>3 DEF vars
    <3> QED BY <3>1, <3>2, <3>3 DEF Next
  <2> QED BY <2>1, MeanStep
<1>3. AnalogInv => MeanOfLast
  BY MeanKept
<1> QED BY <1>1, <1>2, <1>3, PTL DEF Spec

-----------------------------------------------------------------------------
(* The collector. *)

(* How many samples since the start have been summed up.                    *)
Counted ==
  Len(earlier) + CASE pc = "sample" -> 0
                   [] pc = "sum" -> i - 1
                   [] OTHER -> Len(dataPackets_buffer)

(* Samples, each with a reading. *)
Sample(s) == [co |-> s.co, co_err |-> s.co_err] \in Readings
SampleSeq(s) == (\E S : s \in Seq(S)) /\ \A k \in 1..Len(s) : Sample(s[k])

(* The correct readings among the first k, and the last of them.            *)
Total == Collector!AllSamples
Correct(k) == {j \in 1..k : Total[j].co_err = 0}
HasLast(k) == Correct(k) # {} => Collector!Max(Correct(k)) \in Correct(k)

(* The packet keeps its fields; a round begins at zero, and only a sum above*)
(* zero is divided.                                                         *)
PacketShaped ==
  /\ result_packet = [co |-> result_packet.co, co_err |-> result_packet.co_err,
                      temp |-> result_packet.temp, pressure |-> result_packet.pressure]
  /\ result_packet.co = [sum |-> result_packet.co.sum, over |-> result_packet.co.over]
  /\ pc = "sample" => result_packet.co.sum = 0
  /\ result_packet.co.over =
       IF pc = "send" /\ result_packet.co.sum > 0 THEN DATA_PACKET_BUFFER_SIZE ELSE 1

(* The value that stands in for a failed reading is the last correct one of *)
(* those counted.                                                           *)
CollectInv ==
  /\ pc \in {"sample", "sum", "average", "send"}
  /\ SampleSeq(dataPackets_buffer) /\ SampleSeq(earlier)
  /\ pc # "sample" => Len(dataPackets_buffer) = DATA_PACKET_BUFFER_SIZE
  /\ i \in Nat /\ (pc \in {"sample", "sum"} => i \in 1..DATA_PACKET_BUFFER_SIZE)
  /\ pc = "sample" => i = 1
  /\ PacketShaped
  /\ last_correct_co_value = Collector!LastCorrect(Counted)

(* What a step may do to the sum. *)
AddsLastCorrect ==
  /\ pc = "sample" => result_packet'.co.sum = 0
  /\ pc = "sum" /\ i' # i =>
       /\ Counted' = Counted + 1
       /\ result_packet'.co.sum = result_packet.co.sum + Collector!LastCorrect(Counted)'
  /\ pc = "average" => result_packet'.co.sum = result_packet.co.sum

(* Max, of a set that has a greatest member.                                *)
LEMMA MaxLast ==
  ASSUME NEW S, NEW m \in Int, m \in S, \A x \in S : x \in Int /\ x <= m
  PROVE  Collector!Max(S) = m
<1> DEFINE c == CHOOSE x \in S : \A y \in S : x >= y
<1>1. \A y \in S : m >= y
  OBVIOUS
<1>2. c \in S /\ \A y \in S : c >= y
  BY <1>1, Zenon
<1> HIDE DEF c
<1>3. c = m
  BY <1>2
<1> QED BY <1>3 DEF Collector!Max, c

(* One sample further the last correct reading is this one, if it is        *)
(* correct, or still the same.                                              *)
LEMMA LastCorrectNext ==
  ASSUME NEW k \in Nat, HasLast(k)
  PROVE  /\ HasLast(k + 1)
         /\ Collector!LastCorrect(k + 1) =
              IF Total[k + 1].co_err = 0 THEN Total[k + 1].co ELSE Collector!LastCorrect(k)
<1>1. \A n : Collector!LastCorrect(n) =
               IF Correct(n) = {} THEN 0 ELSE Total[Collector!Max(Correct(n))].co
  BY DEF Collector!LastCorrect, Correct, Total
<1>2. CASE Total[k + 1].co_err = 0
  <2>1. k + 1 \in Correct(k + 1) /\ \A x \in Correct(k + 1) : x \in Int /\ x <= k + 1
    BY <1>2 DEF Correct
  <2>2. Collector!Max(Correct(k + 1)) = k + 1
    BY <2>1, MaxLast
  <2> QED BY <1>1, <1>2, <2>1, <2>2 DEF HasLast
<1>3. CASE Total[k + 1].co_err # 0
  <2>1. Correct(k + 1) = Correct(k)
    BY <1>3 DEF Correct
  <2> QED BY <1>1, <1>3, <2>1 DEF HasLast
<1> QED BY <1>2, <1>3

(* So among any of the first samples, if there is a correct one there is a  *)
(* last correct one.                                                        *)
LEMMA HaveLast == \A k \in Nat : HasLast(k)
<1> DEFINE Good == {k \in Nat : HasLast(k)}
<1>1. 0 \in Good
  BY DEF HasLast, Correct
<1>2. \A k \in Good : k + 1 \in Good
  BY LastCorrectNext
<1>3. Good \subseteq Nat
  OBVIOUS
<1> HIDE DEF Good
<1>4. Nat \subseteq Good
  BY <1>1, <1>2, <1>3, CountInduction
<1> QED BY <1>4 DEF Good

(* A reading is two numbers; an error code is never positive.               *)
LEMMA SampleIs ==
  ASSUME NEW s, Sample(s)
  PROVE  s.co \in Int /\ s.co_err \in Int /\ s.co_err <= 0
<1> DEFINE r == [co |-> s.co, co_err |-> s.co_err]
<1>1. r \in [co : Int, co_err : Int] /\ r.co_err <= 0 /\ r.co = s.co /\ r.co_err = s.co_err
  BY CollectorAssumption DEF Sample
<1> HIDE DEF r
<1> QED BY <1>1

(* LastCorrect looks at no later sample.                                    *)
LEMMA LastCorrectKept ==
  ASSUME NEW k \in Nat, \A j \in 1..k : Total'[j] = Total[j]
  PROVE  Collector!LastCorrect(k)' = Collector!LastCorrect(k)
<1>1. Correct(k)' = Correct(k)
  BY DEF Correct
<1>2. Collector!LastCorrect(k) =
        IF Correct(k) = {} THEN 0 ELSE Total[Collector!Max(Correct(k))].co
  BY DEF Collector!LastCorrect, Correct, Total
<1>3. Collector!LastCorrect(k)' =
        IF Correct(k) = {} THEN 0 ELSE Total'[Collector!Max(Correct(k))].co
  BY <1>1 DEF Collector!LastCorrect, Correct, Total
<1>4. Correct(k) # {} => Collector!Max(Correct(k)) \in 1..k
  BY HaveLast DEF HasLast, Correct
<1> QED BY <1>2, <1>3, <1>4

(* So new samples, and a round moved to the earlier ones, do not change     *)
(* it.                                                                      *)
LEMMA CountKept ==
  ASSUME Counted' = Counted, Counted \in Nat, \A j \in 1..Counted : Total'[j] = Total[j]
  PROVE  Collector!LastCorrect(Counted)' = Collector!LastCorrect(Counted)
<1>1. PICK k \in Nat : k = Counted
  OBVIOUS
<1>2. Collector!LastCorrect(k)' = Collector!LastCorrect(k)
  BY <1>1, LastCorrectKept
<1>3. Collector!LastCorrect(Counted)' = Collector!LastCorrect(k)'
  BY <1>1 DEF Collector!LastCorrect
<1> QED BY <1>1, <1>2, <1>3

(* The sample being summed up is the next of all samples.                   *)
LEMMA Summing ==
  ASSUME CollectInv, pc = "sum"
  PROVE  /\ Counted = Len(earlier) + (i - 1) /\ Counted \in Nat
         /\ Total[Counted + 1] = dataPackets_buffer[i]
         /\ Sample(dataPackets_buffer[i])
<1>1. /\ Len(earlier) \in Nat /\ Len(dataPackets_buffer) \in Nat
      /\ \A n \in 1..Len(dataPackets_buffer) :
           (earlier \o dataPackets_buffer)[Len(earlier) + n] = dataPackets_buffer[n]
  BY Joined DEF CollectInv, SampleSeq
<1>2. i \in 1..Len(dataPackets_buffer)
  BY DEF CollectInv
<1>3. Counted = Len(earlier) + (i - 1)
  BY DEF Counted
<1>4. Counted + 1 = Len(earlier) + i /\ Counted \in Nat
  BY <1>1, <1>2, <1>3
<1>5. Total[Counted + 1] = dataPackets_buffer[i]
  BY <1>1, <1>2, <1>4 DEF Total, Collector!AllSamples
<1> QED BY <1>2, <1>3, <1>4, <1>5 DEF CollectInv, SampleSeq

(* Summing up: a failed reading adds last_correct_co_value, a correct one   *)
(* itself.                                                                  *)
LEMMA SumKeeps ==
  ASSUME CollectInv, Collector!SumFailed \/ Collector!SumCorrect
  PROVE  CollectInv' /\ AddsLastCorrect
<1>1. pc = "sum" /\ Collector!Step
  BY DEF Collector!SumFailed, Collector!SumCorrect
<1>2. /\ i' = i + 1 /\ dataPackets_buffer' = dataPackets_buffer /\ earlier' = earlier
      /\ pc' = IF i = DATA_PACKET_BUFFER_SIZE THEN "average" ELSE "sum"
  BY <1>1 DEF Collector!Step, Collector!Size
<1>3. /\ Counted = Len(earlier) + (i - 1) /\ Counted \in Nat /\ i \in Nat
      /\ Len(dataPackets_buffer) = DATA_PACKET_BUFFER_SIZE /\ i \in 1..DATA_PACKET_BUFFER_SIZE
  BY <1>1, Summing DEF CollectInv
<1>0. DATA_PACKET_BUFFER_SIZE \in Nat
  BY CollectorAssumption
<1>4. Counted' = Counted + 1
  <2>1. Len(earlier) \in Nat
    BY DEF CollectInv, SampleSeq
  <2>2. Counted' = Len(earlier) + i
    BY <1>0, <1>2, <1>3, <2>1 DEF Counted
  <2> QED BY <1>3, <2>1, <2>2
<1> DEFINE s == dataPackets_buffer[i]
<1>6. Collector!LastCorrect(Counted)' = IF s.co_err = 0 THEN s.co ELSE last_correct_co_value
  <2> DEFINE n == Counted
  <2>1. Collector!LastCorrect(n + 1) =
          IF Total[n + 1].co_err = 0 THEN Total[n + 1].co ELSE Collector!LastCorrect(n)
    BY <1>3, HaveLast, LastCorrectNext
  <2>2. Collector!LastCorrect(Counted)' = Collector!LastCorrect(n + 1)
    BY <1>2, <1>4 DEF Collector!LastCorrect, Collector!AllSamples
  <2>3. Collector!LastCorrect(n) = last_correct_co_value /\ Total[n + 1] = s
    BY <1>1, Summing DEF CollectInv
  <2> QED BY <2>1, <2>2, <2>3
<1>7. s.co_err \in Int /\ s.co_err <= 0
  BY <1>1, Summing, SampleIs
<1>8. last_correct_co_value' = IF s.co_err = 0 THEN s.co ELSE last_correct_co_value
  BY <1>7 DEF Collector!SumFailed, Collector!SumCorrect
<1>9. /\ result_packet'.co.sum = result_packet.co.sum + last_correct_co_value'
      /\ PacketShaped'
  <2> DEFINE o == Collector!Others(s)
  <2>1. o = [result_packet EXCEPT !.temp = Collector!Plus(@, s.temp),
                                  !.pressure = Collector!Plus(@, s.pressure)]
    BY DEF Collector!Others
  <2>2. /\ o = [co |-> o.co, co_err |-> o.co_err, temp |-> o.temp, pressure |-> o.pressure]
        /\ o.co = result_packet.co
    BY <2>1 DEF CollectInv, PacketShaped
  <2> HIDE DEF o, s
  <2>3. PICK v : /\ v = last_correct_co_value'
                 /\ \/ result_packet' = [o EXCEPT !.co = Collector!Plus(@, v), !.co_err = s.co_err]
                    \/ result_packet' = [o EXCEPT !.co = Collector!Plus(@, v)]
    BY DEF Collector!SumFailed, Collector!SumCorrect, o, s
  <2>4. Collector!Plus(o.co, v) = [sum |-> result_packet.co.sum + v, over |-> result_packet.co.over]
    BY <2>2 DEF Collector!Plus, CollectInv, PacketShaped
  <2> DEFINE c == Collector!Plus(o.co, v)
  <2> HIDE DEF c
  <2>5. /\ result_packet'.co = c
        /\ result_packet' = [co |-> result_packet'.co, co_err |-> result_packet'.co_err,
                             temp |-> result_packet'.temp, pressure |-> result_packet'.pressure]
    BY <2>2, <2>3 DEF c
  <2>6. pc' \notin {"sample", "send"} /\ result_packet.co.over = 1
    BY <1>1, <1>2 DEF CollectInv, PacketShaped
  <2> QED BY <2>3, <2>4, <2>5, <2>6 DEF c, PacketShaped
<1>10. CollectInv'
  <2>1. /\ pc' \in {"sum", "average"} /\ i' \in Nat
        /\ pc' = "sum" => i' \in 1..DATA_PACKET_BUFFER_SIZE
    BY <1>0, <1>2, <1>3
  <2> QED BY <1>2, <1>3, <1>6, <1>8, <1>9, <2>1 DEF CollectInv, SampleSeq
<1> QED BY <1>1, <1>4, <1>6, <1>8, <1>9, <1>10 DEF AddsLastCorrect

(* All samples, the earlier rounds first.                                   *)
LEMMA TotalIs ==
  ASSUME CollectInv
  PROVE  /\ Len(earlier) \in Nat /\ Len(dataPackets_buffer) \in Nat
         /\ \A n \in 1..Len(earlier) : Total[n] = earlier[n]
         /\ \A n \in 1..Len(dataPackets_buffer) : Total[Len(earlier) + n] = dataPackets_buffer[n]
         /\ Counted \in Nat /\ Counted <= Len(earlier) + Len(dataPackets_buffer)
<1>1. /\ Len(earlier) \in Nat /\ Len(dataPackets_buffer) \in Nat
      /\ \A n \in 1..Len(earlier) : Total[n] = earlier[n]
      /\ \A n \in 1..Len(dataPackets_buffer) : Total[Len(earlier) + n] = dataPackets_buffer[n]
  BY Joined DEF CollectInv, SampleSeq, Total, Collector!AllSamples
<1>2. Counted \in Nat /\ Counted <= Len(earlier) + Len(dataPackets_buffer)
  <2>1. CASE pc = "sample"
    BY <1>1, <2>1 DEF Counted
  <2>2. CASE pc = "sum"
    <3>1. Counted = Len(earlier) + (i - 1) /\ i \in 1..Len(dataPackets_buffer)
      BY <2>2 DEF Counted, CollectInv
    <3> QED BY <1>1, <3>1
  <2>3. CASE pc \notin {"sample", "sum"}
    BY <1>1, <2>3 DEF Counted
  <2> QED BY <2>1, <2>2, <2>3
<1> QED BY <1>1, <1>2

(* A new sample comes behind those that have been counted.                  *)
LEMMA SampleKeeps ==
  ASSUME CollectInv, NEW t, Collector!Sample(t)
  PROVE  CollectInv' /\ AddsLastCorrect
<1>1. PICK s \in Collector!Samples(t) : dataPackets_buffer' = Append(dataPackets_buffer, s)
  BY DEF Collector!Sample
<1>2. /\ pc = "sample" /\ Len(dataPackets_buffer) < DATA_PACKET_BUFFER_SIZE
      /\ pc' = IF Len(dataPackets_buffer') = DATA_PACKET_BUFFER_SIZE THEN "sum" ELSE "sample"
      /\ UNCHANGED <<i, result_packet, last_correct_co_value, earlier>>
  BY DEF Collector!Sample, Collector!Size
<1>3. Sample(s)
  <2>1. PICK r \in Readings : s.co = r.co /\ s.co_err = r.co_err
    BY DEF Collector!Samples
  <2>2. r = [co |-> r.co, co_err |-> r.co_err]
    BY CollectorAssumption
  <2> QED BY <2>1, <2>2 DEF Sample
<1> HIDE DEF Collector!Samples
<1>4. /\ \E S : dataPackets_buffer' \in Seq(S)
      /\ Len(dataPackets_buffer') = Len(dataPackets_buffer) + 1 /\ Len(dataPackets_buffer) \in Nat
      /\ \A n \in 1..Len(dataPackets_buffer) : dataPackets_buffer'[n] = dataPackets_buffer[n]
      /\ dataPackets_buffer'[Len(dataPackets_buffer) + 1] = s
  <2>1. PICK S : dataPackets_buffer \in Seq(S)
    BY DEF CollectInv, SampleSeq
  <2>2. dataPackets_buffer \in Seq(S \union {s}) /\ s \in S \union {s}
    BY <2>1
  <2> QED BY <1>1, <2>2
<1>5. SampleSeq(dataPackets_buffer')
  <2>1. \A n \in 1..Len(dataPackets_buffer') :
          n \in 1..Len(dataPackets_buffer) \/ n = Len(dataPackets_buffer) + 1
    BY <1>4
  <2> QED BY <1>3, <1>4, <2>1 DEF CollectInv, SampleSeq
<1>6. Counted = Len(earlier) /\ Counted' = Len(earlier) /\ Len(earlier) \in Nat
  <2>1. Len(earlier) \in Nat /\ i = 1
    BY <1>2 DEF CollectInv, SampleSeq
  <2> QED BY <1>2, <2>1 DEF Counted
<1>7. \A j \in 1..Counted : Total'[j] = Total[j]
  <2>1. \A j \in 1..Len(earlier) : (earlier \o dataPackets_buffer)[j] = earlier[j]
    BY Joined DEF CollectInv, SampleSeq
  <2>2. \A j \in 1..Len(earlier) : (earlier \o dataPackets_buffer')[j] = earlier[j]
    BY <1>5, Joined DEF CollectInv, SampleSeq
  <2> QED BY <1>2, <1>6, <2>1, <2>2 DEF Total, Collector!AllSamples
<1>8. Collector!LastCorrect(Counted)' = Collector!LastCorrect(Counted)
  BY <1>6, <1>7, CountKept
<1>9. /\ pc' \in {"sample", "sum"}
      /\ pc' # "sample" => Len(dataPackets_buffer') = DATA_PACKET_BUFFER_SIZE
      /\ i' = 1 /\ 1 \in 1..DATA_PACKET_BUFFER_SIZE
  <2>1. i = 1 /\ DATA_PACKET_BUFFER_SIZE \in Nat \ {0}
    BY <1>2, CollectorAssumption DEF CollectInv
  <2> QED BY <1>2, <2>1
<1>10. PacketShaped' /\ result_packet'.co.sum = 0
  BY <1>2 DEF CollectInv, PacketShaped
<1>11. CollectInv'
  BY <1>2, <1>5, <1>8, <1>9, <1>10 DEF CollectInv
<1> QED BY <1>2, <1>10, <1>11 DEF AddsLastCorrect

(* The division leaves the sum as it is.                                    *)
LEMMA AverageKeeps ==
  ASSUME CollectInv, Collector!Average
  PROVE  CollectInv' /\ AddsLastCorrect
<1>1. /\ pc = "average" /\ pc' = "send"
      /\ UNCHANGED <<i, dataPackets_buffer, last_correct_co_value, earlier>>
      /\ result_packet' = [result_packet EXCEPT !.co = Collector!Divided(@), !.temp = Collector!Divided(@)]
  BY DEF Collector!Average
<1>2. PacketShaped' /\ result_packet'.co.sum = result_packet.co.sum
  <2> DEFINE c == Collector!Divided(result_packet.co)
             t == Collector!Divided(result_packet.temp)
  <2>1. c = [sum |-> result_packet.co.sum,
             over |-> IF result_packet.co.sum > 0 THEN DATA_PACKET_BUFFER_SIZE ELSE 1]
    BY DEF Collector!Divided, Collector!Size, CollectInv, PacketShaped
  <2>2. result_packet' = [result_packet EXCEPT !.co = c, !.temp = t]
    BY <1>1
  <2> HIDE DEF c, t
  <2>3. /\ result_packet'.co = c
        /\ result_packet' = [co |-> result_packet'.co, co_err |-> result_packet'.co_err,
                             temp |-> result_packet'.temp, pressure |-> result_packet'.pressure]
    BY <2>2 DEF CollectInv, PacketShaped
  <2> QED BY <1>1, <2>1, <2>3 DEF PacketShaped
<1>3. Counted' = Counted /\ Counted \in Nat
  BY <1>1, TotalIs DEF Counted
<1>4. Collector!LastCorrect(Counted)' = Collector!LastCorrect(Counted)
  <2>1. \A j \in 1..Counted : Total'[j] = Total[j]
    BY <1>1 DEF Total, Collector!AllSamples
  <2> QED BY <1>3, <2>1, CountKept
<1>5. CollectInv'
  BY <1>1, <1>2, <1>4 DEF CollectInv, SampleSeq
<1> QED BY <1>1, <1>2, <1>5 DEF AddsLastCorrect

(* Sending clears both buffers; the last correct value stays that of all    *)
(* samples.                                                                 *)
LEMMA SendKeeps ==
  ASSUME CollectInv, Collector!SendAndClear
  PROVE  CollectInv' /\ AddsLastCorrect
<1>1. /\ pc = "send" /\ pc' = "sample" /\ i' = 1
      /\ earlier' = earlier \o dataPackets_buffer /\ dataPackets_buffer' = <<>>
      /\ result_packet' = Collector!NoPacket /\ last_correct_co_value' = last_correct_co_value
  BY DEF Collector!SendAndClear
<1>2. PacketShaped'
  BY <1>1 DEF PacketShaped, Collector!NoPacket, Collector!Zero
<1>3. /\ \E S : earlier' \in Seq(S)
      /\ Len(earlier') = Len(earlier) + Len(dataPackets_buffer)
      /\ Len(earlier) \in Nat /\ Len(dataPackets_buffer) \in Nat
      /\ \A n \in 1..Len(earlier) : earlier'[n] = earlier[n]
      /\ \A n \in 1..Len(dataPackets_buffer) : earlier'[Len(earlier) + n] = dataPackets_buffer[n]
  BY <1>1, Joined DEF CollectInv, SampleSeq
<1>4. SampleSeq(earlier')
  <2>1. ASSUME NEW n \in 1..Len(earlier')
        PROVE  Sample(earlier'[n])
    <3>1. CASE n \in 1..Len(earlier)
      BY <1>3, <3>1 DEF CollectInv, SampleSeq
    <3>2. CASE n \notin 1..Len(earlier)
      <4>1. n - Len(earlier) \in 1..Len(dataPackets_buffer) /\ n = Len(earlier) + (n - Len(earlier))
        BY <1>3, <3>2
      <4> QED BY <1>3, <4>1 DEF CollectInv, SampleSeq
    <3> QED BY <3>1, <3>2
  <2> QED BY <1>3, <2>1 DEF SampleSeq
<1>5. SampleSeq(dataPackets_buffer')
  <2>1. <<>> \in Seq({}) /\ Len(<<>>) = 0
    OBVIOUS
  <2> QED BY <1>1, <2>1 DEF SampleSeq
<1>6. Counted' = Counted /\ Counted = Len(earlier) + Len(dataPackets_buffer) /\ Counted \in Nat
  BY <1>1, <1>3 DEF Counted
<1>7. \A j \in 1..Counted : Total'[j] = Total[j]
  <2>1. Total = earlier'
    BY <1>1 DEF Total, Collector!AllSamples
  <2>2. \A j \in 1..Len(earlier') : Total'[j] = earlier'[j]
    BY <1>4, <1>5, Joined DEF SampleSeq, Total, Collector!AllSamples
  <2> QED BY <1>3, <1>6, <2>1, <2>2
<1>8. Collector!LastCorrect(Counted)' = Collector!LastCorrect(Counted)
  BY <1>6, <1>7, CountKept
<1>9. 1 \in 1..DATA_PACKET_BUFFER_SIZE
  BY CollectorAssumption
<1>10. CollectInv'
  BY <1>1, <1>2, <1>4, <1>5, <1>8, <1>9 DEF CollectInv
<1> QED BY <1>1, <1>10 DEF AddsLastCorrect

(* The other tasks do not touch it.                                         *)
LEMMA CollectStays ==
  ASSUME CollectInv, UNCHANGED collectorVars
  PROVE  CollectInv' /\ AddsLastCorrect
<1>1. UNCHANGED <<pc, i, dataPackets_buffer, result_packet, last_correct_co_value, earlier>>
  BY DEF collectorVars
<1>2. CollectInv'
  BY <1>1 DEF CollectInv, SampleSeq, PacketShaped, Counted,
              Collector!LastCorrect, Collector!AllSamples
<1>3. AddsLastCorrect
  BY <1>1 DEF AddsLastCorrect, CollectInv, PacketShaped
<1> QED BY <1>2, <1>3

(* So every step keeps the invariant, and adds what it should.              *)
LEMMA CollectStep == CollectInv /\ [Next]_vars => CollectInv' /\ AddsLastCorrect
<1> SUFFICES ASSUME CollectInv, [Next]_vars PROVE CollectInv' /\ AddsLastCorrect
  OBVIOUS
<1>1. CASE AnalogRuns \/ WritesDisplay \/ vars' = vars
  <2>1. UNCHANGED collectorVars
    BY <1>1 DEF AnalogRuns, WritesDisplay, vars
  <2> QED BY <2>1, CollectStays
<1>2. CASE Samples
  BY <1>2, SampleKeeps DEF Samples
<1>3. CASE SamplesSteadily
  BY <1>3, SampleKeeps DEF SamplesSteadily
<1>4. CASE Computes
  BY <1>4, SumKeeps, AverageKeeps DEF Computes
<1>5. CASE SendsPacket
  BY <1>5, SendKeeps DEF SendsPacket
<1> QED BY <1>1, <1>2, <1>3, <1>4, <1>5 DEF Next

(* Before the first sample there is no correct reading.                     *)
LEMMA CollectStarts == Init => CollectInv
<1> SUFFICES ASSUME Init PROVE CollectInv
  OBVIOUS
<1>1. /\ pc = "sample" /\ i = 1 /\ dataPackets_buffer = <<>> /\ earlier = <<>>
      /\ result_packet = Collector!NoPacket /\ last_correct_co_value = 0
  BY DEF Init, Collector!Init
<1>2. PacketShaped
  BY <1>1 DEF PacketShaped, Collector!NoPacket, Collector!Zero
<1>3. <<>> \in Seq({}) /\ Len(<<>>) = 0
  OBVIOUS
<1>4. SampleSeq(dataPackets_buffer) /\ SampleSeq(earlier)
  BY <1>1, <1>3 DEF SampleSeq
<1>5. Counted = 0
  BY <1>1, <1>3 DEF Counted
<1>6. Correct(Counted) = {}
  BY <1>5 DEF Correct
<1>7. Collector!LastCorrect(Counted) = 0
  BY <1>6 DEF Correct, Collector!LastCorrect, Total
<1>8. 1 \in 1..DATA_PACKET_BUFFER_SIZE
  BY CollectorAssumption
<1> QED BY <1>1, <1>2, <1>4, <1>7, <1>8 DEF CollectInv

(* data_collector adds up, from zero in every round, for each sample the    *)
(* last reading that did not fail, be it from an earlier round, and the     *)
(* division does not change the sum.                                        *)
THEOREM FailedCountAsLast == Spec => [][AddsLastCorrect]_vars
<1>1. Init => CollectInv
  BY CollectStarts
<1>2. CollectInv /\ [Next]_vars => CollectInv' /\ AddsLastCorrect
  BY CollectStep
<1> QED BY <1>1, <1>2, PTL DEF Spec

(* What may count for a sample, if anything does.                           *)
CorrectReadings == {reading.co : reading \in {r \in Readings : r.co_err = 0}}

(* What counts for each sample, and for the round as far as it is counted.  *)
Counts == [k \in Nat |-> Collector!LastCorrect(k)]
RoundSum == SumOn(Counts, (Len(earlier) + 1)..Counted)

(* What counts is a correct reading, or nothing if there was none.          *)
LEMMA CountsAre ==
  ASSUME CollectInv
  PROVE  \A k \in Nat : k <= Len(earlier) + Len(dataPackets_buffer) =>
           Counts[k] \in CorrectReadings \union {0} /\ Counts[k] \in Int
<1> SUFFICES ASSUME NEW k \in Nat, k <= Len(earlier) + Len(dataPackets_buffer)
             PROVE  Counts[k] \in CorrectReadings \union {0} /\ Counts[k] \in Int
  OBVIOUS
<1>1. Counts[k] = IF Correct(k) = {} THEN 0 ELSE Total[Collector!Max(Correct(k))].co
  BY DEF Counts, Collector!LastCorrect, Correct, Total
<1>2. CASE Correct(k) = {}
  BY <1>1, <1>2
<1>3. CASE Correct(k) # {}
  <2>1. PICK n \in Correct(k) : Counts[k] = Total[n].co
    BY <1>1, <1>3, HaveLast DEF HasLast
  <2>2. n \in 1..(Len(earlier) + Len(dataPackets_buffer)) /\ Total[n].co_err = 0
    BY TotalIs DEF Correct
  <2>3. Sample(Total[n])
    <3>1. CASE n \in 1..Len(earlier)
      BY <3>1, TotalIs DEF CollectInv, SampleSeq
    <3>2. CASE n \notin 1..Len(earlier)
      <4>1. /\ n - Len(earlier) \in 1..Len(dataPackets_buffer)
            /\ n = Len(earlier) + (n - Len(earlier))
        BY <2>2, <3>2, TotalIs
      <4> QED BY <4>1, TotalIs DEF CollectInv, SampleSeq
    <3> QED BY <3>1, <3>2
  <2>4. Total[n].co \in CorrectReadings
    BY <2>2, <2>3 DEF Sample, CorrectReadings
  <2>5. Total[n].co \in Int
    BY <2>3, SampleIs
  <2> QED BY <2>1, <2>4, <2>5
<1> QED BY <1>2, <1>3

(* As long as no samples come or go, what counts stays.                     *)
LEMMA CountsStay ==
  ASSUME UNCHANGED <<earlier, dataPackets_buffer>>
  PROVE  Counts' = Counts
BY DEF Counts, Collector!LastCorrect, Collector!AllSamples

(* Nothing has been counted of a round that is being sampled.               *)
LEMMA NoneCounted == CollectInv /\ pc = "sample" => result_packet.co.sum = RoundSum
<1> SUFFICES ASSUME CollectInv, pc = "sample" PROVE result_packet.co.sum = RoundSum
  OBVIOUS
<1>1. Counted = Len(earlier) /\ Len(earlier) \in Nat
  <2>1. Len(earlier) \in Nat
    BY TotalIs
  <2> QED BY <2>1 DEF Counted
<1>2. (Len(earlier) + 1)..Counted = {}
  BY <1>1
<1> QED BY <1>2, SumNone DEF RoundSum, CollectInv, PacketShaped

(* One more sample adds what counts for it.                                 *)
LEMMA RoundGrows ==
  ASSUME CollectInv, result_packet.co.sum = RoundSum, AddsLastCorrect,
         pc = "sum", i' = i + 1, UNCHANGED <<earlier, dataPackets_buffer>>
  PROVE  (result_packet.co.sum = RoundSum)'
<1>1. /\ Counted' = Counted + 1 /\ i \in Nat
      /\ result_packet'.co.sum = result_packet.co.sum + Collector!LastCorrect(Counted)'
  BY DEF AddsLastCorrect, CollectInv
<1>2. Counts' = Counts
  BY CountsStay
<1> DEFINE m == Len(earlier) + 1
           n == Counted
<1>3. /\ m \in Int /\ n \in Int /\ m <= n + 1 /\ n \in Nat
      /\ n + 1 <= Len(earlier) + Len(dataPackets_buffer) /\ Len(earlier) \in Nat
  <2>1. Counted = Len(earlier) + (i - 1) /\ i \in 1..Len(dataPackets_buffer)
    BY DEF CollectInv, Counted
  <2> QED BY <2>1, TotalIs
<1>4. \A k \in m..(n + 1) : Counts[k] \in Int
  <2> TAKE k \in m..(n + 1)
  <2>1. k \in Nat /\ k <= Len(earlier) + Len(dataPackets_buffer)
    BY <1>3, TotalIs
  <2> QED BY <2>1, CountsAre
<1>5. Collector!LastCorrect(Counted)' = Counts[n + 1]
  <2>1. Collector!LastCorrect(Counted)' = Collector!LastCorrect(n + 1)
    BY <1>1 DEF Collector!LastCorrect, Collector!AllSamples
  <2> QED BY <1>3, <2>1 DEF Counts
<1>6. RoundSum' = SumOn(Counts, m..(n + 1))
  BY <1>1, <1>2 DEF RoundSum, SumOn
<1> HIDE DEF m, n
<1>7. SumOn(Counts, m..(n + 1)) = SumOn(Counts, m..n) + Counts[n + 1]
  BY <1>3, <1>4, SumNext
<1> QED BY <1>1, <1>5, <1>6, <1>7 DEF RoundSum, m, n

(* So the sum is that of the round at every step.                           *)
LEMMA RoundStep ==
  ASSUME CollectInv, result_packet.co.sum = RoundSum, [Next]_vars
  PROVE  (result_packet.co.sum = RoundSum)'
<1>1. CollectInv' /\ AddsLastCorrect
  BY CollectStep
<1>2. CASE pc' = "sample"
  <2>1. (CollectInv /\ pc = "sample" => result_packet.co.sum = RoundSum)'
    BY NoneCounted, PTL
  <2> QED BY <1>1, <1>2, <2>1
<1>3. CASE Computes
  <2>1. CASE Collector!SumFailed \/ Collector!SumCorrect
    <3>1. pc = "sum" /\ i' = i + 1 /\ UNCHANGED <<earlier, dataPackets_buffer>>
      BY <2>1 DEF Collector!SumFailed, Collector!SumCorrect, Collector!Step
    <3> QED BY <1>1, <3>1, RoundGrows
  <2>2. CASE Collector!Average
    <3>1. /\ pc = "average" /\ pc' = "send" /\ UNCHANGED <<earlier, dataPackets_buffer>>
      BY <2>2 DEF Collector!Average
    <3>2. Counted' = Counted /\ Counts' = Counts
      BY <3>1, CountsStay DEF Counted
    <3> QED BY <1>1, <3>1, <3>2 DEF RoundSum, AddsLastCorrect, SumOn
  <2> QED BY <1>3, <2>1, <2>2 DEF Computes
<1>4. CASE (Samples \/ SamplesSteadily) /\ pc' # "sample"
  <2>1. PICK t : Collector!Sample(t)
    BY <1>4 DEF Samples, SamplesSteadily
  <2>2. pc = "sample" /\ pc' = "sum" /\ i' = i /\ i = 1
    BY <1>4, <2>1 DEF Collector!Sample, CollectInv
  <2>3. Len(earlier') = Len(earlier) /\ Len(earlier) \in Nat
    BY <2>1, TotalIs DEF Collector!Sample
  <2>4. Counted' = Len(earlier)
    BY <2>2, <2>3 DEF Counted
  <2>5. (Len(earlier') + 1)..Counted' = {}
    BY <2>3, <2>4
  <2>6. RoundSum' = 0
    BY <2>5, SumNone DEF RoundSum, SumOn
  <2> QED BY <1>1, <2>2, <2>6 DEF AddsLastCorrect
<1>5. CASE AnalogRuns \/ WritesDisplay \/ UNCHANGED vars
  <2>1. UNCHANGED <<pc, i, dataPackets_buffer, result_packet, earlier>>
    BY <1>5 DEF AnalogRuns, WritesDisplay, vars, collectorVars
  <2>2. Counted' = Counted /\ Counts' = Counts
    BY <2>1, CountsStay DEF Counted
  <2> QED BY <2>1, <2>2 DEF RoundSum, SumOn
<1>6. CASE SendsPacket
  BY <1>2, <1>6 DEF SendsPacket, Collector!SendAndClear
<1> QED BY <1>2, <1>3, <1>4, <1>5, <1>6 DEF Next

(* A sum lies between as many times the least and the greatest member, and  *)
(* there are such members.                                                  *)
LEMMA SumBetween ==
  ASSUME NEW f, NEW m \in Int, NEW n \in Nat, NEW lo \in Int, NEW hi \in Int,
         \A k \in m..(m + n - 1) : f[k] \in Int /\ lo <= f[k] /\ f[k] <= hi
  PROVE  /\ SumOn(f, m..(m + n - 1)) \in Int
         /\ lo * n <= SumOn(f, m..(m + n - 1)) /\ SumOn(f, m..(m + n - 1)) <= hi * n
<1> DEFINE S(k) == SumOn(f, m..(m + k - 1))
           Bounded(k) == k <= n => S(k) \in Int /\ lo * k <= S(k) /\ S(k) <= hi * k
           Good == {k \in Nat : Bounded(k)}
<1>1. 0 \in Good
  <2>1. m..(m + 0 - 1) = {} /\ lo * 0 = 0 /\ hi * 0 = 0
    OBVIOUS
  <2> QED BY <2>1, SumNone
<1>2. ASSUME NEW k \in Good
      PROVE  k + 1 \in Good
  <2> SUFFICES ASSUME k + 1 <= n PROVE Bounded(k + 1)
    OBVIOUS
  <2>1. k \in Nat /\ S(k) \in Int /\ lo * k <= S(k) /\ S(k) <= hi * k
    OBVIOUS
  <2> DEFINE j == m + k - 1
  <2>2. j \in Int /\ m <= j + 1 /\ j + 1 \in m..(m + n - 1) /\ j + 1 = m + (k + 1) - 1
    BY <2>1
  <2>3. \A x \in m..(j + 1) : f[x] \in Int
    BY <2>1
  <2> HIDE DEF j, Good
  <2>4. SumOn(f, m..(j + 1)) = SumOn(f, m..j) + f[j + 1]
    BY <2>2, <2>3, SumNext
  <2>5. S(k + 1) = S(k) + f[j + 1]
    BY <2>2, <2>4, Zenon DEF j
  <2>6. f[j + 1] \in Int /\ lo <= f[j + 1] /\ f[j + 1] <= hi
    BY <2>2
  <2> HIDE DEF S
  <2>7. lo * (k + 1) = lo * k + lo /\ hi * (k + 1) = hi * k + hi /\ lo * k \in Int /\ hi * k \in Int
    BY <2>1, SMT
  <2>8. S(k + 1) \in Int /\ lo * (k + 1) <= S(k + 1) /\ S(k + 1) <= hi * (k + 1)
    BY <2>1, <2>5, <2>6, <2>7
  <2> QED BY <2>8
<1> HIDE DEF Good
<1>3. Nat \subseteq Good
  <2>1. Good \subseteq Nat
    BY DEF Good
  <2> QED BY <1>1, <1>2, <2>1, CountInduction
<1>4. n \in Good
  BY <1>3
<1> QED BY <1>4 DEF Good

(* Some value is the least of them, and some the greatest.                  *)
LEMMA HaveEnds ==
  ASSUME NEW f, NEW m \in Int, NEW n \in Nat \ {0}, \A k \in m..(m + n - 1) : f[k] \in Int
  PROVE  \E a, b \in m..(m + n - 1) : \A k \in m..(m + n - 1) : f[a] <= f[k] /\ f[k] <= f[b]
<1> DEFINE Ends(k) == k + 1 <= n =>
             \E a, b \in m..(m + k) : \A j \in m..(m + k) : f[a] <= f[j] /\ f[j] <= f[b]
           Good == {k \in Nat : Ends(k)}
<1>1. 0 \in Good
  <2>1. m \in m..(m + 0) /\ \A j \in m..(m + 0) : j = m
    OBVIOUS
  <2>2. m \in m..(m + n - 1)
    OBVIOUS
  <2> QED BY <2>1, <2>2
<1>2. ASSUME NEW k \in Good
      PROVE  k + 1 \in Good
  <2> SUFFICES ASSUME (k + 1) + 1 <= n PROVE Ends(k + 1)
    OBVIOUS
  <2>1. PICK a, b \in m..(m + k) : \A j \in m..(m + k) : f[a] <= f[j] /\ f[j] <= f[b]
    OBVIOUS
  <2> DEFINE e == m + (k + 1)
  <2>2. /\ e \in m..e /\ a \in m..e /\ b \in m..e
        /\ \A j \in m..e : j \in m..(m + k) \/ j = e
        /\ \A j \in m..e : f[j] \in Int
    BY <2>1
  <2>3. PICK c \in {a, e} : f[c] <= f[a] /\ f[c] <= f[e]
    BY <2>2
  <2>4. PICK d \in {b, e} : f[b] <= f[d] /\ f[e] <= f[d]
    BY <2>2
  <2> HIDE DEF Good, e
  <2>5. \A j \in m..e : f[c] <= f[j] /\ f[j] <= f[d]
    BY <2>1, <2>2, <2>3, <2>4
  <2>6. c \in m..e /\ d \in m..e
    BY <2>2, <2>3, <2>4
  <2> QED BY <2>5, <2>6 DEF e
<1> HIDE DEF Good
<1>3. Nat \subseteq Good
  <2>1. Good \subseteq Nat
    BY DEF Good
  <2> QED BY <1>1, <1>2, <2>1, CountInduction
<1>4. n - 1 \in Good /\ (n - 1) + 1 <= n /\ m + (n - 1) = m + n - 1
  BY <1>3
<1> QED BY <1>4 DEF Good

(* Min, of a set that has a least member.                                   *)
LEMMA MinFirst ==
  ASSUME NEW S, NEW m \in Int, m \in S, \A x \in S : x \in Int /\ m <= x
  PROVE  Collector!Min(S) = m
<1> DEFINE c == CHOOSE x \in S : \A y \in S : x <= y
<1>1. \A y \in S : m <= y
  OBVIOUS
<1>2. c \in S /\ \A y \in S : c <= y
  BY <1>1, Zenon
<1> HIDE DEF c
<1>3. c = m
  BY <1>2
<1> QED BY <1>3 DEF Collector!Min, c

(* When the packet is sent its sum is that of the whole round, as           *)
(* FailedAreSubstituted takes it.                                           *)
LEMMA RoundWhole ==
  ASSUME CollectInv, result_packet.co.sum = RoundSum, pc = "send",
         NEW round, round = (Len(earlier) + 1)..Len(Collector!AllSamples)
  PROVE  /\ round = (Len(earlier) + 1)..(Len(earlier) + DATA_PACKET_BUFFER_SIZE)
         /\ \A k \in round : Counts[k] = Collector!LastCorrect(k) /\ Counts[k] \in Int
         /\ result_packet.co.sum = SumOn(Counts, round)
         /\ result_packet.co.sum = Collector!SumFunction([k \in round |-> Collector!LastCorrect(k)])
<1>1. /\ Len(earlier) \in Nat /\ Len(dataPackets_buffer) = DATA_PACKET_BUFFER_SIZE
      /\ DATA_PACKET_BUFFER_SIZE \in Nat
  BY TotalIs DEF CollectInv
<1>2. Len(Collector!AllSamples) = Len(earlier) + DATA_PACKET_BUFFER_SIZE
  <2>1. Len(earlier \o dataPackets_buffer) = Len(earlier) + Len(dataPackets_buffer)
    BY Joined DEF CollectInv, SampleSeq
  <2> QED BY <1>1, <2>1 DEF Collector!AllSamples
<1>3. Counted = Len(earlier) + DATA_PACKET_BUFFER_SIZE
  BY <1>1 DEF Counted
<1>4. \A k \in round : Counts[k] = Collector!LastCorrect(k) /\ Counts[k] \in Int
  <2> TAKE k \in round
  <2>1. k \in Nat /\ k <= Len(earlier) + Len(dataPackets_buffer)
    BY <1>1, <1>2
  <2> QED BY <2>1, CountsAre DEF Counts
<1>5. result_packet.co.sum = SumOn(Counts, round)
  BY <1>2, <1>3 DEF RoundSum
<1> DEFINE L == [k \in round |-> Collector!LastCorrect(k)]
<1>6. SumOn(Counts, round) = SumOn(L, round)
  <2>1. IsFiniteSet(round)
    BY <1>1, <1>2, FS_Interval
  <2>2. \A k \in round : Counts[k] = L[k]
    BY <1>4
  <2> HIDE DEF L
  <2> QED BY <2>1, <2>2, SumSame
<1>7. DOMAIN L = round
  OBVIOUS
<1> HIDE DEF L
<1>8. Collector!SumFunction(L) = SumOn(L, round)
  BY <1>7 DEF SumOn, SumFunctionOnSet, FoldFunctionOnSet, MapThenFoldSet, Collector!SumFunction,
              Collector!SumFunctionOnSet, Collector!FoldFunctionOnSet, Collector!MapThenFoldSet
<1> QED BY <1>1, <1>2, <1>4, <1>5, <1>6, <1>8 DEF L

(* Its average lies between what was read, unless the sum is below zero and *)
(* not divided.                                                             *)
LEMMA AverageBetween ==
  ASSUME CollectInv, result_packet.co.sum = RoundSum
  PROVE  FailedAreSubstituted
<1> SUFFICES ASSUME pc = "send"
             PROVE  FailedAreSubstituted
  BY DEF FailedAreSubstituted, Collector!FailedAreSubstituted
<1> DEFINE round == (Len(earlier) + 1)..Len(Collector!AllSamples)
           m == Len(earlier) + 1
           n == DATA_PACKET_BUFFER_SIZE
           sum == result_packet.co.sum
           values == {Collector!LastCorrect(k) : k \in round}
<1>1. /\ round = m..(Len(earlier) + n)
      /\ \A k \in round : Counts[k] = Collector!LastCorrect(k) /\ Counts[k] \in Int
      /\ sum = SumOn(Counts, round)
      /\ sum = Collector!SumFunction([k \in round |-> Collector!LastCorrect(k)])
  BY RoundWhole
<1>2. /\ m \in Int /\ n \in Nat \ {0} /\ m + n - 1 = Len(earlier) + n
      /\ result_packet.co.over = IF sum > 0 THEN n ELSE 1
  BY TotalIs, CollectorAssumption DEF CollectInv, PacketShaped
<1>3. FailedAreSubstituted <=> (sum >= 0 => Collector!Between(result_packet.co, values))
  BY <1>1 DEF FailedAreSubstituted, Collector!FailedAreSubstituted
<1> HIDE DEF round, m, n, values, sum
<1>4. round = m..(m + n - 1)
  BY <1>1, <1>2
<1>5. PICK a, b \in round : \A k \in round : Counts[a] <= Counts[k] /\ Counts[k] <= Counts[b]
  BY <1>1, <1>2, <1>4, HaveEnds
<1>6. /\ sum \in Int
      /\ Counts[a] * n <= sum /\ sum <= Counts[b] * n
      /\ Counts[a] \in Int /\ Counts[b] \in Int
  <2>1. n \in Nat /\ m \in Int /\ Counts[a] \in Int /\ Counts[b] \in Int
    BY <1>1, <1>2
  <2>2. \A k \in m..(m + n - 1) : Counts[k] \in Int /\ Counts[a] <= Counts[k] /\ Counts[k] <= Counts[b]
    BY <1>1, <1>4, <1>5
  <2>3. sum = SumOn(Counts, m..(m + n - 1))
    BY <1>1, <1>4
  <2>4. /\ SumOn(Counts, m..(m + n - 1)) \in Int
        /\ Counts[a] * n <= SumOn(Counts, m..(m + n - 1))
        /\ SumOn(Counts, m..(m + n - 1)) <= Counts[b] * n
    BY <2>1, <2>2, SumBetween
  <2> QED BY <2>1, <2>3, <2>4
<1>7. Collector!Min(values) = Counts[a] /\ Collector!Max(values) = Counts[b]
  <2>1. Counts[a] \in values /\ Counts[b] \in values
    BY <1>1 DEF values
  <2>2. \A x \in values : x \in Int /\ Counts[a] <= x /\ x <= Counts[b]
    BY <1>1, <1>5 DEF values
  <2> QED BY <1>6, <2>1, <2>2, MinFirst, MaxLast
<1>8. sum >= 0 => /\ sum >= Counts[a] * result_packet.co.over
                   /\ sum <= Counts[b] * result_packet.co.over
  <2> SUFFICES ASSUME sum >= 0 PROVE /\ sum >= Counts[a] * result_packet.co.over
                                     /\ sum <= Counts[b] * result_packet.co.over
    OBVIOUS
  <2>1. CASE sum > 0
    BY <1>2, <1>6, <2>1
  <2>2. CASE sum = 0
    <3>1. Counts[a] <= 0 /\ Counts[b] >= 0
      BY <1>2, <1>6, <2>2, SMT
    <3> QED BY <1>2, <1>6, <2>2, <3>1
  <2> QED BY <1>6, <2>1, <2>2
<1>9. sum >= 0 => Collector!Between(result_packet.co, values)
  BY <1>7, <1>8 DEF Collector!Between, sum
<1> QED BY <1>3, <1>9

(* The gas that is sent is what FailedAreSubstituted says, whatever the     *)
(* sensors read, below zero too, and in any round.                          *)
THEOREM FailedCountAsBefore == Spec => []FailedAreSubstituted
<1>1. Init => CollectInv /\ result_packet.co.sum = RoundSum
  <2>1. Init => CollectInv /\ pc = "sample"
    BY CollectStarts DEF Init, Collector!Init
  <2> QED BY <2>1, NoneCounted
<1>2. CollectInv /\ result_packet.co.sum = RoundSum /\ [Next]_vars
        => CollectInv' /\ (result_packet.co.sum = RoundSum)'
  BY CollectStep, RoundStep
<1>3. CollectInv /\ result_packet.co.sum = RoundSum => FailedAreSubstituted
  BY AverageBetween
<1> QED BY <1>1, <1>2, <1>3, PTL DEF Spec
-----------------------------------------------------------------------------
(* The texts of the values. *)

(* The first character of a value is a number.                              *)
LEMMA DigitIs == \A value \in Int : Digit(value) \in Int
<1> SUFFICES ASSUME NEW value \in Int PROVE Digit(value) \in Int
  OBVIOUS
<1> DEFINE f == value * Ten[Scale]
           digits == Decimal[Rounded(f, 0) \div Ten[Scale]]
           sign == IF f < 0 THEN <<Minus>> ELSE <<>>
<1>1. Ten[Scale] \in Nat \ {0}
  BY TenIs DEF Scale
<1>2. f \in Int
  BY <1>1
<1> HIDE DEF f
<1>3. Rounded(f, 0) \in Nat
  BY <1>2 DEF Rounded, Magnitude
<1>4. Rounded(f, 0) \div Ten[Scale] \in Nat
  <2> DEFINE x == Rounded(f, 0)
             y == Ten[Scale]
  <2> HIDE DEF x, y
  <2>1. x \in Nat /\ y \in Nat \ {0} => x \div y \in Nat
    OBVIOUS
  <2> QED BY <1>1, <1>3, <2>1 DEF x, y
<1>5. digits \in Seq(Nat) /\ digits # <<>>
  BY <1>4, DecimalIs DEF Characters
<1>6. Digit(value) = Head(sign \o digits \o <<>>)
  BY DEF Digit, ftoa, f
<1>7. sign \in Seq(Nat)
  BY DEF Minus
<1> HIDE DEF sign, digits
<1>8. sign \o digits \o <<>> \in Seq(Nat) /\ Len(sign \o digits \o <<>>) >= 1
  <2>1. Len(digits) \in Nat \ {0} /\ Len(sign) \in Nat
    BY <1>5, <1>7
  <2> QED BY <1>5, <1>7, <2>1
<1> DEFINE text == sign \o digits \o <<>>
<1> HIDE DEF text
<1>9. text \in Seq(Nat) /\ Len(text) >= 1 => Head(text) \in Int
  OBVIOUS
<1> QED BY <1>6, <1>8, <1>9 DEF text

-----------------------------------------------------------------------------
(* What a page shows. *)

(* What comes when k steps are left of a command and a character.           *)
StepLeft(b, c, k) ==
  CASE k = 6 -> SetRs(0) [] k = 5 -> StrobeE(b \div 16) [] k = 4 -> StrobeE(b % 16)
    [] k = 3 -> SetRs(1) [] k = 2 -> StrobeE(c \div 16) [] k = 1 -> StrobeE(c % 16)
Ends(s, b, c) ==
  \A n \in 1..Len(s) : Len(s) - n < 6 => s[n] = StepLeft(b, c, 1 + Len(s) - n)

(* How far a writer is with the command b, that leaves the display at a, and*)
(* the character c.                                                         *)
Sending(w, b, c, a) ==
  LET m == Len(todo[w])
  IN /\ Ends(todo[w], b, c)
     /\ m \in 4..5 => rs = 0
     /\ m = 4 => lcd.half = <<b \div 16>>
     /\ m \in 1..3 => lcd.at = a
     /\ m \in 1..2 => rs = 1
     /\ m = 1 => lcd.half = <<c \div 16>>

(* How far display_data_task is with lcd_clear. *)
Clearing ==
  LET m == Len(todo["display"])
  IN /\ \A n \in 1..m : todo["display"][n] = StepLeft(1, 0, 4 + m - n)
     /\ m \in 1..2 => rs = 0
     /\ m = 1 => lcd.half = <<0>>

(* The page is cleared, but for the first cell, which is written next.      *)
Cleared ==
  /\ \A x \in {1, 2} : lcd.cell[Address(x, 0)] = Blank
  /\ \A x \in Columns : lcd.cell[Address(x, 1)] = Blank
Shown(x, n) == lcd.cell[Address(x, line.y)] = Row(n)[x]

(* Lines of a page that are done, and those that have not been begun.       *)
OtherLine ==
  \A x \in Columns : IF line.y = 1 THEN lcd.cell[Address(x, 0)] = Row(page.i - 1)[x]
                     ELSE lcd.cell[Address(x, 1)] = Blank

(* The cells, where display_data_task is alone. *)
Shows ==
  /\ display_pc = "poll" => Cleared
  /\ display_pc = "name" =>
       IF line.y = 0 THEN Cleared
       ELSE OtherLine /\ \A x \in Columns : lcd.cell[Address(x, 1)] = Blank
  /\ display_pc = "value" =>
       /\ Len(todo["display"]) <= 6
       /\ Sending("display", 128 + Address(0, line.y), Row(page.i)[0], Address(0, line.y))
       /\ OtherLine /\ \A x \in {1, 2} : lcd.cell[Address(x, line.y)] = Blank
       /\ todo["display"] = <<>> => Shown(0, page.i)
  /\ display_pc = "change" =>
       /\ Len(todo["display"]) <= 6
       /\ Sending("display", 128 + Address(1, line.y), Row(page.i)[1], Address(1, line.y))
       /\ OtherLine /\ Shown(0, page.i) /\ Shown(2, page.i)
       /\ todo["display"] = <<>> => Shown(1, page.i)
  /\ display_pc = "cleared" =>
       /\ Len(todo["display"]) <= 3
       /\ Clearing
       /\ todo["display"] = <<>> => Cleared

CellsInv ==
  ~cut /\ ~overwritten =>
    IF Booting THEN /\ Sending("main", 1, 73, 0)
                    /\ Len(todo["main"]) <= 3 => Cleared
    ELSE Shows

(* A packet as display_data_task gets it. *)
Packets == [number : Int, fields : [DOMAIN Names -> Int]]

(* The display has its cells. *)
Celled(l) == l.cell = [a \in Addresses |-> l.cell[a]]

(* Where display_data_task is. *)
PageInv ==
  /\ display_pc \in {"poll", "name", "value", "change", "cleared"}
  /\ page.of \in {"packet", "fields"} /\ page = [of |-> page.of, i |-> page.i]
  /\ page.i \in 1..Lines
  /\ line.y \in Rows /\ line.current_line = line.y
  /\ display_pc \in {"poll", "name"} => line.x = 0 /\ todo["display"] = <<>>
  /\ IF display_pc = "poll" THEN line.y = 0 ELSE page.i % 2 = 1 - line.y
  /\ display_pc = "cleared" => line.y = 1
  /\ Booting => display_pc = "poll"
  /\ ~overwritten => todo["dhcp"] = <<>> /\ todo["ccs"] = <<>>
  /\ Celled(lcd)
  /\ current_packet \in Packets /\ displayQueue \in Seq(Packets)

(* A character is its two halves.                                           *)
LEMMA Halves == \A c \in Int : 16 * (c \div 16) + (c % 16) = c
OBVIOUS

(* The cells that are kept.                                                 *)
LEMMA Cells ==
  /\ Addresses = {0, 1, 2, 64, 65, 66}
  /\ Address(0, 0) = 0 /\ Address(1, 0) = 1 /\ Address(2, 0) = 2
  /\ Address(0, 1) = 64 /\ Address(1, 1) = 65 /\ Address(2, 1) = 66
  /\ Columns = {0, 1, 2} /\ Rows = {0, 1}
<1>1. Columns = {0, 1, 2} /\ Rows = {0, 1}
  BY DEF Columns, Rows
<1>2. /\ Address(0, 0) = 0 /\ Address(1, 0) = 1 /\ Address(2, 0) = 2
      /\ Address(0, 1) = 64 /\ Address(1, 1) = 65 /\ Address(2, 1) = 66
  BY DEF Address
<1>3. Addresses = {Address(0, 0), Address(1, 0), Address(2, 0),
                   Address(0, 1), Address(1, 1), Address(2, 1)}
  BY <1>1 DEF Addresses
<1> QED BY <1>1, <1>2, <1>3

(* The three steps of a byte.                                               *)
LEMMA ByteSteps ==
  ASSUME NEW v, NEW byte
  PROVE  LET s == <<SetRs(v)>> \o lcd_write(byte)
         IN /\ \E S : s \in Seq(S)
            /\ Len(s) = 3 /\ s[1] = SetRs(v)
            /\ s[2] = StrobeE(byte \div 16) /\ s[3] = StrobeE(byte % 16)
<1> DEFINE hi == byte \div 16
           lo == byte % 16
           a == <<SetRs(v)>>
           b == <<StrobeE(hi), StrobeE(lo)>>
           s == a \o b
<1> HIDE DEF hi, lo
<1>1. /\ Len(a) = 1 /\ a[1] = SetRs(v) /\ a \in Seq({SetRs(v)})
      /\ Len(b) = 2 /\ b[1] = StrobeE(hi) /\ b[2] = StrobeE(lo)
      /\ b \in Seq({StrobeE(hi), StrobeE(lo)})
  OBVIOUS
<1>0. s = <<SetRs(v)>> \o lcd_write(byte)
  BY DEF lcd_write, hi, lo
<1> HIDE DEF a, b
<1>2. /\ \E S : s \in Seq(S)
      /\ Len(s) = 3 /\ s[1] = SetRs(v) /\ s[2] = StrobeE(hi) /\ s[3] = StrobeE(lo)
  <2>1. (\E S : a \in Seq(S)) /\ (\E S : b \in Seq(S))
    BY <1>1
  <2>2. /\ \E S : s \in Seq(S)
        /\ Len(s) = Len(a) + Len(b)
        /\ \A n \in 1..Len(a) : s[n] = a[n]
        /\ \A n \in 1..Len(b) : s[Len(a) + n] = b[n]
    BY <2>1, Joined
  <2> HIDE DEF s
  <2>3. s[1] = a[1] /\ s[1 + 1] = b[1] /\ s[1 + 2] = b[2]
    BY <1>1, <2>2
  <2> QED BY <1>1, <2>2, <2>3
<1> QED BY <1>0, <1>2 DEF hi, lo

(* Those of a character,                                                    *)
LEMMA CharSteps ==
  ASSUME NEW c
  PROVE  LET s == lcd_print_string(<<c>>)
         IN /\ \E S : s \in Seq(S)
            /\ Len(s) = 3 /\ s[1] = SetRs(1)
            /\ s[2] = StrobeE(c \div 16) /\ s[3] = StrobeE(c % 16)
<1> DEFINE d == lcd_write_data(c)
           s == lcd_print_string(<<c>>)
<1>1. d[1] = SetRs(1) /\ d[2] = StrobeE(c \div 16) /\ d[3] = StrobeE(c % 16)
  BY ByteSteps DEF lcd_write_data
<1>2. s = [n \in 1..3 |-> lcd_write_data(<<c>>[(n + 2) \div 3])[1 + ((n + 2) % 3)]]
  <2>1. Len(<<c>>) = 1 /\ 3 * 1 = 3
    OBVIOUS
  <2> QED BY <2>1 DEF lcd_print_string
<1>3. \A n \in 1..3 : (n + 2) \div 3 = 1 /\ 1 + ((n + 2) % 3) = n
  OBVIOUS
<1>4. <<c>>[1] = c
  OBVIOUS
<1>5. s = [n \in 1..3 |-> d[n]]
  BY <1>2, <1>3, <1>4
<1> HIDE DEF s, d
<1>6. s \in Seq({d[1], d[2], d[3]}) /\ Len(s) = 3 /\ s[1] = d[1] /\ s[2] = d[2] /\ s[3] = d[3]
  BY <1>5
<1> QED BY <1>1, <1>6 DEF s

(* of a command and a character,                                            *)
LEMMA PairSteps ==
  ASSUME NEW b, NEW c
  PROVE  LET s == lcd_write_command(b) \o lcd_print_string(<<c>>)
         IN (\E S : s \in Seq(S)) /\ Len(s) = 6 /\ Ends(s, b, c)
<1> DEFINE u == lcd_write_command(b)
           v == lcd_print_string(<<c>>)
           s == u \o v
<1>1. /\ \E S : u \in Seq(S)
      /\ Len(u) = 3 /\ u[1] = SetRs(0) /\ u[2] = StrobeE(b \div 16) /\ u[3] = StrobeE(b % 16)
  BY ByteSteps DEF lcd_write_command
<1>2. /\ \E S : v \in Seq(S)
      /\ Len(v) = 3 /\ v[1] = SetRs(1) /\ v[2] = StrobeE(c \div 16) /\ v[3] = StrobeE(c % 16)
  BY CharSteps
<1> HIDE DEF u, v
<1>3. /\ \E S : s \in Seq(S)
      /\ Len(s) = Len(u) + Len(v)
      /\ \A n \in 1..Len(u) : s[n] = u[n]
      /\ \A n \in 1..Len(v) : s[Len(u) + n] = v[n]
  <2>1. (\E S : u \in Seq(S)) /\ (\E S : v \in Seq(S))
    BY <1>1, <1>2
  <2> QED BY <2>1, Joined
<1> HIDE DEF s
<1>4. s[1] = u[1] /\ s[2] = u[2] /\ s[3] = u[3] /\ s[3 + 1] = v[1] /\ s[3 + 2] = v[2] /\ s[3 + 3] = v[3]
  BY <1>1, <1>2, <1>3
<1>5. Len(s) = 6
  BY <1>1, <1>2, <1>3
<1>6. \A n \in 1..6 : s[n] = StepLeft(b, c, 7 - n)
  BY <1>1, <1>2, <1>4 DEF StepLeft
<1>7. Ends(s, b, c)
  <2>1. \A n \in 1..6 : 7 - n = 1 + Len(s) - n
    BY <1>5
  <2> QED BY <1>5, <1>6, <2>1 DEF Ends
<1>8. s = lcd_write_command(b) \o lcd_print_string(<<c>>)
  BY DEF s, u, v
<1> QED BY <1>3, <1>5, <1>7, <1>8

(* of lcd_print_string_at,                                                  *)
LEMMA PrintSteps ==
  ASSUME NEW c, NEW x \in Columns, NEW y \in Rows
  PROVE  LET s == lcd_print_string_at(<<c>>, x, y)
         IN (\E S : s \in Seq(S)) /\ Len(s) = 6 /\ Ends(s, 128 + Address(x, y), c)
<1>1. lcd_move_to(x, y) = lcd_write_command(128 + Address(x, y))
  BY DEF lcd_move_to, Columns, Rows
<1> QED BY <1>1, PairSteps DEF lcd_print_string_at

(* and of lcd_clear.                                                        *)
LEMMA ClearSteps ==
  /\ (\E S : lcd_clear \in Seq(S)) /\ Len(lcd_clear) = 3
  /\ \A n \in 1..3 : lcd_clear[n] = StepLeft(1, 0, 7 - n)
<1>1. /\ (\E S : lcd_clear \in Seq(S)) /\ Len(lcd_clear) = 3
      /\ lcd_clear[1] = SetRs(0) /\ lcd_clear[2] = StrobeE(1 \div 16) /\ lcd_clear[3] = StrobeE(1 % 16)
  BY ByteSteps DEF lcd_clear, lcd_write_command
<1> QED BY <1>1 DEF StepLeft


(* What is written at the start ends with lcd_clear and one character.      *)
LEMMA BootEnds == Ends(Boot, 1, 73)
<1> DEFINE u == lcd_init \o lcd_clear
           v == lcd_print_string(<<73>>)
           s == u \o v
<1>1. (\E S : lcd_init \in Seq(S)) /\ Len(lcd_init) = 23
  BY InitSteps DEF Front
<1>2. (\E S : lcd_clear \in Seq(S)) /\ Len(lcd_clear) = 3
  BY ClearSteps
<1>3. /\ \E S : v \in Seq(S)
      /\ Len(v) = 3 /\ v[1] = SetRs(1) /\ v[2] = StrobeE(73 \div 16) /\ v[3] = StrobeE(73 % 16)
  BY CharSteps
<1>4. /\ \E S : u \in Seq(S)
      /\ Len(u) = 26
      /\ u[24] = lcd_clear[1] /\ u[25] = lcd_clear[2] /\ u[26] = lcd_clear[3]
  <2>0. (\E S : lcd_init \in Seq(S)) /\ (\E S : lcd_clear \in Seq(S))
    BY <1>1, <1>2
  <2>1. /\ \E S : u \in Seq(S)
        /\ Len(u) = Len(lcd_init) + Len(lcd_clear)
        /\ \A n \in 1..Len(lcd_clear) : u[Len(lcd_init) + n] = lcd_clear[n]
    BY <2>0, Joined
  <2> HIDE DEF u
  <2>2. u[23 + 1] = lcd_clear[1] /\ u[23 + 2] = lcd_clear[2] /\ u[23 + 3] = lcd_clear[3]
    BY <1>1, <1>2, <2>1
  <2> QED BY <1>1, <1>2, <2>1, <2>2
<1>5. Boot = s
  BY DEF Boot
<1> HIDE DEF u, v
<1>6. /\ Len(s) = 29
      /\ s[24] = u[24] /\ s[25] = u[25] /\ s[26] = u[26]
      /\ s[27] = v[1] /\ s[28] = v[2] /\ s[29] = v[3]
  <2>0. (\E S : u \in Seq(S)) /\ (\E S : v \in Seq(S))
    BY <1>3, <1>4
  <2>1. /\ Len(s) = Len(u) + Len(v)
        /\ \A n \in 1..Len(u) : s[n] = u[n]
        /\ \A n \in 1..Len(v) : s[Len(u) + n] = v[n]
    BY <2>0, Joined
  <2> HIDE DEF s
  <2>2. s[26 + 1] = v[1] /\ s[26 + 2] = v[2] /\ s[26 + 3] = v[3]
    BY <1>3, <1>4, <2>1
  <2> QED BY <1>3, <1>4, <2>1, <2>2
<1> HIDE DEF s
<1>7. s[24] = StepLeft(1, 0, 6) /\ s[25] = StepLeft(1, 0, 5) /\ s[26] = StepLeft(1, 0, 4)
  <2>1. /\ lcd_clear[1] = StepLeft(1, 0, 7 - 1) /\ lcd_clear[2] = StepLeft(1, 0, 7 - 2)
        /\ lcd_clear[3] = StepLeft(1, 0, 7 - 3)
    BY ClearSteps
  <2> QED BY <1>4, <1>6, <2>1
<1>8. \A n \in 24..29 : s[n] = StepLeft(1, 73, 30 - n)
  <2>1. \A n \in 24..26 : StepLeft(1, 0, 30 - n) = StepLeft(1, 73, 30 - n)
    BY DEF StepLeft
  <2>2. \A n \in 24..26 : s[n] = StepLeft(1, 73, 30 - n)
    BY <1>7, <2>1
  <2>3. \A n \in 27..29 : s[n] = StepLeft(1, 73, 30 - n)
    BY <1>3, <1>6 DEF StepLeft
  <2> QED BY <2>2, <2>3
<1>9. \A n \in 1..29 : 29 - n < 6 => n \in 24..29 /\ 30 - n = 1 + 29 - n
  OBVIOUS
<1> QED BY <1>5, <1>6, <1>8, <1>9 DEF Ends

(* The first of the steps, and what is left then.                           *)
LEMMA EndsStep ==
  ASSUME NEW s, \E S : s \in Seq(S), s # <<>>, NEW b, NEW c, Ends(s, b, c)
  PROVE  /\ Len(s) \in Nat \ {0} /\ Len(Tail(s)) = Len(s) - 1
         /\ Ends(Tail(s), b, c)
         /\ Len(s) <= 6 => Head(s) = StepLeft(b, c, Len(s))
<1>1. /\ Len(s) \in Nat \ {0} /\ Head(s) = s[1] /\ Len(Tail(s)) = Len(s) - 1
      /\ \A n \in 1..Len(Tail(s)) : Tail(s)[n] = s[n + 1]
  OBVIOUS
<1> DEFINE t == Tail(s)
           m == Len(s)
<1>2. m \in Nat \ {0} /\ Len(t) = m - 1 /\ \A n \in 1..Len(t) : t[n] = s[n + 1]
  BY <1>1
<1>3. \A n \in 1..m : m - n < 6 => s[n] = StepLeft(b, c, 1 + m - n)
  BY DEF Ends
<1> HIDE DEF t, m
<1>4. ASSUME NEW n \in 1..Len(t), Len(t) - n < 6
      PROVE  t[n] = StepLeft(b, c, 1 + Len(t) - n)
  <2>1. n + 1 \in 1..m /\ m - (n + 1) < 6 /\ 1 + m - (n + 1) = 1 + Len(t) - n
    BY <1>2, <1>4
  <2>2. s[n + 1] = StepLeft(b, c, 1 + m - (n + 1))
    BY <1>3, <2>1
  <2> QED BY <1>2, <2>1, <2>2
<1>5. m <= 6 => s[1] = StepLeft(b, c, m)
  <2>1. m <= 6 => 1 \in 1..m /\ m - 1 < 6 /\ 1 + m - 1 = m
    BY <1>2
  <2>2. m <= 6 => s[1] = StepLeft(b, c, 1 + m - 1)
    BY <1>3, <2>1
  <2> QED BY <2>1, <2>2
<1> QED BY <1>1, <1>2, <1>4, <1>5 DEF Ends, t, m

(* lcd_move_to takes the display to the cell it is asked for,               *)
LEMMA Moves ==
  ASSUME NEW l, LcdRecord(l), NEW a \in Addresses
  PROVE  LET o == Obey(l, (128 + a) \div 16, (128 + a) % 16)
         IN o.at = a /\ o.cell = l.cell
<1> DEFINE hi == (128 + a) \div 16
           lo == (128 + a) % 16
<1>1. hi >= 8 /\ 16 * (hi - 8) + lo = a
  BY Cells
<1> HIDE DEF hi, lo
<1>2. Obey(l, hi, lo) = [l EXCEPT !.at = a]
  BY <1>1 DEF Obey, NoAddress
<1> QED BY <1>2 DEF LcdRecord, hi, lo

(* and back to the first cell, all cells blank,                             *)
LEMMA Clears ==
  ASSUME NEW l, LcdRecord(l)
  PROVE  LET o == Obey(l, 1 \div 16, 1 % 16)
         IN o.at = 0 /\ o.cell = Blanks
<1>1. 1 \div 16 = 0 /\ 1 % 16 = 1
  OBVIOUS
<1>2. Obey(l, 0, 1) = [l EXCEPT !.at = 0, !.cell = Blanks]
  BY DEF Obey
<1> QED BY <1>1, <1>2 DEF LcdRecord

(* and a character is written where the display is.                         *)
LEMMA Writes ==
  ASSUME NEW l, LcdRecord(l), l.at \in Addresses, NEW c \in Int
  PROVE  Write(l, c \div 16, c % 16).cell = [l.cell EXCEPT ![l.at] = c]
<1> DEFINE d == 16 * (c \div 16) + (c % 16)
           x == [l.cell EXCEPT ![l.at] = d]
           n == NoAddress(l.at + 1)
<1>1. Write(l, c \div 16, c % 16) = [l EXCEPT !.at = n, !.cell = x]
  BY DEF Write
<1>2. d = c
  BY Halves
<1> HIDE DEF x, n, d
<1>3. [l EXCEPT !.at = n, !.cell = x].cell = x
  BY DEF LcdRecord
<1> QED BY <1>1, <1>2, <1>3 DEF x

(* A writer that nobody disturbs moves to its cell, or clears, and writes   *)
(* its character there.                                                     *)
LEMMA SendingStep ==
  ASSUME PanelInv, NEW w \in Writers, Pins(w), ~cut', Len(todo["main"]) <= 21,
         \A v \in Writers \ {w} : todo[v] = <<>>,
         NEW a \in Addresses, NEW b, b = 128 + a \/ (b = 1 /\ a = 0), NEW c \in Int,
         Sending(w, b, c, a), Len(todo[w]) <= 6
  PROVE  /\ Sending(w, b, c, a)' /\ Len(todo[w]) \in Nat \ {0}
         /\ Len(todo'[w]) = Len(todo[w]) - 1
         /\ Len(todo[w]) \in {2, 3, 5, 6} => lcd'.cell = lcd.cell
         /\ Len(todo[w]) = 4 => lcd'.cell = IF b = 1 THEN Blanks ELSE lcd.cell
         /\ Len(todo[w]) = 1 => lcd'.cell = [lcd.cell EXCEPT ![a] = c]
<1> DEFINE m == Len(todo[w])
<1>1. /\ TodoInv /\ LcdRecord(lcd) /\ \E S : todo[w] \in Seq(S)
  BY DEF PanelInv, TodoInv, BootPaced, Paced, Writers
<1>2. /\ todo[w] # <<>> /\ todo'[w] = Tail(todo[w]) /\ ~cut
      /\ Head(todo[w]).op = "rs" => rs' = Head(todo[w]).value /\ lcd' = lcd
      /\ Head(todo[w]).op = "strobe" => lcd' = Strobe(lcd, rs, Head(todo[w]).value) /\ rs' = rs
  BY <1>1, PinsActs
<1>3. /\ m \in Nat \ {0} /\ Len(todo'[w]) = m - 1
      /\ Ends(todo'[w], b, c) /\ Head(todo[w]) = StepLeft(b, c, m)
  BY <1>1, <1>2, EndsStep DEF Sending
<1>4. InStep /\ lcd.bits = 4
  <2>1. ~(Len(todo["main"]) > 21)
    BY <1>1 DEF TodoInv, BootPaced
  <2> QED BY <1>2, <2>1 DEF PanelInv, InStep
<1>5. m % 3 # 1 => lcd.half = <<>>
  <2>1. \A v \in Writers \ {w} : BetweenBytes(v)
    BY EmptyBytes DEF BetweenBytes, Bytes
  <2>2. BetweenBytes(w) <=> m % 3 = 0
    BY DEF BetweenBytes
  <2>3. Len(todo[w]) % 3 = 2 /\ ~BetweenBytes(w) => lcd.half = <<>>
    BY <1>4 DEF InStep
  <2>4. BetweenBytes(w) => lcd.half = <<>>
    BY <1>4, <2>1 DEF InStep
  <2> HIDE DEF m
  <2>5. m % 3 \in {0, 1, 2}
    BY <1>3
  <2> QED BY <2>2, <2>3, <2>4, <2>5 DEF m
<1>6. /\ m \in 4..5 => rs = 0
      /\ m = 4 => lcd.half = <<b \div 16>>
      /\ m \in 1..3 => lcd.at = a
      /\ m \in 1..2 => rs = 1
      /\ m = 1 => lcd.half = <<c \div 16>>
  BY DEF Sending
<1> DEFINE k == Len(todo'[w])
<1>7. ASSUME /\ k \in 4..5 => rs' = 0
             /\ k = 4 => lcd'.half = <<b \div 16>>
             /\ k \in 1..3 => lcd'.at = a
             /\ k \in 1..2 => rs' = 1
             /\ k = 1 => lcd'.half = <<c \div 16>>
      PROVE  Sending(w, b, c, a)'
  BY <1>3, <1>7 DEF Sending
<1>8. m \in 1..6 /\ k = m - 1
  <2>1. m \in Nat \ {0} /\ m <= 6 /\ k = m - 1
    BY <1>3
  <2> HIDE DEF m, k
  <2> QED BY <2>1
<1> HIDE DEF m, k
<1>9. CASE m = 6
  <2>1. rs' = 0 /\ lcd' = lcd
    BY <1>2, <1>3, <1>9 DEF StepLeft, SetRs
  <2> QED BY <1>3, <1>7, <1>8, <1>9, <2>1 DEF m, k
<1>10. CASE m = 5
  <2>1. lcd' = Strobe(lcd, rs, b \div 16) /\ rs' = rs
    BY <1>2, <1>3, <1>10 DEF StepLeft, StrobeE
  <2>2. lcd' = [lcd EXCEPT !.half = <<b \div 16>>]
    BY <1>4, <1>5, <1>10, <2>1 DEF Strobe
  <2>3. lcd'.half = <<b \div 16>> /\ lcd'.cell = lcd.cell
    BY <1>1, <2>2 DEF LcdRecord
  <2> QED BY <1>3, <1>6, <1>7, <1>8, <1>10, <2>1, <2>3 DEF m, k
<1>11. CASE m = 4
  <2>1. lcd' = Strobe(lcd, rs, b % 16) /\ rs' = rs /\ rs = 0 /\ lcd.half = <<b \div 16>>
    BY <1>2, <1>3, <1>6, <1>11 DEF StepLeft, StrobeE
  <2> DEFINE l == [lcd EXCEPT !.half = <<>>]
             hi == b \div 16
             lo == b % 16
  <2>2. lcd' = Obey(l, hi, lo)
    <3>1. lcd.half # <<>> /\ lcd.half[1] = hi
      BY <2>1
    <3> QED BY <1>4, <2>1, <3>1 DEF Strobe, Execute
  <2>3. LcdRecord(l) /\ l.cell = lcd.cell
    BY <1>1 DEF LcdRecord
  <2> HIDE DEF l
  <2>4. lcd'.at = a /\ lcd'.cell = IF b = 1 THEN Blanks ELSE lcd.cell
    <3>1. CASE b = 1 /\ a = 0
      BY <2>2, <2>3, <3>1, Clears
    <3>2. CASE b = 128 + a
      <4>1. b # 1
        BY <3>2, Cells
      <4> QED BY <2>2, <2>3, <3>2, <4>1, Moves
    <3> QED BY <3>1, <3>2
  <2> QED BY <1>3, <1>7, <1>8, <1>11, <2>4 DEF m, k
<1>12. CASE m = 3
  <2>1. rs' = 1 /\ lcd' = lcd
    BY <1>2, <1>3, <1>12 DEF StepLeft, SetRs
  <2> QED BY <1>3, <1>6, <1>7, <1>8, <1>12, <2>1 DEF m, k
<1>13. CASE m = 2
  <2>1. lcd' = Strobe(lcd, rs, c \div 16) /\ rs' = rs
    BY <1>2, <1>3, <1>13 DEF StepLeft, StrobeE
  <2>2. lcd' = [lcd EXCEPT !.half = <<c \div 16>>]
    BY <1>4, <1>5, <1>13, <2>1 DEF Strobe
  <2>3. lcd'.half = <<c \div 16>> /\ lcd'.cell = lcd.cell /\ lcd'.at = lcd.at
    BY <1>1, <2>2 DEF LcdRecord
  <2> QED BY <1>3, <1>6, <1>7, <1>8, <1>13, <2>1, <2>3 DEF m, k
<1>14. CASE m = 1
  <2>1. lcd' = Strobe(lcd, rs, c % 16) /\ rs = 1 /\ lcd.half = <<c \div 16>> /\ lcd.at = a
    BY <1>2, <1>3, <1>6, <1>14 DEF StepLeft, StrobeE
  <2> DEFINE l == [lcd EXCEPT !.half = <<>>]
             hi == c \div 16
             lo == c % 16
  <2>2. lcd' = Write(l, hi, lo)
    <3>1. lcd.half # <<>> /\ lcd.half[1] = hi
      BY <2>1
    <3> QED BY <1>4, <2>1, <3>1 DEF Strobe, Execute
  <2>3. LcdRecord(l) /\ l.cell = lcd.cell /\ l.at = a
    BY <1>1, <2>1 DEF LcdRecord
  <2> HIDE DEF l
  <2>4. lcd'.cell = [lcd.cell EXCEPT ![a] = c]
    <3>1. Write(l, hi, lo).cell = [l.cell EXCEPT ![l.at] = c]
      BY <2>3, Writes
    <3> QED BY <2>2, <2>3, <3>1
  <2> QED BY <1>3, <1>7, <1>8, <1>14, <2>4 DEF m, k
<1> QED BY <1>8, <1>9, <1>10, <1>11, <1>12, <1>13, <1>14


(* Before the last six steps there is nothing to say of them.               *)
LEMMA SendingLong ==
  ASSUME PanelInv, NEW w \in Writers, Pins(w), ~cut', NEW a, NEW b, NEW c,
         Sending(w, b, c, a), Len(todo[w]) > 6
  PROVE  Sending(w, b, c, a)' /\ Len(todo'[w]) = Len(todo[w]) - 1 /\ Len(todo[w]) \in Nat
<1>1. TodoInv /\ \E S : todo[w] \in Seq(S)
  BY DEF PanelInv, TodoInv, BootPaced, Paced, Writers
<1>2. todo[w] # <<>> /\ todo'[w] = Tail(todo[w])
  BY <1>1, PinsActs
<1>3. /\ Len(todo[w]) \in Nat \ {0} /\ Len(todo'[w]) = Len(todo[w]) - 1
      /\ Ends(todo'[w], b, c)
  BY <1>1, <1>2, EndsStep DEF Sending
<1> DEFINE k == Len(todo'[w])
<1>4. k >= 6 /\ k \in Nat
  <2> DEFINE m == Len(todo[w])
  <2>1. m \in Nat /\ m > 6 /\ k = m - 1
    BY <1>3
  <2> HIDE DEF m, k
  <2> QED BY <2>1
<1> HIDE DEF k
<1>5. k \notin 4..5 /\ k # 4 /\ k \notin 1..3 /\ k \notin 1..2 /\ k # 1
  BY <1>4
<1> QED BY <1>3, <1>5 DEF Sending, k

(* When lcd_clear is through, all cells are blank.                          *)
LEMMA ClearingStep ==
  ASSUME PanelInv, Pins("display"), ~cut', todo["main"] = <<>>, todo["dhcp"] = <<>>,
         Clearing, Len(todo["display"]) <= 3
  PROVE  /\ Clearing' /\ Len(todo'["display"]) \in 0..2
         /\ Len(todo'["display"]) = 0 => lcd'.cell = Blanks
<1> DEFINE m == Len(todo["display"])
           k == Len(todo'["display"])
<1>1. /\ TodoInv /\ LcdRecord(lcd) /\ "display" \in Writers
      /\ \E S : todo["display"] \in Seq(S)
  BY DEF PanelInv, TodoInv, Paced, Writers
<1>2. /\ todo["display"] # <<>> /\ todo'["display"] = Tail(todo["display"]) /\ ~cut
      /\ Head(todo["display"]).op = "rs" => rs' = Head(todo["display"]).value /\ lcd' = lcd
      /\ Head(todo["display"]).op = "strobe" =>
           lcd' = Strobe(lcd, rs, Head(todo["display"]).value) /\ rs' = rs
  BY <1>1, PinsActs
<1>3. /\ m \in Nat \ {0} /\ k = m - 1 /\ Head(todo["display"]) = todo["display"][1]
      /\ \A n \in 1..k : todo'["display"][n] = todo["display"][n + 1]
  <2> DEFINE s == todo["display"]
  <2>1. (\E S : s \in Seq(S)) /\ s # <<>>
    BY <1>1, <1>2
  <2> HIDE DEF s
  <2>2. /\ Len(s) \in Nat \ {0} /\ Len(Tail(s)) = Len(s) - 1 /\ Head(s) = s[1]
        /\ \A n \in 1..Len(Tail(s)) : Tail(s)[n] = s[n + 1]
    BY <2>1
  <2> QED BY <1>2, <2>2 DEF s
<1>4. InStep /\ lcd.bits = 4
  <2>1. ~(Len(todo["main"]) > 21)
    <3>1. Len(<<>>) = 0
      OBVIOUS
    <3> QED BY <3>1
  <2> QED BY <1>2, <2>1 DEF PanelInv, InStep
<1>5. m = 2 => lcd.half = <<>>
  <2>1. m = 2 => m % 3 = 2 /\ m % 3 # 0
    OBVIOUS
  <2> QED BY <1>1, <1>4, <2>1 DEF InStep, BetweenBytes
<1>6. /\ m \in 1..2 => rs = 0
      /\ m = 1 => lcd.half = <<0>>
      /\ \A n \in 1..m : todo["display"][n] = StepLeft(1, 0, 4 + m - n)
  BY DEF Clearing
<1>7. /\ \A n \in 1..k : todo'["display"][n] = StepLeft(1, 0, 4 + k - n)
      /\ Head(todo["display"]) = StepLeft(1, 0, 3 + m)
      /\ m \in 1..3 /\ k = m - 1
  <2>1. m \in Nat \ {0} /\ m <= 3 /\ k = m - 1
    BY <1>3
  <2> HIDE DEF m, k
  <2>2. ASSUME NEW n \in 1..k PROVE todo'["display"][n] = StepLeft(1, 0, 4 + k - n)
    <3>1. n + 1 \in 1..m /\ 4 + m - (n + 1) = 4 + k - n
      BY <2>1
    <3> QED BY <1>3, <1>6, <3>1
  <2>3. 1 \in 1..m /\ 4 + m - 1 = 3 + m
    BY <2>1
  <2>4. todo["display"][1] = StepLeft(1, 0, 3 + m)
    BY <1>6, <2>3
  <2> QED BY <1>3, <2>1, <2>2, <2>4
<1>8. ASSUME k \in 1..2 => rs' = 0, k = 1 => lcd'.half = << 0 >>
      PROVE  Clearing'
  BY <1>7, <1>8 DEF Clearing
<1> HIDE DEF m, k
<1>9. 1 \div 16 = 0 /\ 1 % 16 = 1
  OBVIOUS
<1>10. CASE m = 3
  <2>1. rs' = 0 /\ lcd' = lcd
    BY <1>2, <1>7, <1>10 DEF StepLeft, SetRs
  <2> QED BY <1>7, <1>8, <1>10, <2>1 DEF k
<1>11. CASE m = 2
  <2>1. lcd' = Strobe(lcd, rs, 0) /\ rs' = rs
    BY <1>2, <1>7, <1>9, <1>11 DEF StepLeft, StrobeE
  <2>2. lcd' = [lcd EXCEPT !.half = <<0>>]
    BY <1>4, <1>5, <1>11, <2>1 DEF Strobe
  <2>3. lcd'.half = <<0>>
    BY <1>1, <2>2 DEF LcdRecord
  <2> QED BY <1>6, <1>7, <1>8, <1>11, <2>1, <2>3 DEF k
<1>12. CASE m = 1
  <2>1. lcd' = Strobe(lcd, rs, 1) /\ rs = 0 /\ lcd.half = <<0>>
    BY <1>2, <1>6, <1>7, <1>9, <1>12 DEF StepLeft, StrobeE
  <2> DEFINE l == [lcd EXCEPT !.half = <<>>]
  <2>2. lcd' = Obey(l, 0, 1)
    BY <1>4, <2>1 DEF Strobe, Execute
  <2>3. LcdRecord(l)
    BY <1>1 DEF LcdRecord
  <2> HIDE DEF l
  <2>4. lcd'.cell = Blanks
    BY <1>9, <2>2, <2>3, Clears
  <2> QED BY <1>7, <1>8, <1>12, <2>4 DEF k
<1> QED BY <1>7, <1>10, <1>11, <1>12

(* The texts of a page, a character or two in a row, and blanks behind.     *)
LEMMA RowIs ==
  ASSUME PageInv, NEW n \in 1..Lines
  PROVE  /\ Row(n)[0] \in Int /\ Text(n).name = <<Row(n)[0]>> /\ Len(Text(n).name) = 1
         /\ Row(n)[1] \in Int /\ Row(n)[2] = Blank
         /\ Text(n).value = <<>> => Row(n)[1] = Blank
         /\ Text(n).value # <<>> => Text(n).value = <<Row(n)[1]>>
<1>1. \E c \in Int : /\ Text(n).name = <<c>>
                     /\ Text(n).value = <<>> \/ \E d \in Int : Text(n).value = <<d>>
  <2>1. CASE page.of = "packet"
    <3>1. Text(n) = PacketText(n)
      BY <2>1 DEF Text
    <3>2. current_packet.number \in Int
      BY DEF PageInv, Packets
    <3>3. Digit(current_packet.number) \in Int /\ Title \in Int
      BY <3>2, DigitIs DEF Title
    <3>4. /\ PacketText(n).name = IF n = 1 THEN <<Title>> ELSE <<Digit(current_packet.number)>>
          /\ PacketText(n).value = <<>>
      BY DEF PacketText
    <3> QED BY <3>1, <3>3, <3>4
  <2>2. CASE page.of = "fields"
    <3>1. Text(n) = FieldText(n) /\ n \in DOMAIN Names /\ Names[n] \in Int
      BY <2>2, DisplayAssumption DEF Text, Lines
    <3>2. current_packet.fields[n] \in Int
      BY <3>1 DEF PageInv, Packets
    <3>3. Digit(current_packet.fields[n]) \in Int
      BY <3>2, DigitIs
    <3>4. /\ FieldText(n).name = <<Names[n]>>
          /\ FieldText(n).value = <<Digit(current_packet.fields[n])>>
      BY DEF FieldText
    <3> QED BY <3>1, <3>3, <3>4
  <2> QED BY <2>1, <2>2 DEF PageInv
<1>2. PICK c \in Int : /\ Text(n).name = <<c>>
                       /\ Text(n).value = <<>> \/ \E d \in Int : Text(n).value = <<d>>
  BY <1>1
<1> DEFINE text == Text(n).name \o Text(n).value
<1>3. Row(n) = [x \in {0, 1, 2} |-> IF x < Len(text) THEN text[x + 1] ELSE Blank]
  BY Cells DEF Row
<1>4. CASE Text(n).value = <<>>
  <2>1. text = <<c>>
    BY <1>2, <1>4
  <2> HIDE DEF text
  <2>2. Len(text) = 1 /\ text[1] = c
    BY <2>1
  <2>3. Row(n)[0] = c /\ Row(n)[1] = Blank /\ Row(n)[2] = Blank
    BY <1>3, <2>2
  <2>4. Blank \in Int /\ Len(<<c>>) = 1
    BY DEF Blank
  <2> QED BY <1>2, <1>4, <2>3, <2>4
<1>5. ASSUME NEW d \in Int, Text(n).value = <<d>>
      PROVE  Row(n)[0] = c /\ Row(n)[1] = d /\ Row(n)[2] = Blank /\ Text(n).value # <<>>
  <2>1. /\ (\E S : <<c>> \in Seq(S)) /\ Len(<<c>>) = 1 /\ <<c>>[1] = c
        /\ (\E S : <<d>> \in Seq(S)) /\ Len(<<d>>) = 1 /\ <<d>>[1] = d
    <3>1. <<c>> \in Seq(Int) /\ <<d>> \in Seq(Int)
      OBVIOUS
    <3> QED BY <3>1
  <2> DEFINE u == <<c>>
             v == <<d>>
  <2> HIDE DEF u, v
  <2>2. Len(text) = 2 /\ text[1] = c /\ text[2] = d
    <3>1. (\E S : u \in Seq(S)) /\ (\E S : v \in Seq(S))
      BY <2>1 DEF u, v
    <3>2. /\ Len(u \o v) = Len(u) + Len(v)
          /\ \A m \in 1..Len(u) : (u \o v)[m] = u[m]
          /\ \A m \in 1..Len(v) : (u \o v)[Len(u) + m] = v[m]
      BY <3>1, Joined
    <3>3. Len(u) = 1 /\ Len(v) = 1 /\ u[1] = c /\ v[1] = d
      BY <2>1 DEF u, v
    <3>4. (u \o v)[1 + 1] = d /\ (u \o v)[1] = c
      BY <3>2, <3>3
    <3>5. text = u \o v
      BY <1>2, <1>5 DEF u, v
    <3> HIDE DEF text
    <3> QED BY <3>2, <3>3, <3>4, <3>5
  <2>3. Row(n)[0] = c /\ Row(n)[1] = d /\ Row(n)[2] = Blank
    BY <1>3, <2>2
  <2>4. Text(n).value # <<>>
    BY <1>5
  <2> QED BY <2>3, <2>4
<1>6. Len(<<c>>) = 1
  OBVIOUS
<1> QED BY <1>2, <1>4, <1>5, <1>6

(* They depend on the packet and on which page it is.                       *)
LEMMA RowSame ==
  ASSUME page'.of = page.of, current_packet' = current_packet, NEW n
  PROVE  Row(n)' = Row(n) /\ Lines' = Lines
<1>1. Lines' = Lines
  BY DEF Lines
<1>2. Text(n)' = Text(n)
  BY DEF Text, PacketText, FieldText
<1> QED BY <1>1, <1>2 DEF Row

(* Two lines to a page.                                                     *)
LEMMA LinesEven == Lines \in Nat \ {0} /\ Lines % 2 = 0
<1>1. Names \in Seq(Nat) /\ Names # <<>> => Len(Names) \in Nat \ {0}
  OBVIOUS
<1>2. 2 \in Nat \ {0} /\ 2 % 2 = 0
  OBVIOUS
<1>3. CASE page.of = "packet"
  BY <1>2, <1>3 DEF Lines
<1>4. CASE page.of # "packet"
  BY <1>1, <1>4, DisplayAssumption DEF Lines
<1> QED BY <1>3, <1>4


(* Whatever is measured is a number, and what is divided by is not zero.    *)
Average(a) == a = [sum |-> a.sum, over |-> a.over] /\ a.sum \in Int /\ a.over \in Nat \ {0}
NumbersInv ==
  /\ avg_temp \in Int /\ buffer_avg_temp \in Int
  /\ \A k \in 1..Len(dataPackets_buffer) : dataPackets_buffer[k].temp \in Int
  /\ last_correct_co_value \in Int
  /\ Average(result_packet.co) /\ Average(result_packet.temp)

(* The means of analog_temp,                                                *)
LEMMA MeansAreNumbers ==
  ASSUME AnalogInv, NumbersInv, [AnalogStep]_analogVars
  PROVE  avg_temp' \in Int /\ buffer_avg_temp' \in Int
<1>1. CASE FirstConversion
  <2>1. PICK temp \in Get_Analog_Temp_d : avg_temp' = BUFFER_TEMP_SIZE * temp
    BY <1>1 DEF FirstConversion
  <2>2. temp \in Int /\ BUFFER_TEMP_SIZE \in Int
    BY AnalogAssumption DEF Get_Analog_Temp_d, TEMP_ERROR
  <2>3. buffer_avg_temp' = buffer_avg_temp
    BY <1>1 DEF FirstConversion
  <2> QED BY <2>1, <2>2, <2>3 DEF NumbersInv
<1>2. CASE Convert
  <2>1. AnalogInv' /\ analog_pc' = "store" /\ avg_temp' = avg_temp
    BY <1>2, MeanStep DEF Convert
  <2>2. /\ buffer_avg_temp' = SumOn(converted', 1..BUFFER_TEMP_SIZE)
        /\ converted' \in Seq(Int) /\ Len(converted') = BUFFER_TEMP_SIZE
    BY <2>1 DEF AnalogInv
  <2> DEFINE c == converted'
  <2> HIDE DEF c
  <2>3. c \in Seq(Int) /\ Len(c) = BUFFER_TEMP_SIZE
    BY <2>2 DEF c
  <2>4. IsFiniteSet(1..BUFFER_TEMP_SIZE) /\ \A x \in 1..BUFFER_TEMP_SIZE : c[x] \in Int
    BY <2>3, AnalogAssumption, FS_Interval
  <2>5. SumOn(c, 1..BUFFER_TEMP_SIZE) \in Int
    BY <2>4, SumTakesOut
  <2> QED BY <2>1, <2>2, <2>5 DEF NumbersInv, c
<1>3. CASE CreateSemaphore \/ StoreMean \/ UNCHANGED analogVars
  BY <1>3 DEF CreateSemaphore, StoreMean, analogVars, NumbersInv
<1> QED BY <1>1, <1>2, <1>3 DEF AnalogStep

(* what is sampled,                                                         *)
LEMMA SampleIsNumber ==
  ASSUME NumbersInv, CollectInv, NEW t \in Int, Collector!Sample(t)
  PROVE  /\ \A k \in 1..Len(dataPackets_buffer') : dataPackets_buffer'[k].temp \in Int
         /\ result_packet' = result_packet /\ last_correct_co_value' = last_correct_co_value
<1>1. PICK s \in Collector!Samples(t) : dataPackets_buffer' = Append(dataPackets_buffer, s)
  BY DEF Collector!Sample
<1>2. s.temp \in Int
  BY DEF Collector!Samples
<1> HIDE DEF Collector!Samples
<1>3. /\ Len(dataPackets_buffer') = Len(dataPackets_buffer) + 1 /\ Len(dataPackets_buffer) \in Nat
      /\ \A n \in 1..Len(dataPackets_buffer) : dataPackets_buffer'[n] = dataPackets_buffer[n]
      /\ dataPackets_buffer'[Len(dataPackets_buffer) + 1] = s
  <2>1. PICK S : dataPackets_buffer \in Seq(S)
    BY DEF CollectInv, SampleSeq
  <2>2. dataPackets_buffer \in Seq(S \union {s}) /\ s \in S \union {s}
    BY <2>1
  <2> QED BY <1>1, <2>2
<1>4. \A n \in 1..Len(dataPackets_buffer') :
        n \in 1..Len(dataPackets_buffer) \/ n = Len(dataPackets_buffer) + 1
  BY <1>3
<1>5. \A n \in 1..Len(dataPackets_buffer') : dataPackets_buffer'[n].temp \in Int
  BY <1>2, <1>3, <1>4 DEF NumbersInv
<1> QED BY <1>5 DEF Collector!Sample

(* the sums                                                                 *)
LEMMA SumIsNumber ==
  ASSUME NumbersInv, CollectInv, Collector!SumFailed \/ Collector!SumCorrect
  PROVE  /\ dataPackets_buffer' = dataPackets_buffer /\ last_correct_co_value' \in Int
         /\ Average(result_packet.co)' /\ Average(result_packet.temp)'
<1> DEFINE s == dataPackets_buffer[i]
           o == Collector!Others(s)
           t == Collector!Plus(result_packet.temp, s.temp)
           p == Collector!Plus(result_packet.pressure, s.pressure)
<1>1. pc = "sum" /\ i \in 1..Len(dataPackets_buffer)
  BY DEF Collector!SumFailed, Collector!SumCorrect, CollectInv
<1>2. s.co \in Int /\ s.temp \in Int
  BY <1>1, Summing, SampleIs DEF NumbersInv
<1>3. \A a \in {result_packet.co, result_packet.temp}, v \in Int : Average(Collector!Plus(a, v))
  BY DEF NumbersInv, Average, Collector!Plus
<1>4. Average(t)
  BY <1>2, <1>3
<1>5. o = [result_packet EXCEPT !.temp = t, !.pressure = p]
  BY DEF Collector!Others
<1> HIDE DEF t, p
<1>6. /\ o = [co |-> o.co, co_err |-> o.co_err, temp |-> o.temp, pressure |-> o.pressure]
      /\ o.co = result_packet.co /\ o.temp = t
  BY <1>5 DEF CollectInv, PacketShaped
<1> HIDE DEF o, s
<1>7. PICK v \in Int :
        \/ result_packet' = [o EXCEPT !.co = Collector!Plus(@, v), !.co_err = s.co_err]
        \/ result_packet' = [o EXCEPT !.co = Collector!Plus(@, v)]
  <2>1. CASE Collector!SumFailed
    BY <2>1 DEF Collector!SumFailed, NumbersInv, o, s
  <2>2. CASE Collector!SumCorrect
    BY <1>2, <2>2 DEF Collector!SumCorrect, o, s
  <2> QED BY <2>1, <2>2
<1> DEFINE c == Collector!Plus(o.co, v)
<1>8. Average(c)
  BY <1>3, <1>6
<1> HIDE DEF c
<1>9. result_packet'.co = c /\ result_packet'.temp = t
  BY <1>6, <1>7 DEF c
<1>10. last_correct_co_value' \in Int
  BY <1>2 DEF Collector!SumFailed, Collector!SumCorrect, NumbersInv, s
<1>11. dataPackets_buffer' = dataPackets_buffer
  BY DEF Collector!SumFailed, Collector!SumCorrect, Collector!Step
<1> QED BY <1>4, <1>8, <1>9, <1>10, <1>11

(* the averages,                                                            *)
LEMMA AverageIsNumber ==
  ASSUME NumbersInv, CollectInv, Collector!Average
  PROVE  /\ dataPackets_buffer' = dataPackets_buffer
         /\ last_correct_co_value' = last_correct_co_value
         /\ Average(result_packet.co)' /\ Average(result_packet.temp)'
<1> DEFINE c == Collector!Divided(result_packet.co)
           t == Collector!Divided(result_packet.temp)
<1>1. \A a \in {result_packet.co, result_packet.temp} : Average(Collector!Divided(a))
  <2>1. DATA_PACKET_BUFFER_SIZE \in Nat \ {0} /\ 1 \in Nat \ {0}
    BY CollectorAssumption
  <2> QED BY <2>1 DEF NumbersInv, Average, Collector!Divided, Collector!Size
<1>2. Average(c) /\ Average(t)
  BY <1>1
<1>3. result_packet' = [result_packet EXCEPT !.co = c, !.temp = t]
  BY DEF Collector!Average
<1> HIDE DEF c, t
<1>4. result_packet'.co = c /\ result_packet'.temp = t
  BY <1>3 DEF CollectInv, PacketShaped
<1> QED BY <1>2, <1>4 DEF Collector!Average

(* and what is sent.                                                        *)
LEMMA NumbersStep == AnalogInv /\ CollectInv /\ NumbersInv /\ [Next]_vars => NumbersInv'
<1> SUFFICES ASSUME AnalogInv, CollectInv, NumbersInv, [Next]_vars PROVE NumbersInv'
  OBVIOUS
<1>0. get_analog_temp \in Int /\ Steady.temp \in Int
  BY DEF get_analog_temp, NumbersInv, Steady
<1>1. ASSUME NEW t \in Int, Collector!Sample(t), UNCHANGED analogVars PROVE NumbersInv'
  BY <1>1, SampleIsNumber DEF NumbersInv, analogVars
<1>2. CASE AnalogRuns
  <2>1. avg_temp' \in Int /\ buffer_avg_temp' \in Int
    BY <1>2, MeansAreNumbers DEF AnalogRuns
  <2> QED BY <1>2, <2>1 DEF AnalogRuns, collectorVars, NumbersInv
<1>3. CASE Samples
  BY <1>0, <1>1, <1>3 DEF Samples
<1>4. CASE SamplesSteadily
  BY <1>0, <1>1, <1>4 DEF SamplesSteadily
<1>5. CASE Computes
  <2>1. avg_temp' = avg_temp /\ buffer_avg_temp' = buffer_avg_temp
    BY <1>5 DEF Computes, analogVars
  <2>2. CASE Collector!SumFailed \/ Collector!SumCorrect
    BY <2>1, <2>2, SumIsNumber DEF NumbersInv
  <2>3. CASE Collector!Average
    BY <2>1, <2>3, AverageIsNumber DEF NumbersInv
  <2> QED BY <1>5, <2>2, <2>3 DEF Computes
<1>6. CASE SendsPacket
  <2>1. /\ avg_temp' = avg_temp /\ buffer_avg_temp' = buffer_avg_temp
        /\ dataPackets_buffer' = <<>> /\ last_correct_co_value' = last_correct_co_value
        /\ result_packet' = Collector!NoPacket
    BY <1>6 DEF SendsPacket, Collector!SendAndClear, analogVars
  <2>2. Average(Collector!Zero)
    BY DEF Average, Collector!Zero
  <2>3. Average(result_packet.co)' /\ Average(result_packet.temp)'
    BY <2>1, <2>2 DEF Collector!NoPacket
  <2>4. 1..Len(<<>>) = {}
    OBVIOUS
  <2> QED BY <2>1, <2>3, <2>4 DEF NumbersInv
<1>7. CASE WritesDisplay \/ UNCHANGED vars
  BY <1>7 DEF WritesDisplay, vars, collectorVars, analogVars, NumbersInv
<1> QED BY <1>2, <1>3, <1>4, <1>5, <1>6, <1>7 DEF Next

(* At the start all are zero.                                               *)
LEMMA NumbersStart == Init => NumbersInv
<1>1. Average(Collector!Zero)
  BY DEF Average, Collector!Zero
<1>2. 1..Len(<<>>) = {}
  OBVIOUS
<1> QED BY <1>1, <1>2 DEF Init, Collector!Init, AnalogInit, Collector!NoPacket, NumbersInv

(* So the packet for the display is one of numbers.                         *)
LEMMA PacketIsPacket == NumbersInv /\ CollectInv => DisplayPacket \in Packets
<1> SUFFICES ASSUME NumbersInv, CollectInv PROVE DisplayPacket \in Packets
  OBVIOUS
<1>1. \A n \in Int, d \in Nat \ {0} : n \div d \in Int
  OBVIOUS
<1>2. \A a : Average(a) => Whole(a) \in Int
  BY <1>1 DEF Whole, Average
<1>3. Whole(result_packet.co) \in Int /\ Whole(result_packet.temp) \in Int
  BY <1>2 DEF NumbersInv
<1>4. 1 + (Len(earlier) \div DATA_PACKET_BUFFER_SIZE) \in Int
  <2>1. Len(earlier) \in Int
    BY DEF CollectInv, SampleSeq
  <2>2. Len(earlier) \div DATA_PACKET_BUFFER_SIZE \in Int
    BY <1>1, <2>1, CollectorAssumption
  <2> QED BY <2>2
<1> QED BY <1>3, <1>4 DEF DisplayPacket, Packets


(* No step takes a cell away from the display.                              *)
LEMMA CellsStay ==
  ASSUME NEW l, LcdRecord(l), Celled(l), NEW r, NEW n
  PROVE  Celled(Strobe(l, r, n))
<1>1. ASSUME NEW k, LcdRecord(k), Celled(k), NEW hi, NEW lo
      PROVE  Celled(Execute(k, r, hi, lo))
  <2>1. Celled(Write(k, hi, lo))
    <3> DEFINE a == NoAddress(k.at + 1)
               c == IF k.at \in Addresses THEN [k.cell EXCEPT ![k.at] = 16 * hi + lo] ELSE k.cell
    <3>1. Write(k, hi, lo) = [k EXCEPT !.at = a, !.cell = c]
      BY DEF Write
    <3>2. c = [x \in Addresses |-> c[x]]
      BY <1>1 DEF Celled
    <3> HIDE DEF a, c
    <3>3. Write(k, hi, lo).cell = c
      BY <1>1, <3>1 DEF LcdRecord
    <3> QED BY <3>2, <3>3 DEF Celled
  <2>2. Obey(k, hi, lo).cell = k.cell \/ Obey(k, hi, lo).cell = Blanks
    BY <1>1 DEF Obey, LcdRecord
  <2>3. Celled(Obey(k, hi, lo))
    BY <1>1, <2>2 DEF Celled, Blanks
  <2> QED BY <2>1, <2>3 DEF Execute
<1>2. /\ LcdRecord([l EXCEPT !.half = <<>>]) /\ Celled([l EXCEPT !.half = <<>>])
      /\ Celled([l EXCEPT !.half = <<n>>])
  BY DEF LcdRecord, Celled
<1> QED BY <1>1, <1>2 DEF Strobe

(* PageInv is kept, by the steps on the pins,                               *)
LEMMA PagePins ==
  ASSUME PanelInv, PageInv, NEW w \in Writers, Pins(w)
  PROVE  PageInv'
<1>1. /\ todo[w] # <<>> /\ todo'[w] = Tail(todo[w])
      /\ \A v \in Writers \ {w} : todo'[v] = todo[v]
  BY Others DEF PanelInv, Pins
<1>2. UNCHANGED <<display_pc, page, line, current_packet, displayQueue, overwritten>>
  BY DEF Pins
<1>3. Celled(lcd')
  <2>1. CASE cut'
    <3>1. lcd' = Unknown
      BY <2>1 DEF Pins
    <3> QED BY <3>1 DEF Unknown, Celled, Blanks
  <2>2. CASE ~cut'
    <3>1. Head(todo[w]).op \in {"rs", "strobe"} => Celled(lcd')
      BY <2>2, PinsActs, CellsStay DEF PanelInv, PageInv
    <3>2. Head(todo[w]).op \in {"rs", "strobe"}
      <4>1. todo[w] # <<>> /\ (BootPaced(todo[w]) \/ Paced(todo[w]))
        BY <1>1 DEF PanelInv, TodoInv, Writers
      <4>2. \E S : todo[w] \in Seq(S)
        BY <4>1 DEF BootPaced, Paced
      <4>3. Len(todo[w]) \in Nat \ {0} /\ 1 \in 1..Len(todo[w]) /\ Head(todo[w]) = todo[w][1]
        BY <4>1, <4>2
      <4>4. CASE Paced(todo[w])
        BY <4>3, <4>4 DEF Paced
      <4>5. CASE BootPaced(todo[w])
        <5> DEFINE s == todo[w]
                   k == Len(s) - 1
                   step == s[1]
        <5>0. BootPaced(s) /\ Len(s) \in Nat \ {0} /\ 1 \in 1..Len(s) /\ Head(s) = s[1]
          BY <4>3, <4>5
        <5> HIDE DEF s
        <5>1. /\ k \in Nat /\ k <= 28
              /\ k <= 20 => step.op = IF k % 3 = 2 THEN "rs" ELSE "strobe"
              /\ k = 21 => step = StrobeE(2)
              /\ k \in {23, 25, 27} => step = StrobeE(3)
              /\ k \in {22, 24, 26, 28} => step = SetRs(0)
          <6>1. /\ Len(s) <= 29
                /\ k <= 20 => step.op = IF k % 3 = 2 THEN "rs" ELSE "strobe"
                /\ k = 21 => step = StrobeE(2)
                /\ k \in {23, 25, 27} => step = StrobeE(3)
                /\ k \in {22, 24, 26, 28} => step = SetRs(0)
            BY <5>0 DEF BootPaced
          <6>2. k \in Nat /\ k <= 28
            BY <5>0, <6>1
          <6> QED BY <6>1, <6>2
        <5> HIDE DEF k, step
        <5>2. k <= 20 \/ k = 21 \/ k \in {23, 25, 27} \/ k \in {22, 24, 26, 28}
          BY <5>1
        <5>3. step.op \in {"rs", "strobe"}
          BY <5>1, <5>2 DEF StrobeE, SetRs
        <5> QED BY <5>0, <5>3 DEF step, s
      <4> QED BY <4>1, <4>4, <4>5
    <3> QED BY <3>1, <3>2
  <2> QED BY <2>1, <2>2
<1>4. display_pc' \in {"poll", "name"} => todo'["display"] = <<>>
  <2>1. display_pc \in {"poll", "name"} => w # "display"
    BY <1>1 DEF PageInv
  <2> QED BY <1>1, <1>2, <2>1 DEF PageInv, Writers
<1>5. /\ Booting' => Booting
      /\ ~overwritten => todo'["dhcp"] = <<>> /\ todo'["ccs"] = <<>>
  <2>1. todo["main"] = <<>> => todo'["main"] = <<>>
    BY <1>1 DEF Writers
  <2>2. ~overwritten => w # "dhcp" /\ w # "ccs"
    BY <1>1 DEF PageInv
  <2> QED BY <1>1, <1>2, <2>1, <2>2 DEF PageInv, Writers, Booting
<1>6. Lines' = Lines
  BY <1>2 DEF Lines
<1> QED BY <1>2, <1>3, <1>4, <1>5, <1>6 DEF PageInv

(* where display_data_task goes to the next line or page,                   *)
LEMMA PageTurns ==
  ASSUME PanelInv, PageInv, LineInv, SecondLine \/ FirstLine
  PROVE  /\ PageInv' /\ page'.of = page.of /\ line.y # line'.y /\ line'.y = 1 - line.y
         /\ display_pc' = IF page.i = Lines THEN "poll" ELSE "name"
         /\ page.i = Lines => page' = page /\ line.y = 1
         /\ page.i # Lines => page'.i = page.i + 1
<1>1. /\ Still /\ UNCHANGED <<todo, current_packet, displayQueue, overwritten>>
      /\ NextPage /\ NextLine
      /\ todo["display"] = <<>> /\ ~Booting
  BY DEF SecondLine, FirstLine, DisplayRuns
<1>2. /\ page.i \in Nat \ {0} /\ page.i <= Lines /\ Lines \in Nat \ {0} /\ Lines % 2 = 0
      /\ page = [of |-> page.of, i |-> page.i] /\ page.i % 2 = 1 - line.y
      /\ line.y \in {0, 1}
  <2>1. display_pc # "poll"
    BY DEF SecondLine, FirstLine
  <2> QED BY <2>1, LinesEven, Cells DEF PageInv
<1>3. /\ display_pc' = IF page.i = Lines THEN "poll" ELSE "name"
      /\ page' = IF page.i = Lines THEN page ELSE [page EXCEPT !.i = page.i + 1]
  BY <1>1 DEF NextPage, NextLine
<1>4. /\ page' = [of |-> page.of, i |-> page'.i]
      /\ page'.i = IF page.i = Lines THEN page.i ELSE page.i + 1
  BY <1>2, <1>3
<1>5. /\ line'.x = 0 /\ line'.current_line = line'.y
      /\ line'.y = 1 - line.y
      /\ line.y = 0 => page.i # Lines
  <2>1. CASE SecondLine
    <3>1. line.y = 0
      BY <1>2, <2>1 DEF SecondLine, PageInv
    <3>2. line'.y = 1 /\ line'.current_line = line.current_line + 1 /\ line'.x = 0
      BY <2>1 DEF SecondLine
    <3> QED BY <1>2, <3>1, <3>2 DEF PageInv
  <2>2. CASE FirstLine
    <3>1. line.y = 1
      BY <2>2 DEF FirstLine, PageInv
    <3>2. line'.y = 0 /\ line'.current_line = 0 /\ line'.x = 0
      BY <2>2 DEF FirstLine
    <3> QED BY <1>2, <3>1, <3>2
  <2> QED BY <2>1, <2>2
<1>6. page'.of = page.of /\ Lines' = Lines /\ page'.i \in 1..Lines
  BY <1>2, <1>4 DEF Lines
<1>7. IF display_pc' = "poll" THEN line'.y = 0 ELSE page'.i % 2 = 1 - line'.y
  BY <1>2, <1>3, <1>4, <1>5
<1>8. line'.y \in Rows /\ line'.y # line.y
  BY <1>2, <1>5, Cells
<1>9. page'.of \in {"packet", "fields"} /\ page' = [of |-> page'.of, i |-> page'.i]
  BY <1>4, <1>6 DEF PageInv
<1>10. PageInv'
  BY <1>1, <1>3, <1>5, <1>6, <1>7, <1>8, <1>9 DEF PageInv, Still, Booting
<1> QED BY <1>2, <1>3, <1>4, <1>5, <1>6, <1>8, <1>10

(* by its other steps,                                                      *)
LEMMA PageSteps ==
  ASSUME PanelInv, PageInv, LineInv,
         ReceivePacket \/ ShowFields \/ PrintName \/ PrintValue \/ ClearPage
  PROVE  PageInv'
<1>0. /\ ~Booting /\ todo["display"] = <<>> /\ lcd' = lcd /\ line.y \in {0, 1}
      /\ TodoInv /\ "display" \in Writers
  BY Cells DEF ReceivePacket, ShowFields, PrintName, PrintValue, ClearPage, DisplayRuns, Still,
               PageInv, PanelInv, Writers
<1>1. CASE ReceivePacket \/ ShowFields
  <2>1. /\ todo' = todo /\ line' = line /\ overwritten' = overwritten
        /\ display_pc = "poll" /\ display_pc' = "name" /\ lcd' = lcd
        /\ page'.i = 1 /\ page'.of \in {"packet", "fields"}
        /\ page' = [of |-> page'.of, i |-> page'.i]
    BY <1>1 DEF ReceivePacket, ShowFields, Still
  <2>2. Lines' \in Nat \ {0}
    <3>1. Names \in Seq(Nat) /\ Names # <<>> => Len(Names) \in Nat \ {0}
      OBVIOUS
    <3> QED BY <3>1, DisplayAssumption DEF Lines
  <2>3. page'.i \in 1..Lines' /\ page'.i % 2 = 1 - line'.y
    BY <2>1, <2>2 DEF PageInv
  <2>4. current_packet' \in Packets /\ displayQueue' \in Seq(Packets)
    <3>1. CASE ReceivePacket
      <4>1. displayQueue # <<>> /\ displayQueue \in Seq(Packets)
        BY <3>1 DEF ReceivePacket, PageInv
      <4>2. Head(displayQueue) \in Packets /\ Tail(displayQueue) \in Seq(Packets)
        BY <4>1
      <4> QED BY <3>1, <4>2 DEF ReceivePacket
    <3>2. CASE ShowFields
      BY <3>2 DEF ShowFields, PageInv
    <3> QED BY <1>1, <3>1, <3>2
  <2> QED BY <1>0, <2>1, <2>3, <2>4 DEF PageInv, Booting
<1>2. ASSUME NEW steps, todo' = [todo EXCEPT !["display"] = steps] \/ todo' = todo
      PROVE  todo'["dhcp"] = todo["dhcp"] /\ todo'["ccs"] = todo["ccs"] /\ ~Booting'
  <2>1. todo'["dhcp"] = todo["dhcp"] /\ todo'["ccs"] = todo["ccs"] /\ todo'["main"] = todo["main"]
    BY <1>0, <1>2, Others DEF Writers
  <2> QED BY <1>0, <2>1 DEF Booting
<1>3. CASE PrintName
  <2>1. todo'["dhcp"] = todo["dhcp"] /\ todo'["ccs"] = todo["ccs"] /\ ~Booting'
    BY <1>2, <1>3 DEF PrintName, Says
  <2>2. /\ UNCHANGED <<page, line, current_packet, displayQueue, overwritten>>
        /\ display_pc = "name" /\ display_pc' = "value"
    BY <1>3 DEF PrintName
  <2>3. Lines' = Lines
    BY <2>2 DEF Lines
  <2> QED BY <1>0, <2>1, <2>2, <2>3 DEF PageInv
<1>4. CASE PrintValue
  <2> DEFINE text == Text(page.i)
             steps == lcd_print_string_at(text.value, Len(text.name), line.y)
             x == Len(text.name)
  <2>1. /\ todo' = [todo EXCEPT !["display"] = steps] \/ todo' = todo
        /\ line' = [line EXCEPT !.x = x] \/ line' = line
    BY <1>4 DEF PrintValue, Says
  <2> HIDE DEF text, steps, x
  <2>2. todo'["dhcp"] = todo["dhcp"] /\ todo'["ccs"] = todo["ccs"] /\ ~Booting'
    BY <1>2, <2>1
  <2>3. line'.y = line.y /\ line'.current_line = line.current_line
    BY <2>1 DEF LineInv
  <2>4. /\ UNCHANGED <<page, current_packet, displayQueue, overwritten>>
        /\ display_pc = "value" /\ display_pc' = "change"
    BY <1>4 DEF PrintValue
  <2>5. Lines' = Lines
    BY <2>4 DEF Lines
  <2> QED BY <1>0, <2>2, <2>3, <2>4, <2>5 DEF PageInv
<1>5. CASE ClearPage
  <2>1. todo'["dhcp"] = todo["dhcp"] /\ todo'["ccs"] = todo["ccs"] /\ ~Booting'
    BY <1>2, <1>5 DEF ClearPage, Says
  <2>2. /\ UNCHANGED <<page, line, current_packet, displayQueue>>
        /\ ~overwritten' => todo["dhcp"] = <<>> /\ todo["ccs"] = <<>>
        /\ (line.current_line + 1) % 2 = 0
        /\ display_pc = "change" /\ display_pc' = "cleared"
    BY <1>5 DEF ClearPage
  <2>3. Lines' = Lines
    BY <2>2 DEF Lines
  <2>4. line.y = 1
    BY <1>0, <2>2 DEF PageInv
  <2> QED BY <1>0, <2>1, <2>2, <2>3, <2>4 DEF PageInv
<1> QED BY <1>1, <1>3, <1>4, <1>5

(* by dhcp_fsm, by i2c_ccs811sensor and by data_collector.                  *)
LEMMA PageStep ==
  PanelInv /\ LineInv /\ PageInv /\ NumbersInv /\ CollectInv /\ [Next]_vars => PageInv'
<1> SUFFICES ASSUME PanelInv, LineInv, PageInv, NumbersInv, CollectInv, [Next]_vars PROVE PageInv'
  OBVIOUS
<1>1. ASSUME UNCHANGED <<lcd, todo, display_pc, page, line, current_packet, overwritten>>,
             displayQueue' \in Seq(Packets)
      PROVE  PageInv'
  <2>1. Lines' = Lines
    BY <1>1 DEF Lines
  <2> QED BY <1>1, <2>1 DEF PageInv, Booting
<1>2. CASE AnalogRuns \/ Samples \/ SamplesSteadily \/ Computes \/ UNCHANGED vars
  <2>1. UNCHANGED displayVars
    BY <1>2 DEF AnalogRuns, Samples, SamplesSteadily, Computes, vars
  <2> QED BY <1>1, <2>1 DEF displayVars, PageInv
<1>3. CASE SendsPacket
  <2>1. /\ UNCHANGED <<lcd, todo, display_pc, page, line, current_packet, overwritten>>
        /\ displayQueue' = <<DisplayPacket>>
    BY <1>3 DEF SendsPacket
  <2>2. DisplayPacket \in Packets
    BY PacketIsPacket
  <2>3. displayQueue' \in Seq(Packets)
    BY <2>1, <2>2
  <2> QED BY <1>1, <2>1, <2>3
<1>4. CASE DhcpPrints
  <2>1. PICK steps : todo' = [todo EXCEPT !["dhcp"] = steps]
    BY <1>4 DEF DhcpPrints
  <2>2. /\ UNCHANGED <<lcd, display_pc, page, line, current_packet, displayQueue>>
        /\ overwritten' = TRUE
    BY <1>4 DEF DhcpPrints, Still
  <2>3. todo'["display"] = todo["display"] /\ todo'["main"] = todo["main"]
    BY <2>1, Others DEF PanelInv, Writers
  <2>4. Lines' = Lines
    BY <2>2 DEF Lines
  <2> QED BY <2>2, <2>3, <2>4 DEF PageInv, Booting
<1>5. CASE \E w \in Writers : Pins(w)
  BY <1>5, PagePins
<1>6. CASE DisplayTask
  BY <1>6, PageTurns, PageSteps DEF DisplayTask
<1>7. CASE CcsChecks
  <2>1. UNCHANGED <<lcd, display_pc, page, line, current_packet, displayQueue>>
    BY <1>7 DEF CcsChecks
  <2>2. CASE todo' = todo /\ overwritten' = overwritten
    BY <1>1, <2>1, <2>2 DEF PageInv
  <2>3. ASSUME NEW steps, todo' = [todo EXCEPT !["ccs"] = steps], overwritten' = TRUE
        PROVE  PageInv'
    <3>1. todo'["display"] = todo["display"] /\ todo'["main"] = todo["main"]
      BY <2>3, Others DEF PanelInv, Writers
    <3>2. Lines' = Lines
      BY <2>1 DEF Lines
    <3> QED BY <2>1, <2>3, <3>1, <3>2 DEF PageInv, Booting
  <2> QED BY <1>7, <2>2, <2>3 DEF CcsChecks
<1> QED BY <1>2, <1>3, <1>4, <1>5, <1>6, <1>7 DEF Next, WritesDisplay

(* It holds at the start.                                                   *)
LEMMA PageStarts == Init => PageInv
<1> SUFFICES ASSUME Init PROVE PageInv
  OBVIOUS
<1>1. /\ display_pc = "poll" /\ page = [of |-> "fields", i |-> 1]
      /\ line = [x |-> 0, y |-> 0, current_line |-> 0]
      /\ current_packet = NoDigits /\ displayQueue = <<>>
      /\ todo["display"] = <<>> /\ todo["dhcp"] = <<>> /\ todo["ccs"] = <<>>
  BY DEF Init, DisplayInit, TasksStart
<1>2. Celled(lcd)
  <2>1. lcd.cell = Blanks \/ lcd.cell = [a \in Addresses |-> Title]
    BY DEF Init, DisplayInit, Left
  <2> QED BY <2>1 DEF Celled, Blanks
<1>3. 1 \in 1..Lines
  BY LinesEven
<1>4. NoDigits \in Packets /\ <<>> \in Seq(Packets)
  BY DEF NoDigits, Packets
<1> QED BY <1>1, <1>2, <1>3, <1>4, Cells DEF PageInv


(* CellsInv holds at the start,                                             *)
LEMMA CellsStart == Init => CellsInv
<1> SUFFICES ASSUME Init PROVE CellsInv
  OBVIOUS
<1>1. todo["main"] = Boot
  BY DEF Init, DisplayInit, TasksStart
<1>2. Len(todo["main"]) = 29 /\ Ends(todo["main"], 1, 73)
  BY <1>1, BootStarts, BootEnds
<1>3. Booting
  <2>1. Len(<<>>) = 0
    OBVIOUS
  <2> QED BY <1>2, <2>1 DEF Booting
<1>4. 29 \notin 4..5 /\ 29 \notin 1..3 /\ 29 \notin 1..2 /\ ~(29 <= 3)
  OBVIOUS
<1>5. Sending("main", 1, 73, 0)
  BY <1>2, <1>4 DEF Sending
<1> QED BY <1>2, <1>3, <1>4, <1>5 DEF CellsInv

(* while the display is set up,                                             *)
LEMMA CellsBoot ==
  ASSUME PanelInv, PageInv, CellsInv, Pins("main")
  PROVE  CellsInv'
<1> SUFFICES ASSUME ~cut', ~overwritten'
             PROVE  IF Booting' THEN /\ Sending("main", 1, 73, 0)'
                                     /\ Len(todo'["main"]) <= 3 => Cleared'
                    ELSE Shows'
  BY DEF CellsInv
<1> DEFINE m == Len(todo["main"])
           k == Len(todo'["main"])
<1>1. /\ Booting /\ ~cut /\ ~overwritten /\ "main" \in Writers
      /\ todo'["main"] = Tail(todo["main"])
      /\ \A v \in Writers \ {"main"} : todo[v] = <<>>
      /\ display_pc' = display_pc /\ display_pc = "poll"
      /\ \E S : todo["main"] \in Seq(S)
  <2>1. TodoInv /\ "main" \in Writers
    BY DEF PanelInv, Writers
  <2>2. Booting /\ ~cut /\ todo'["main"] = Tail(todo["main"])
    BY <2>1, PinsActs DEF Booting
  <2>3. overwritten' = overwritten /\ display_pc' = display_pc
    BY DEF Pins
  <2> QED BY <2>1, <2>2, <2>3 DEF TodoInv, BootPaced, PageInv, Writers
<1>2. Sending("main", 1, 73, 0) /\ (m <= 3 => Cleared)
  BY <1>1 DEF CellsInv
<1>3. m \in Nat /\ (k > 0 <=> Booting') /\ k \in Nat
  <2>1. PICK S : todo["main"] \in Seq(S)
    BY <1>1
  <2>2. todo["main"] # <<>>
    BY <1>1 DEF Booting
  <2> DEFINE s == todo["main"]
             t == todo'["main"]
  <2>3. s \in Seq(S) /\ t \in Seq(S)
    BY <1>1, <2>1, <2>2
  <2> HIDE DEF s, t
  <2>4. Len(s) \in Nat /\ Len(t) \in Nat /\ (Len(t) > 0 <=> t # <<>>)
    BY <2>3
  <2> QED BY <2>4 DEF s, t, Booting
<1>4. CASE m > 6
  <2>1. Sending("main", 1, 73, 0)' /\ k = m - 1
    BY <1>1, <1>2, <1>4, SendingLong
  <2>2. k > 3
    BY <1>3, <1>4, <2>1
  <2> QED BY <1>3, <2>1, <2>2
<1>5. CASE m <= 6
  <2>1. /\ Sending("main", 1, 73, 0)' /\ k = m - 1 /\ m \in Nat \ {0}
        /\ m \in {2, 3} => lcd'.cell = lcd.cell
        /\ m = 4 => lcd'.cell = Blanks
        /\ m = 1 => lcd'.cell = [lcd.cell EXCEPT ![0] = 73]
    <3>1. 0 \in Addresses /\ 73 \in Int /\ 1 = 1 /\ 0 = 0 /\ m <= 21
      BY <1>3, <1>5, Cells
    <3> QED BY <1>1, <1>2, <1>5, <3>1, SendingStep
  <2> HIDE DEF m, k
  <2>2. k <= 3 => Cleared'
    <3>1. CASE m \in {2, 3}
      BY <1>2, <2>1, <3>1 DEF Cleared
    <3>2. CASE m = 4
      BY <2>1, <3>2, Cells DEF Cleared, Blanks
    <3>3. CASE m = 1
      <4>1. Cleared /\ Celled(lcd) /\ lcd'.cell = [lcd.cell EXCEPT ![0] = 73]
        BY <1>2, <2>1, <3>3 DEF PageInv
      <4>2. \A z \in Addresses \ {0} : lcd'.cell[z] = lcd.cell[z]
        BY <4>1 DEF Celled
      <4> QED BY <4>1, <4>2, Cells DEF Cleared
    <3>4. k <= 3 => m \in {1, 2, 3, 4}
      BY <2>1
    <3> QED BY <3>1, <3>2, <3>3, <3>4
  <2>3. k = 0 => Shows'
    BY <1>1, <2>2 DEF Shows
  <2> QED BY <1>3, <2>1, <2>2, <2>3 DEF k
<1> QED BY <1>3, <1>4, <1>5

(* while display_data_task writes a character,                              *)
LEMMA DisplayWrites ==
  ASSUME PanelInv, PageInv, Pins("display"), ~cut',
         todo["main"] = <<>>, todo["dhcp"] = <<>>, todo["ccs"] = <<>>,
         NEW a \in Addresses, NEW c \in Int,
         Sending("display", 128 + a, c, a), Len(todo["display"]) <= 6
  PROVE  /\ Sending("display", 128 + a, c, a)' /\ Len(todo'["display"]) <= 6
         /\ \A z \in Addresses \ {a} : lcd'.cell[z] = lcd.cell[z]
         /\ todo'["display"] = <<>> => lcd'.cell[a] = c
<1> DEFINE m == Len(todo["display"])
           k == Len(todo'["display"])
           b == 128 + a
<1>1. "display" \in Writers /\ \A v \in Writers \ {"display"} : todo[v] = <<>>
  BY DEF Writers
<1>2. Len(todo["main"]) <= 21 /\ Len(<<>>) = 0
  <2>1. Len(<<>>) = 0
    OBVIOUS
  <2> QED BY <2>1
<1>3. b # 1 /\ b = 128 + a
  BY Cells
<1> HIDE DEF b
<1>4. /\ Sending("display", b, c, a)' /\ m \in Nat \ {0} /\ k = m - 1
      /\ m \in {2, 3, 5, 6} => lcd'.cell = lcd.cell
      /\ m = 4 => lcd'.cell = lcd.cell
      /\ m = 1 => lcd'.cell = [lcd.cell EXCEPT ![a] = c]
  BY <1>1, <1>2, <1>3, SendingStep DEF b
<1>5. m \in 1..6
  <2>1. m \in Nat \ {0} /\ m <= 6
    BY <1>4
  <2> HIDE DEF m
  <2> QED BY <2>1
<1>6. lcd'.cell = lcd.cell \/ lcd'.cell = [lcd.cell EXCEPT ![a] = c]
  BY <1>4, <1>5
<1>7. \A z \in Addresses \ {a} : lcd'.cell[z] = lcd.cell[z]
  BY <1>6 DEF PageInv, Celled
<1>8. todo'["display"] = <<>> => lcd'.cell[a] = c
  <2>1. todo'["display"] = <<>> => k = 0
    BY <1>2
  <2>2. k = 0 => m = 1
    <3> HIDE DEF k, m
    <3> QED BY <1>4
  <2> QED BY <1>4, <2>1, <2>2 DEF PageInv, Celled
<1>9. k <= 6
  BY <1>4, <1>5
<1> QED BY <1>4, <1>7, <1>8, <1>9 DEF b

(* and so keeps CellsInv,                                                   *)
LEMMA CellsDisplay ==
  ASSUME PanelInv, PageInv, CellsInv, Pins("display")
  PROVE  CellsInv'
<1> SUFFICES ASSUME ~cut', ~overwritten' PROVE ~Booting' /\ Shows'
  BY DEF CellsInv
<1>1. /\ ~cut /\ ~overwritten /\ "display" \in Writers
      /\ todo["display"] # <<>> /\ todo["main"] = <<>> /\ ~Booting'
      /\ todo["dhcp"] = <<>> /\ todo["ccs"] = <<>>
      /\ UNCHANGED <<display_pc, page, line, current_packet>>
  <2>1. TodoInv /\ "display" \in Writers /\ "main" \in Writers
    BY DEF PanelInv, Writers
  <2>2. ~cut /\ todo["display"] # <<>> /\ todo'["main"] = todo["main"]
    BY <2>1, PinsActs DEF Booting
  <2>3. /\ overwritten' = overwritten /\ todo["main"] = <<>>
        /\ UNCHANGED <<display_pc, page, line, current_packet>>
    BY DEF Pins, Booting
  <2> QED BY <2>1, <2>2, <2>3 DEF PageInv, Booting
<1>2. Shows /\ display_pc \notin {"poll", "name"} /\ line.y \in {0, 1}
  BY <1>1, Cells DEF CellsInv, Booting, PageInv
<1>3. PICK y : y = line.y
  OBVIOUS
<1>4. PICK n : n = page.i
  OBVIOUS
<1>5. PICK other, row : other = Row(n - 1) /\ row = Row(n)
  OBVIOUS
<1>6. /\ row[0] \in Int /\ row[1] \in Int
  BY <1>4, <1>5, RowIs DEF PageInv
<1>7. /\ y \in {0, 1} /\ page'.i = n /\ line'.y = y
      /\ Row(n - 1)' = other /\ Row(n)' = row
  BY <1>1, <1>2, <1>3, <1>4, <1>5, RowSame
<1>8. ASSUME NEW a \in Addresses, Address(0, y) = a, display_pc = "value"
      PROVE  Shows'
  <2> DEFINE c == row[0]
  <2>1. /\ Sending("display", 128 + a, c, a) /\ Len(todo["display"]) <= 6
        /\ OtherLine /\ \A x \in {1, 2} : lcd.cell[Address(x, y)] = Blank
    BY <1>2, <1>3, <1>4, <1>5, <1>8 DEF Shows
  <2>2. /\ Sending("display", 128 + a, c, a)' /\ Len(todo'["display"]) <= 6
        /\ \A z \in Addresses \ {a} : lcd'.cell[z] = lcd.cell[z]
        /\ todo'["display"] = <<>> => lcd'.cell[a] = c
    BY <1>1, <1>6, <2>1, DisplayWrites
  <2>3. OtherLine'
    BY <1>3, <1>4, <1>5, <1>7, <1>8, <2>1, <2>2, Cells DEF OtherLine
  <2>4. \A x \in {1, 2} : lcd'.cell[Address(x, y)] = Blank
    BY <1>7, <1>8, <2>1, <2>2, Cells
  <2>5. Sending("display", 128 + Address(0, line.y), Row(page.i)[0], Address(0, line.y))'
    BY <1>7, <1>8, <2>2 DEF Sending
  <2>6. todo'["display"] = <<>> => Shown(0, page.i)'
    BY <1>7, <1>8, <2>2 DEF Shown
  <2> QED BY <1>1, <1>7, <1>8, <2>2, <2>3, <2>4, <2>5, <2>6 DEF Shows
<1>9. ASSUME NEW a \in Addresses, Address(1, y) = a, display_pc = "change"
      PROVE  Shows'
  <2> DEFINE c == row[1]
  <2>1. /\ Sending("display", 128 + a, c, a) /\ Len(todo["display"]) <= 6
        /\ OtherLine /\ \A x \in {0, 2} : lcd.cell[Address(x, y)] = row[x]
    BY <1>2, <1>3, <1>4, <1>5, <1>9 DEF Shows, Shown
  <2>2. /\ Sending("display", 128 + a, c, a)' /\ Len(todo'["display"]) <= 6
        /\ \A z \in Addresses \ {a} : lcd'.cell[z] = lcd.cell[z]
        /\ todo'["display"] = <<>> => lcd'.cell[a] = c
    BY <1>1, <1>6, <2>1, DisplayWrites
  <2>3. OtherLine'
    BY <1>3, <1>4, <1>5, <1>7, <1>9, <2>1, <2>2, Cells DEF OtherLine
  <2>4. \A x \in {0, 2} : lcd'.cell[Address(x, y)] = row[x]
    BY <1>7, <1>9, <2>1, <2>2, Cells
  <2>5. Sending("display", 128 + Address(1, line.y), Row(page.i)[1], Address(1, line.y))'
    BY <1>7, <1>9, <2>2 DEF Sending
  <2>6. Shown(0, page.i)' /\ Shown(2, page.i)' /\ (todo'["display"] = <<>> => Shown(1, page.i)')
    BY <1>7, <1>9, <2>2, <2>4 DEF Shown
  <2> QED BY <1>1, <1>7, <1>9, <2>2, <2>3, <2>5, <2>6 DEF Shows
<1>10. CASE display_pc = "cleared"
  <2>1. Clearing' /\ Len(todo'["display"]) \in 0..2
        /\ (Len(todo'["display"]) = 0 => lcd'.cell = Blanks)
    BY <1>1, <1>2, <1>10, ClearingStep DEF Shows
  <2>2. todo'["display"] = <<>> => Cleared'
    <3>1. Len(<<>>) = 0
      OBVIOUS
    <3> QED BY <2>1, <3>1, Cells DEF Cleared, Blanks
  <2>3. Len(todo'["display"]) <= 3
    <3>1. \A k \in 0..2 : k <= 3
      OBVIOUS
    <3> QED BY <2>1, <3>1
  <2> QED BY <1>1, <1>10, <2>1, <2>2, <2>3 DEF Shows
<1>11. Address(0, y) \in Addresses /\ Address(1, y) \in Addresses
  BY <1>7, Cells
<1>12. display_pc \in {"value", "change", "cleared"}
  BY <1>2 DEF PageInv
<1> QED BY <1>1, <1>8, <1>9, <1>10, <1>11, <1>12


(* when it prints a name,                                                   *)
LEMMA CellsName ==
  ASSUME PanelInv, PageInv, CellsInv, PrintName
  PROVE  CellsInv'
<1> SUFFICES ASSUME ~cut', ~overwritten' PROVE ~Booting' /\ Shows'
  BY DEF CellsInv
<1>1. /\ ~cut /\ ~overwritten /\ ~Booting /\ lcd' = lcd
      /\ display_pc = "name" /\ display_pc' = "value"
      /\ todo' = [todo EXCEPT !["display"] = lcd_print_string_at(Text(page.i).name, line.x, line.y)]
      /\ UNCHANGED <<page, line, current_packet>>
  BY DEF PrintName, DisplayRuns, Says, Still
<1>2. Shows /\ line.y \in {0, 1} /\ line.x = 0
  BY <1>1, Cells DEF CellsInv, PageInv
<1>3. ~Booting' /\ todo'["display"] = lcd_print_string_at(Text(page.i).name, line.x, line.y)
  <2>1. TodoInv /\ "display" \in Writers /\ "main" \in Writers
    BY DEF PanelInv, Writers
  <2> QED BY <1>1, <2>1, Others DEF Booting
<1>4. PICK y, n, other, row : y = line.y /\ n = page.i /\ other = Row(n - 1) /\ row = Row(n)
  OBVIOUS
<1>5. /\ y \in {0, 1} /\ page'.i = n /\ line'.y = y
      /\ Row(n - 1)' = other /\ Row(n)' = row
  BY <1>1, <1>2, <1>4, RowSame
<1>6. PICK c \in Int : c = row[0] /\ Text(n).name = <<c>>
  BY <1>4, RowIs DEF PageInv
<1>7. Len(todo'["display"]) = 6 /\ Ends(todo'["display"], 128 + Address(0, y), c)
  <2>1. 0 \in Columns /\ y \in Rows
    BY <1>5, Cells
  <2>2. todo'["display"] = lcd_print_string_at(<<c>>, 0, y)
    BY <1>2, <1>3, <1>4, <1>6
  <2> QED BY <2>1, <2>2, PrintSteps
<1>8. Sending("display", 128 + Address(0, line.y), Row(page.i)[0], Address(0, line.y))'
  <2>1. 6 \notin 4..5 /\ 6 # 4 /\ 6 \notin 1..3 /\ 6 \notin 1..2 /\ 6 # 1
    OBVIOUS
  <2> QED BY <1>5, <1>6, <1>7, <2>1 DEF Sending
<1>9. OtherLine' /\ \A x \in {1, 2} : lcd'.cell[Address(x, y)] = Blank
  <2>1. CASE y = 0
    <3>1. Cleared
      BY <1>1, <1>2, <1>4, <2>1 DEF Shows
    <3> QED BY <1>1, <1>4, <1>5, <2>1, <3>1 DEF Cleared, OtherLine
  <2>2. CASE y = 1
    <3>1. OtherLine /\ \A x \in Columns : lcd.cell[Address(x, 1)] = Blank
      BY <1>1, <1>2, <1>4, <2>2 DEF Shows
    <3> QED BY <1>1, <1>4, <1>5, <2>2, <3>1, Cells DEF OtherLine
  <2> QED BY <1>5, <2>1, <2>2
<1>10. todo'["display"] # <<>> /\ Len(todo'["display"]) <= 6
  <2>1. Len(<<>>) = 0 /\ 6 <= 6 /\ 6 # 0
    OBVIOUS
  <2> QED BY <1>7, <2>1
<1> QED BY <1>1, <1>3, <1>5, <1>8, <1>9, <1>10 DEF Shows

(* a value behind it, or nothing,                                           *)
LEMMA CellsValue ==
  ASSUME PanelInv, PageInv, LineInv, CellsInv, PrintValue
  PROVE  CellsInv'
<1> SUFFICES ASSUME ~cut', ~overwritten' PROVE ~Booting' /\ Shows'
  BY DEF CellsInv
<1> DEFINE text == Text(page.i)
           steps == lcd_print_string_at(text.value, Len(text.name), line.y)
           w == Len(text.name)
<1>1. /\ ~cut /\ ~overwritten /\ ~Booting /\ lcd' = lcd /\ todo["display"] = <<>>
      /\ display_pc = "value" /\ display_pc' = "change"
      /\ IF text.value = <<>> THEN todo' = todo /\ line' = line
         ELSE /\ line' = [line EXCEPT !.x = w]
              /\ todo' = [todo EXCEPT !["display"] = steps]
      /\ UNCHANGED <<page, current_packet>>
  BY DEF PrintValue, DisplayRuns, Says, Still
<1>2. Shows /\ line.y \in {0, 1}
  BY <1>1, Cells DEF CellsInv, PageInv
<1>3. /\ ~Booting' /\ line'.y = line.y
      /\ todo'["display"] = IF text.value = <<>> THEN <<>> ELSE steps
  <2>1. TodoInv /\ "display" \in Writers /\ "main" \in Writers
    BY DEF PanelInv, Writers
  <2> HIDE DEF text, steps, w
  <2>2. line'.y = line.y
    BY <1>1 DEF LineInv
  <2>3. todo'["main"] = todo["main"] /\ todo'["display"] = IF text.value = <<>> THEN <<>> ELSE steps
    BY <1>1, <2>1, Others
  <2> QED BY <1>1, <2>2, <2>3 DEF Booting
<1>4. PICK y, n, other, row : y = line.y /\ n = page.i /\ other = Row(n - 1) /\ row = Row(n)
  OBVIOUS
<1>5. /\ y \in {0, 1} /\ page'.i = n /\ line'.y = y
      /\ Row(n - 1)' = other /\ Row(n)' = row
  BY <1>1, <1>2, <1>3, <1>4, RowSame
<1>6. /\ w = 1 /\ row[1] \in Int /\ row[2] = Blank
      /\ text.value = <<>> => row[1] = Blank
      /\ text.value # <<>> => text.value = <<row[1]>>
  BY <1>4, RowIs DEF PageInv
<1>7. /\ OtherLine /\ lcd.cell[Address(0, y)] = row[0]
      /\ \A x \in {1, 2} : lcd.cell[Address(x, y)] = Blank
  BY <1>1, <1>2, <1>4 DEF Shows, Shown
<1>8. OtherLine' /\ Shown(0, page.i)' /\ Shown(2, page.i)'
  BY <1>1, <1>4, <1>5, <1>6, <1>7 DEF OtherLine, Shown
<1> HIDE DEF w
<1>9. CASE text.value = <<>>
  <2>1. todo'["display"] = <<>> /\ Len(<<>>) = 0 /\ 0 <= 6 /\ 1..0 = {}
    BY <1>3, <1>9
  <2>2. Sending("display", 128 + Address(1, line.y), Row(page.i)[1], Address(1, line.y))'
    <3>1. 0 \notin 4..5 /\ 0 # 4 /\ 0 \notin 1..3 /\ 0 \notin 1..2 /\ 0 # 1
      OBVIOUS
    <3> QED BY <2>1, <3>1 DEF Sending, Ends
  <2>3. Shown(1, page.i)'
    BY <1>1, <1>5, <1>6, <1>7, <1>9 DEF Shown
  <2> QED BY <1>1, <1>3, <1>8, <2>1, <2>2, <2>3 DEF Shows
<1>10. CASE text.value # <<>>
  <2>1. PICK c \in Int : c = row[1] /\ text.value = <<c>>
    BY <1>6, <1>10
  <2>2. Len(todo'["display"]) = 6 /\ Ends(todo'["display"], 128 + Address(1, y), c)
    <3>1. 1 \in Columns /\ y \in Rows
      BY <1>5, Cells
    <3>2. todo'["display"] = lcd_print_string_at(<<c>>, 1, y)
      BY <1>3, <1>4, <1>6, <1>10, <2>1 DEF w
    <3> QED BY <3>1, <3>2, PrintSteps
  <2>3. Sending("display", 128 + Address(1, line.y), Row(page.i)[1], Address(1, line.y))'
    <3>1. 6 \notin 4..5 /\ 6 # 4 /\ 6 \notin 1..3 /\ 6 \notin 1..2 /\ 6 # 1
      OBVIOUS
    <3> QED BY <1>5, <2>1, <2>2, <3>1 DEF Sending
  <2>4. todo'["display"] # <<>> /\ Len(todo'["display"]) <= 6
    <3>1. Len(<<>>) = 0 /\ 6 <= 6 /\ 6 # 0
      OBVIOUS
    <3> QED BY <2>2, <3>1
  <2> QED BY <1>1, <1>3, <1>8, <2>3, <2>4 DEF Shows
<1> QED BY <1>9, <1>10

(* and goes to the next line,                                               *)
LEMMA CellsTurn ==
  ASSUME PanelInv, PageInv, LineInv, CellsInv, SecondLine \/ FirstLine
  PROVE  CellsInv'
<1> SUFFICES ASSUME ~cut', ~overwritten' PROVE ~Booting' /\ Shows'
  BY DEF CellsInv
<1>1. /\ ~cut /\ ~overwritten /\ ~Booting /\ lcd' = lcd /\ todo["display"] = <<>>
      /\ todo' = todo /\ current_packet' = current_packet
  BY DEF SecondLine, FirstLine, DisplayRuns, Still
<1>2. Shows /\ line.y \in {0, 1} /\ ~Booting'
  BY <1>1, Cells DEF CellsInv, PageInv, Booting
<1>3. /\ page'.of = page.of /\ line'.y = 1 - line.y
      /\ display_pc' = IF page.i = Lines THEN "poll" ELSE "name"
      /\ page.i = Lines => line.y = 1
      /\ page.i # Lines => page'.i = page.i + 1
  BY PageTurns
<1>4. CASE FirstLine
  <2>1. display_pc = "cleared" /\ line'.y = 0
    BY <1>4 DEF FirstLine
  <2>2. Cleared'
    BY <1>1, <1>2, <2>1 DEF Shows, Cleared
  <2> QED BY <1>2, <1>3, <2>1, <2>2 DEF Shows
<1>5. CASE SecondLine
  <2>1. display_pc = "change" /\ line'.y = 1
    BY <1>5 DEF SecondLine
  <2>2. line.y = 0
    BY <1>2, <1>3, <2>1
  <2>3. page.i # Lines /\ display_pc' = "name" /\ page'.i = page.i + 1 /\ page.i \in Int
    BY <1>3, <2>2, LinesEven DEF PageInv
  <2>4. PICK n, row : n \in Int /\ n = page.i /\ row = Row(n)
    BY <2>3
  <2>5. page'.i - 1 = n /\ Row(n)' = row
    BY <1>1, <1>3, <2>3, <2>4, RowSame
  <2>6. /\ \A x \in {0, 1, 2} : lcd.cell[Address(x, 0)] = row[x]
        /\ \A x \in Columns : lcd.cell[Address(x, 1)] = Blank
    BY <1>1, <1>2, <2>1, <2>2, <2>4 DEF Shows, Shown, OtherLine
  <2>7. OtherLine'
    BY <1>1, <2>1, <2>5, <2>6, Cells DEF OtherLine
  <2> QED BY <1>1, <1>2, <2>1, <2>3, <2>6, <2>7 DEF Shows
<1> QED BY <1>4, <1>5

(* clears the page,                                                         *)
LEMMA CellsClear ==
  ASSUME PanelInv, PageInv, CellsInv, ClearPage
  PROVE  CellsInv'
<1>1. /\ ~Booting /\ display_pc' = "cleared"
      /\ todo' = [todo EXCEPT !["display"] = lcd_clear]
  BY DEF ClearPage, DisplayRuns, Says
<1>2. todo'["display"] = lcd_clear /\ ~Booting'
  <2>1. TodoInv /\ "display" \in Writers /\ "main" \in Writers
    BY DEF PanelInv, Writers
  <2> QED BY <1>1, <2>1, Others DEF Booting
<1>3. /\ Len(todo'["display"]) = 3
      /\ \A n \in 1..3 : todo'["display"][n] = StepLeft(1, 0, 7 - n)
  BY <1>2, ClearSteps
<1>4. Clearing'
  <2>1. 3 \notin 1..2 /\ 3 # 1 /\ \A n \in 1..3 : 4 + 3 - n = 7 - n
    OBVIOUS
  <2> QED BY <1>3, <2>1 DEF Clearing
<1>5. todo'["display"] # <<>> /\ Len(todo'["display"]) <= 3
  <2>1. Len(<<>>) = 0 /\ 3 <= 3 /\ 3 # 0
    OBVIOUS
  <2> QED BY <1>3, <2>1
<1>6. Shows'
  BY <1>1, <1>4, <1>5 DEF Shows
<1> QED BY <1>2, <1>6 DEF CellsInv

(* begins with a packet or with its fields,                                 *)
LEMMA CellsTake ==
  ASSUME PageInv, CellsInv, ReceivePacket \/ ShowFields
  PROVE  CellsInv'
<1>1. /\ ~Booting /\ display_pc = "poll" /\ display_pc' = "name" /\ todo' = todo
      /\ lcd' = lcd /\ line' = line /\ cut' = cut /\ overwritten' = overwritten
  BY DEF ReceivePacket, ShowFields, DisplayRuns, Still
<1>2. line.y = 0
  BY <1>1 DEF PageInv
<1>3. ASSUME ~cut, ~overwritten PROVE Shows'
  <2>1. Cleared
    BY <1>1, <1>3 DEF CellsInv, Shows
  <2>2. Cleared'
    BY <1>1, <2>1 DEF Cleared
  <2> QED BY <1>1, <1>2, <2>2 DEF Shows
<1> QED BY <1>1, <1>3 DEF CellsInv, Booting

(* and where neither the display nor its task is concerned.                 *)
LEMMA CellsUnmoved ==
  ASSUME CellsInv, UNCHANGED <<lcd, rs, todo, display_pc, page, line, current_packet, cut, overwritten>>
  PROVE  CellsInv'
<1>1. \A n : Row(n)' = Row(n)
  BY RowSame
<1>2. /\ Cleared => Cleared'
      /\ OtherLine => OtherLine'
      /\ Clearing => Clearing'
      /\ \A x : Shown(x, page.i) => Shown(x, page.i)'
  BY <1>1 DEF Cleared, OtherLine, Clearing, Shown
<1>3. \A w, b, c, a : Sending(w, b, c, a) => Sending(w, b, c, a)'
  BY DEF Sending
<1>4. \A x : Sending("display", 128 + Address(x, line.y), Row(page.i)[x], Address(x, line.y))
             => Sending("display", 128 + Address(x, line.y), Row(page.i)[x], Address(x, line.y))'
  BY <1>1 DEF Sending
<1>5. Shows => Shows'
  BY <1>1, <1>2, <1>4 DEF Shows
<1> QED BY <1>2, <1>3, <1>5 DEF CellsInv, Booting

(* So every step keeps it.                                                  *)
LEMMA CellsStep ==
  PanelInv /\ LineInv /\ PageInv /\ CellsInv /\ [Next]_vars => CellsInv'
<1> SUFFICES ASSUME PanelInv, LineInv, PageInv, CellsInv, [Next]_vars PROVE CellsInv'
  OBVIOUS
<1>1. CASE AnalogRuns \/ Samples \/ SamplesSteadily \/ Computes \/ UNCHANGED vars
  <2>1. UNCHANGED displayVars
    BY <1>1 DEF AnalogRuns, Samples, SamplesSteadily, Computes, vars
  <2> QED BY <2>1, CellsUnmoved DEF displayVars
<1>2. CASE SendsPacket
  BY <1>2, CellsUnmoved DEF SendsPacket
<1>3. CASE DhcpPrints
  BY <1>3 DEF DhcpPrints, CellsInv
<1>4. CASE Pins("main")
  BY <1>4, CellsBoot
<1>5. CASE Pins("display")
  BY <1>5, CellsDisplay
<1>6. CASE Pins("dhcp") \/ Pins("ccs")
  <2>1. overwritten
    BY <1>6 DEF Pins, PageInv
  <2> QED BY <1>6, <2>1 DEF Pins, CellsInv
<1>7. CASE DisplayTask
  BY <1>7, CellsName, CellsValue, CellsTurn, CellsClear, CellsTake DEF DisplayTask
<1>8. CASE CcsChecks
  <2>1. UNCHANGED <<lcd, rs, cut, display_pc, page, line, current_packet>>
    BY <1>8 DEF CcsChecks
  <2>2. (todo' = todo /\ overwritten' = overwritten) \/ overwritten' = TRUE
    BY <1>8 DEF CcsChecks
  <2>3. CASE overwritten' = TRUE
    BY <2>3 DEF CellsInv
  <2> QED BY <2>1, <2>2, <2>3, CellsUnmoved
<1> QED BY <1>1, <1>2, <1>3, <1>4, <1>5, <1>6, <1>7, <1>8 DEF Next, WritesDisplay, Writers

(* What AnalogTemp's part of a step is.                                     *)
LEMMA AnalogMoves == [Next]_vars => [AnalogStep]_analogVars
BY DEF Next, AnalogRuns, Samples, SamplesSteadily, Computes, SendsPacket, WritesDisplay, analogVars, vars

(* In every behaviour, when both lines of a page are written it shows what  *)
(* belongs to it and nothing else: the title and the number of the packet,  *)
(* or two fields, each its value behind its own name -- whatever a reset    *)
(* has left on the display, unless dhcp_fsm or, before the first page,      *)
(* i2c_ccs811sensor has written in between, or a byte has been cut.         *)
THEOREM PageShowsItsValues == Spec => []PageWhole
<1> DEFINE Inv == /\ PanelInv /\ LineInv /\ PageInv /\ CellsInv
                  /\ AnalogInv /\ CollectInv /\ NumbersInv
<1>1. Init => Inv
  <2>1. Init => AnalogInv
    BY MeanStarts DEF Init
  <2> QED BY <2>1, Started, PageStarts, CellsStart, CollectStarts, NumbersStart
<1>2. Inv /\ [Next]_vars => Inv'
  <2> SUFFICES ASSUME Inv, [Next]_vars PROVE Inv'
    OBVIOUS
  <2>1. [AnalogStep]_analogVars
    BY AnalogMoves
  <2> QED BY <2>1, PanelStep, PageStep, CellsStep, MeanStep, CollectStep, NumbersStep
<1>3. Inv => PageWhole
  <2> SUFFICES ASSUME Inv, display_pc = "change", todo["display"] = <<>>, line.y = 1,
                      ~overwritten, ~cut
               PROVE  \A x \in Columns : /\ lcd.cell[Address(x, 0)] = Row(page.i - 1)[x]
                                         /\ lcd.cell[Address(x, 1)] = Row(page.i)[x]
    BY DEF PageWhole
  <2>1. ~Booting
    BY DEF PageInv
  <2>2. OtherLine /\ Shown(0, page.i) /\ Shown(1, page.i) /\ Shown(2, page.i)
    BY <2>1 DEF CellsInv, Shows
  <2> QED BY <2>2, Cells DEF OtherLine, Shown
<1> QED BY <1>1, <1>2, <1>3, PTL DEF Spec

-----------------------------------------------------------------------------
(* The I2C handle. *)

Active == \E t \in Sensors : phase[t] = "active"
Initialising == \E t \in Sensors : i2c_pc[t] = "initialising"

(* A handle that is busy or locked is so because of a task inside, but for  *)
(* the wait for the BUSY flag that frees it under another task; until the   *)
(* first task has initialised it nobody else is past that.                  *)
HandleInv ==
  /\ DOMAIN i2c_pc = BusTasks /\ DOMAIN phase = Sensors
  /\ State \in {"RESET", "READY", "BUSY"} /\ Lock \in BOOLEAN
  /\ State = "RESET" => \A t \in Sensors : i2c_pc[t] = "init"
  /\ State = "BUSY" => Active \/ Initialising
  /\ Lock => Active

LEMMA BusStarts == BusInit => HandleInv
BY DEF BusInit, HandleInv, BusTasks, Sensors

LEMMA StepNames ==
  /\ Steps(BmeSetup) \intersect {"init", "initialising"} = {}
  /\ Steps(CcsSetup) \intersect {"init", "initialising"} = {}
<1>1. DOMAIN BmeSetup = 1..8 /\ DOMAIN CcsSetup = 1..4
  BY DEF BmeSetup, CcsSetup
<1>2. \A k \in 1..8 : BmeSetup[k] \notin {"init", "initialising"}
  BY DEF BmeSetup
<1>3. \A k \in 1..4 : CcsSetup[k] \notin {"init", "initialising"}
  BY DEF CcsSetup
<1> QED BY <1>1, <1>2, <1>3 DEF Steps

LEMMA TransferNames == Transfers \intersect {"init", "initialising"} = {}
BY StepNames DEF Transfers, BmeTransfers, CcsTransfers

-----------------------------------------------------------------------------

(* Steps outside the HAL change neither the handle nor who is inside.       *)
LEMMA Outside ==
  ASSUME HandleInv, UNCHANGED <<State, Lock>>,
         DOMAIN phase' = Sensors,
         \A t \in Sensors : phase[t] = "active" <=> phase'[t] = "active",
         NEW u \in BusTasks, i2c_pc[u] \notin {"init", "initialising"},
         NEW step, i2c_pc' = [i2c_pc EXCEPT ![u] = step]
  PROVE  HandleInv'
<1>1. DOMAIN i2c_pc' = BusTasks
  BY DEF HandleInv
<1>2. State = "RESET" => u \notin Sensors
  BY DEF HandleInv
<1>3. State = "RESET" => \A t \in Sensors : i2c_pc'[t] = "init"
  BY <1>2 DEF HandleInv, BusTasks
<1>4. Active => Active'
  BY DEF Active
<1>5. Initialising => Initialising'
  BY DEF Initialising, HandleInv, BusTasks
<1> QED BY <1>1, <1>3, <1>4, <1>5 DEF HandleInv

LEMMA HalStep ==
  ASSUME HandleInv, NEW t \in Sensors, Hal(t)
  PROVE  HandleInv'
<1>0. t \in BusTasks
  BY DEF BusTasks
<1>1. CASE BeginInit(t)
  <2>1. /\ i2c_pc' = [i2c_pc EXCEPT ![t] = "initialising"] /\ State' = "BUSY" /\ UNCHANGED phase
        /\ Lock' = (State # "RESET" /\ Lock)
    BY <1>1 DEF BeginInit
  <2>2. Initialising'
    BY <1>0, <2>1 DEF Initialising, HandleInv
  <2>3. Lock' => Active'
    BY <2>1 DEF HandleInv, Active
  <2> QED BY <2>1, <2>2, <2>3 DEF HandleInv
<1>2. CASE EndInit(t)
  <2>1. /\ State' = "READY" /\ UNCHANGED <<Lock, phase>> /\ DOMAIN i2c_pc' = DOMAIN i2c_pc
    BY <1>2 DEF EndInit
  <2> QED BY <2>1 DEF HandleInv, Active
<1>3. CASE FindReady(t) \/ FindBusy(t) \/ FindUnlocked(t) \/ FindLocked(t)
  <2>1. /\ UNCHANGED <<State, Lock, i2c_pc>> /\ phase[t] # "active"
        /\ \E b \in {"ready", "unlocked", "over"} : phase' = [phase EXCEPT ![t] = b]
    BY <1>3 DEF FindReady, FindBusy, FindUnlocked, FindLocked, Refuse, Phase
  <2> QED BY <2>1 DEF HandleInv, Active, Initialising
<1>4. CASE FlagStaysBusy(t) \/ Complete(t) \/ GiveUp(t)
  <2>1. State' = "READY" /\ Lock' = FALSE /\ UNCHANGED i2c_pc /\ DOMAIN phase' = DOMAIN phase
    BY <1>4 DEF FlagStaysBusy, Complete, GiveUp, Phase
  <2> QED BY <2>1 DEF HandleInv
<1>5. CASE Enter(t)
  <2>1. /\ State' = "BUSY" /\ Lock' = TRUE /\ UNCHANGED i2c_pc
        /\ phase' = [phase EXCEPT ![t] = "active"]
    BY <1>5 DEF Enter, Phase
  <2>2. Active'
    BY <2>1 DEF Active, HandleInv
  <2> QED BY <2>1, <2>2 DEF HandleInv
<1> QED BY <1>1, <1>2, <1>3, <1>4, <1>5 DEF Hal

LEMMA ReturnStep ==
  ASSUME HandleInv, NEW t \in Sensors, NEW place, place \notin {"init", "initialising"},
         Returned(t, place), NEW step, Goto(t, step)
  PROVE  HandleInv'
<1>1. t \in BusTasks /\ i2c_pc[t] \notin {"init", "initialising"} /\ i2c_pc' = [i2c_pc EXCEPT ![t] = step]
  BY DEF Returned, Goto, BusTasks
<1>2. /\ UNCHANGED <<State, Lock>> /\ phase[t] # "active"
      /\ phase' = [phase EXCEPT ![t] = "none"]
  BY DEF Returned
<1>3. DOMAIN phase' = Sensors /\ \A u \in Sensors : phase[u] = "active" <=> phase'[u] = "active"
  BY <1>2 DEF HandleInv
<1> QED BY <1>1, <1>2, <1>3, Outside

LEMMA TaskStep ==
  ASSUME HandleInv,
         \/ CreateBmeMutex \/ TakeBmeMutex \/ StoreBme \/ GiveBmeMutex
         \/ CreateCcsMutex \/ StoreResult \/ GiveCcsMutex \/ ReadingsTask
  PROVE  HandleInv'
<1>1. UNCHANGED <<State, Lock, phase>>
  BY DEF CreateBmeMutex, TakeBmeMutex, StoreBme, GiveBmeMutex, CreateCcsMutex, StoreResult,
         GiveCcsMutex, ReadingsTask, GetBme, CopyBme, GetCo2, CopyCo2, bus
<1>2. \E u \in BusTasks : /\ i2c_pc[u] \notin {"init", "initialising"}
                       /\ \E step \in {"take", "data", "give", "alg_status", "co2", "bme",
                                       "bme_copy", "co2_copy"} :
                            i2c_pc' = [i2c_pc EXCEPT ![u] = step]
  BY DEF CreateBmeMutex, TakeBmeMutex, StoreBme, GiveBmeMutex, CreateCcsMutex, StoreResult,
         GiveCcsMutex, ReadingsTask, GetBme, CopyBme, GetCo2, CopyCo2, Goto, BusTasks, Sensors
<1> QED BY <1>1, <1>2, Outside DEF HandleInv

LEMMA BusStep == HandleInv /\ [BusNext]_busVars => HandleInv'
<1> SUFFICES ASSUME HandleInv, [BusNext]_busVars PROVE HandleInv'
  OBVIOUS
<1>1. "bme280" \in Sensors /\ "ccs811" \in Sensors
  BY DEF Sensors
<1>2. CASE \E step \in Steps(BmeSetup) : BmeStep(step)
  <2>1. PICK place \in Steps(BmeSetup) : BmeStep(place)
    BY <1>2
  <2>2. Returned("bme280", place) /\ \E step : Goto("bme280", step)
    BY <2>1 DEF BmeStep
  <2> QED BY <1>1, <2>2, StepNames, ReturnStep
<1>3. CASE \E step \in Steps(CcsSetup) : CcsStep(step)
  <2>1. PICK place \in Steps(CcsSetup) : CcsStep(place)
    BY <1>3
  <2>2. Returned("ccs811", place) /\ \E step : Goto("ccs811", step)
    BY <2>1 DEF CcsStep
  <2> QED BY <1>1, <2>2, StepNames, ReturnStep
<1>4. CASE ReadData \/ ReadStatus \/ ReadResult
  <2>1. \E t \in Sensors, place \in {"data", "alg_status", "alg_result"} :
          Returned(t, place) /\ \E step : Goto(t, step)
    BY <1>1, <1>4 DEF ReadData, ReadStatus, ReadResult
  <2> QED BY <2>1, ReturnStep
<1>5. CASE UNCHANGED busVars
  BY <1>5 DEF busVars, bus, HandleInv, Active, Initialising
<1> QED
  BY <1>1, <1>2, <1>3, <1>4, <1>5, HalStep, TaskStep
  DEF BusNext, BmeTask, CcsTask

(* bmp280.c, i2c_ccs811sensor.c and the HAL: with nobody inside the handle  *)
(* is ready and unlocked, whatever both tasks have done to each other's     *)
(* transfers: refused them, freed the handle under them, or initialised the *)
(* peripheral in their middle.                                              *)
THEOREM HandleIsReleased == BusSpec => []BusReleased
<1>1. HandleInv => BusReleased
  BY DEF HandleInv, Active, Initialising, BusReleased, Sensors
<1> QED BY BusStarts, BusStep, <1>1, PTL DEF BusSpec
=============================================================================

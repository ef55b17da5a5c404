------------------------------ MODULE UartSensors ------------------------------
(***************************************************************************)
(* uart_sensors.c: one task reads all gas and dust sensors through one     *)
(* half-duplex UART and a multiplexer.  DMA stores what arrives; when the  *)
(* line falls idle an interrupt (re)starts a software timer, and when that *)
(* expires its callback tells the task how much has arrived.  The task     *)
(* waits for that with a timeout.  data_collector copies the readings.     *)
(*                                                                         *)
(* FreeRTOS's timer task has priority 2, the other two have 1.  The timer  *)
(* functions only queue commands for it.  Time is abstracted: a timer that *)
(* runs, and a wait, may end at any moment.                                *)
(*                                                                         *)
(* What a sensor sends is a chunk: a packet, or the part of one that was   *)
(* left when the receiver was switched on.                                 *)
(***************************************************************************)
EXTENDS Naturals, Sequences

CONSTANTS
  Order,        \* the sensors, in the order the task reads them
  Spec_sensors, \* those that answer a request (SPEC); the others send by themselves
  Values,       \* what a SPEC packet may report; the values of the others are
                \* single numbers, which cannot mix, and not told apart
  QueueLength,  \* configTIMER_QUEUE_LENGTH
  Bursts        \* bound: chunks a sensor sends while it is being read

Sensors == {Order[i] : i \in DOMAIN Order}

ASSUME UartAssumption ==
  /\ Order \in Seq(Sensors) /\ Len(Order) > 0
  /\ Spec_sensors \subseteq Sensors
  /\ 0 \in Values
  /\ Bursts \in Nat \ {0}
  /\ QueueLength \in Nat /\ QueueLength > Bursts

VARIABLES
  turn,      \* index of the sensor being read
  pc,        \* where uart_sensors is
  mux,       \* the sensor whose line the multiplexer connects, or "off"
  receiver,  \* the UART's receiver and its idle interrupt are on
  dma,       \* the DMA stream is enabled
  buf,       \* uart3IncomingDataBuffer: the chunks in it
  asked,     \* SPEC sensors that owe an answer
  sent,      \* chunks sent during this reading
  timer,     \* timer_SPEC_ISR: "stopped", "running" or "expired"
  timerOf,   \* history: whose chunk (re)started the timer
  commands,  \* the timer task's queue
  daemon,    \* where the timer task is: "idle" or in the callback
  counted,   \* dma_data_length in the callback, in chunks
  notified,  \* the task's notification value, and whom it is about
  woken,     \* a notification has ended the wait
  rx,        \* rx_len, in the same form
  reading,   \* the stored values of each sensor: two fields for SPEC
  error,     \* error_reason of each SPEC sensor
  spec_mutex,\* who holds SPEC_mutex
  collector, \* where data_collector is in get_spec_values
  sample     \* what it has copied of each SPEC sensor

uart == <<mux, receiver, dma, buf, asked, sent>>
timers == <<timer, timerOf, commands, daemon, counted>>
notes == <<notified, woken, rx>>
store == <<reading, error>>
collects == <<collector, sample>>
vars == <<turn, pc, uart, timers, notes, store, spec_mutex, collects>>

dev == Order[turn]
IsSpec == dev \in Spec_sensors

(* "good": a packet that passes every check; "part": too short or with the  *)
(* wrong header; for SPEC also a text without a divider, and one with the   *)
(* serial number of another sensor.                                         *)
Kinds(s) == IF s \in Spec_sensors THEN {"good", "part", "corrupt", "foreign"} ELSE {"good", "part"}
Chunk == [from : Sensors, kind : {"good", "part", "corrupt", "foreign"}, value : Values]

Note == [count : 0..Bursts, of : Sensors]
Nothing == [count |-> 0, of |-> Order[1]]

Fields == {"ppb", "rest"}

UartTypeOK ==
  /\ turn \in DOMAIN Order
  /\ pc \in {"start", "ask", "listen", "resume", "dma", "wait", "blocked", "release", "stop",
             "off", "check", "serial", "lock", "ppb", "rest", "clear"}
  /\ mux \in Sensors \union {"off"}
  /\ receiver \in BOOLEAN /\ dma \in BOOLEAN
  /\ buf \in Seq(Chunk) /\ Len(buf) <= Bursts
  /\ asked \subseteq Spec_sensors
  /\ sent \in 0..Bursts
  /\ timer \in {"stopped", "running", "expired"}
  /\ timerOf \in Sensors
  /\ commands \in Seq({"reset", "stop"}) /\ Len(commands) <= QueueLength
  /\ daemon \in {"idle", "count", "stop", "notify"}
  /\ counted \in 0..Bursts
  /\ notified \in Note /\ woken \in BOOLEAN /\ rx \in Note
  /\ reading \in [Sensors -> [Fields -> Values]]
  /\ error \in [Spec_sensors -> {0, 1, 2, 3, 4}]
  /\ spec_mutex \in {"free", "uart", "collector"}
  /\ collector \in {"away", "ppb", "rest"}
  /\ sample \in [Spec_sensors -> [Fields -> Values]]

Blank == [f \in Fields |-> 0]

Init ==
  /\ turn = 1 /\ pc = "start"
  /\ mux = "off" /\ receiver = FALSE /\ dma = FALSE
  /\ buf = <<>> /\ asked = {} /\ sent = 0
  /\ timer = "stopped" /\ timerOf = Order[1] /\ commands = <<>>
  /\ daemon = "idle" /\ counted = 0
  /\ notified = Nothing /\ woken = FALSE /\ rx = Nothing
  /\ reading = [s \in Sensors |-> Blank]
  /\ error = [s \in Spec_sensors |-> 0]
  /\ spec_mutex = "free" /\ collector = "away"
  /\ sample = [s \in Spec_sensors |-> Blank]

-----------------------------------------------------------------------------
(* Scheduling: between the request to a SPEC sensor and the moment the      *)
(* receiver listens the task keeps the scheduler suspended.                 *)

SuspendedBug == FALSE
Suspended == pc \in {"listen", "resume"}
DaemonReady == daemon # "idle" \/ timer = "expired" \/ commands # <<>>
DaemonRuns == DaemonReady /\ ~Suspended
TaskAt(l) == pc = l /\ ~DaemonRuns
CollectorRuns == ~DaemonRuns /\ ~Suspended

Goto(l) == pc' = l /\ UNCHANGED turn

-----------------------------------------------------------------------------
(* The sensors *)

(* What arrives while the receiver listens on that line goes to the buffer, *)
(* and the idle line that follows restarts the timer; xTimerResetFromISR    *)
(* fails when the queue is full.                                            *)
Arrive(s, kind, v) ==
  /\ IF mux = s /\ receiver /\ dma
     THEN buf' = Append(buf, [from |-> s, kind |-> kind, value |-> v])
     ELSE UNCHANGED buf
  /\ IF mux = s /\ receiver /\ Len(commands) < QueueLength
     THEN commands' = Append(commands, "reset") /\ timerOf' = s
     ELSE UNCHANGED <<commands, timerOf>>
  /\ UNCHANGED <<turn, pc, mux, receiver, dma, timer, daemon, counted, notes, store,
                 spec_mutex, collects>>

SendsByItself(kind) ==
  /\ mux = dev /\ ~IsSpec /\ receiver /\ sent < Bursts
  /\ sent' = sent + 1
  /\ Arrive(dev, kind, 0)
  /\ UNCHANGED asked

(* A SPEC sensor takes longer to answer than the task to start listening    *)
(* when it is not interrupted by other tasks.                               *)
Answers(s, kind, v) ==
  /\ s \in asked /\ ~Suspended
  /\ asked' = asked \ {s}
  /\ Arrive(s, kind, v)
  /\ UNCHANGED sent

-----------------------------------------------------------------------------
(* The timer task *)

TimerExpires ==
  /\ timer = "running"
  /\ timer' = "expired"
  /\ UNCHANGED <<turn, pc, uart, timerOf, commands, daemon, counted, notes, store,
                 spec_mutex, collects>>

DaemonStep(a, b) ==
  /\ DaemonRuns /\ daemon = a /\ daemon' = b
  /\ UNCHANGED <<turn, pc, uart, rx, store, spec_mutex, collects>>

ProcessCommand ==
  /\ DaemonStep("idle", "idle")
  /\ commands # <<>>
  /\ timer' = IF Head(commands) = "reset" THEN "running" ELSE "stopped"
  /\ commands' = Tail(commands)
  /\ UNCHANGED <<timerOf, counted, notified, woken>>

CallbackBegins ==
  /\ DaemonStep("idle", "count")
  /\ timer = "expired"
  /\ timer' = "stopped"
  /\ UNCHANGED <<timerOf, commands, counted, notified, woken>>

(* vTimerCallback_SPEC reads the DMA counter, *)
CountBytes ==
  /\ DaemonStep("count", "stop")
  /\ counted' = Len(buf)
  /\ UNCHANGED <<timer, timerOf, commands, notified, woken>>

(* stops the timer -- waiting, if need be, for room in the queue that only  *)
(* the timer task itself empties --                                         *)
CallbackStops ==
  /\ DaemonStep("stop", "notify")
  /\ Len(commands) < QueueLength
  /\ commands' = Append(commands, "stop")
  /\ UNCHANGED <<timer, timerOf, counted, notified, woken>>

(* and sets the task's notification value. *)
Notify ==
  /\ DaemonStep("notify", "idle")
  /\ notified' = [count |-> counted, of |-> timerOf]
  /\ woken' = TRUE
  /\ UNCHANGED <<timer, timerOf, commands, counted>>

-----------------------------------------------------------------------------
(* uart_sensors *)

(* uart_enable_rx, uart_enable_rx_sds_hcho: old notifications are dropped. *)
ListenBug ==
  /\ mux' = dev /\ receiver' = TRUE
  /\ woken' = FALSE
  /\ UNCHANGED <<asked, sent, buf, notified, rx>>

Listen ==
  /\ mux' = dev /\ receiver' = TRUE
  /\ notified' = Nothing /\ woken' = FALSE
  /\ UNCHANGED <<asked, sent, buf, rx>>

StartReading ==
  /\ TaskAt("start")
  /\ sent' = 0
  /\ IF IsSpec
     THEN /\ error' = [error EXCEPT ![dev] = 0]
          /\ mux' = dev                         \* its TX line
          /\ Goto("ask")
     ELSE Goto("dma") /\ UNCHANGED <<error, mux>>
  /\ UNCHANGED <<receiver, dma, buf, asked, timers, notes, reading, spec_mutex, collects>>

(* The request is sent, or HAL_UART_Transmit fails. *)
Ask ==
  /\ TaskAt("ask")
  /\ \/ asked' = asked \union {dev} /\ Goto("listen") /\ UNCHANGED error
     \/ error' = [error EXCEPT ![dev] = 1] /\ Goto("release") /\ UNCHANGED asked
  /\ UNCHANGED <<mux, receiver, dma, buf, sent, timers, notes, reading, spec_mutex, collects>>

(* For SPEC, DMA comes before the receiver and the scheduler is suspended. *)
ListenForAnswer ==
  /\ TaskAt("listen")
  /\ \/ Listen /\ dma' = TRUE /\ Goto("resume") /\ UNCHANGED error
     \/ error' = [error EXCEPT ![dev] = 1] /\ Goto("release")
        /\ UNCHANGED <<uart, notes>>
  /\ UNCHANGED <<timers, reading, spec_mutex, collects>>

Resume ==
  /\ TaskAt("resume")
  /\ Goto("wait")
  /\ UNCHANGED <<uart, timers, notes, store, spec_mutex, collects>>

(* The other sensors: the receiver first, then DMA, which may time out. *)
ListenToStream ==
  /\ TaskAt("dma")
  /\ \/ ~receiver /\ Listen /\ UNCHANGED <<dma, turn, pc>>
     \/ receiver /\ dma' = TRUE /\ Goto("wait") /\ UNCHANGED <<mux, receiver, buf, asked, sent, notes>>
     \/ receiver /\ Goto("release") /\ rx' = Nothing /\ UNCHANGED <<uart, notified, woken>>
  /\ UNCHANGED <<timers, store, spec_mutex, collects>>

(* ulTaskNotifyTake: a value that is not 0 is taken at once. *)
Wait ==
  /\ TaskAt("wait")
  /\ IF notified.count > 0
     THEN rx' = notified /\ notified' = Nothing /\ Goto("release")
     ELSE Goto("blocked") /\ UNCHANGED <<rx, notified>>
  /\ woken' = FALSE
  /\ UNCHANGED <<uart, timers, store, spec_mutex, collects>>

WakeUpBug ==
  /\ TaskAt("blocked")
  /\ woken
  /\ rx' = notified /\ notified' = Nothing /\ woken' = FALSE
  /\ Goto("release")
  /\ UNCHANGED <<uart, timers, store, spec_mutex, collects>>

(* A notification or the timeout ends the wait. *)
WakeUp ==
  /\ TaskAt("blocked")
  /\ rx' = notified /\ notified' = Nothing /\ woken' = FALSE
  /\ Goto("release")
  /\ UNCHANGED <<uart, timers, store, spec_mutex, collects>>

(* uart_release: receiver and idle interrupt off, *)
Release ==
  /\ TaskAt("release")
  /\ receiver' = FALSE
  /\ Goto("stop")
  /\ UNCHANGED <<mux, dma, buf, asked, sent, timers, notes, store, spec_mutex, collects>>

(* the timer stopped, *)
StopTimer ==
  /\ TaskAt("stop")
  /\ Len(commands) < QueueLength
  /\ commands' = Append(commands, "stop")
  /\ Goto("off")
  /\ UNCHANGED <<uart, timer, timerOf, daemon, counted, notes, store, spec_mutex, collects>>

(* DMA and the multiplexer off. *)
SwitchOff ==
  /\ TaskAt("off")
  /\ dma' = FALSE /\ mux' = "off"
  /\ Goto(IF IsSpec /\ error[dev] # 0 THEN "clear" ELSE "check")
  /\ UNCHANGED <<receiver, buf, asked, sent, timers, notes, store, spec_mutex, collects>>

Fail(code) ==
  /\ error' = IF IsSpec THEN [error EXCEPT ![dev] = code] ELSE error
  /\ Goto("clear")

(* Length, header, checksum; for SPEC the divider. *)
CheckPacket ==
  /\ TaskAt("check")
  /\ \/ rx.count = 0 /\ Fail(2)
     \/ rx.count > 0 /\ buf[1].kind = "part" /\ Fail(2)
     \/ rx.count > 0 /\ buf[1].kind = "corrupt" /\ Fail(3)
     \/ /\ rx.count > 0 /\ buf[1].kind \in {"good", "foreign"}
        /\ Goto(IF IsSpec THEN "serial" ELSE "lock") /\ UNCHANGED error
  /\ UNCHANGED <<uart, timers, notes, reading, spec_mutex, collects>>

(* The serial number is stored under the mutex, then compared outside it. *)
CheckSerial ==
  /\ TaskAt("serial")
  /\ spec_mutex = "free"
  /\ IF buf[1].kind = "foreign" THEN Fail(4) ELSE Goto("lock") /\ UNCHANGED error
  /\ UNCHANGED <<uart, timers, notes, reading, spec_mutex, collects>>

LockBug ==
  /\ TaskAt("lock")
  /\ Goto("ppb")
  /\ UNCHANGED <<spec_mutex, uart, timers, notes, store, collects>>

(* HCHO_mutex and PMS_mutex protect single values: no separate steps. *)
Lock ==
  /\ TaskAt("lock")
  /\ IF IsSpec THEN spec_mutex = "free" /\ spec_mutex' = "uart" ELSE UNCHANGED spec_mutex
  /\ Goto("ppb")
  /\ UNCHANGED <<uart, timers, notes, store, collects>>

StoreField(f, next) ==
  /\ TaskAt(f)
  /\ reading' = [reading EXCEPT ![dev][f] = buf[1].value]
  /\ spec_mutex' = IF next = "clear" /\ IsSpec THEN "free" ELSE spec_mutex
  /\ Goto(next)
  /\ UNCHANGED <<uart, timers, notes, error, collects>>

Store == StoreField("ppb", "rest") \/ StoreField("rest", "clear")

(* The buffer is zeroed, and the next sensor is read. *)
Clear ==
  /\ TaskAt("clear")
  /\ buf' = <<>>
  /\ rx' = Nothing
  /\ pc' = "start"
  /\ turn' = IF turn = Len(Order) THEN 1 ELSE turn + 1
  /\ UNCHANGED <<mux, receiver, dma, asked, sent, timers, notified, woken, store,
                 spec_mutex, collects>>

-----------------------------------------------------------------------------
(* data_collector: get_spec_values *)

TakeSample ==
  /\ CollectorRuns /\ collector = "away" /\ spec_mutex = "free"
  /\ spec_mutex' = "collector"
  /\ collector' = "ppb"
  /\ UNCHANGED <<turn, pc, uart, timers, notes, store, sample>>

CopyField(f, next) ==
  /\ CollectorRuns /\ collector = f
  /\ sample' = [s \in Spec_sensors |-> [sample[s] EXCEPT ![f] = reading[s][f]]]
  /\ spec_mutex' = IF next = "away" THEN "free" ELSE spec_mutex
  /\ collector' = next
  /\ UNCHANGED <<turn, pc, uart, timers, notes, store>>

CopySample == CopyField("ppb", "rest") \/ CopyField("rest", "away")

-----------------------------------------------------------------------------

Sensor ==
  \/ \E k \in Kinds(dev) : SendsByItself(k)
  \/ \E s \in Spec_sensors, v \in Values : \E k \in Kinds(s) : Answers(s, k, v)

Daemon == ProcessCommand \/ CallbackBegins \/ CountBytes \/ CallbackStops \/ Notify

Task ==
  \/ StartReading \/ Ask \/ ListenForAnswer \/ Resume \/ ListenToStream \/ Wait \/ WakeUp
  \/ Release \/ StopTimer \/ SwitchOff \/ CheckPacket \/ CheckSerial \/ Lock \/ Store \/ Clear

Next == Sensor \/ TimerExpires \/ Daemon \/ Task \/ TakeSample \/ CopySample

Spec == Init /\ [][Next]_vars

(* The timer task runs when it has work; the waits time out; the others     *)
(* share what it leaves them.  Sensors owe nothing.                         *)
FairSpec == Spec /\ WF_vars(Daemon) /\ SF_vars(Task) /\ SF_vars(CopySample)

-----------------------------------------------------------------------------

(* Whatever was still under way when an earlier wait ended -- a timer, a    *)
(* callback, a notification -- a length the task acts on is about the       *)
(* sensor it is reading now, and so is everything in the buffer.            *)
LengthIsOurs ==
  pc \in {"check", "serial", "lock", "ppb", "rest"} =>
    /\ rx.count > 0 => rx.of = dev
    /\ rx.count <= Len(buf)
    /\ \A i \in DOMAIN buf : buf[i].from = dev

(* "we need quickly switch to receiving": whatever other tasks do, the      *)
(* answer to a request is in the buffer unless the task has given up on it. *)
AnswerHeard ==
  [][\A s \in asked \ asked' :
       s = dev /\ pc \in {"listen", "resume", "wait", "blocked"}
         => buf' # buf /\ buf'[Len(buf')].from = s]_vars

(* A sample never mixes the fields of two packets of a SPEC sensor.         *)
SampleWhole ==
  collector = "away" => \A s \in Spec_sensors : sample[s]["ppb"] = sample[s]["rest"]

(* Silent, late and garbled sensors never stop the round, nor does the      *)
(* timer task by waiting, in the callback's xTimerStop, for itself.         *)
KeepsMeasuring == \A i \in DOMAIN Order : []<>(turn = i /\ pc = "start")
=============================================================================

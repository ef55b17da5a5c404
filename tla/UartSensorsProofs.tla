--------------------------- MODULE UartSensorsProofs ---------------------------
(***************************************************************************)
(* The task that reads the UART sensors, for any sensors in any order, any *)
(* number of chunks and any length of the timer queue: what the task takes *)
(* for the length of an answer is about the sensor it reads (LengthIsOurs),*)
(* an answer it waits for is stored (AnswerHeard), and data_collector's    *)
(* copy never mixes two packets (SampleWhole).                             *)
(*                                                                         *)
(* None of the three is inductive: that a notification is about the sensor *)
(* being read rests on what is left in the timer's queue when the previous *)
(* sensor is given up, which is what TimerInv and NoteInv describe.        *)
(***************************************************************************)
EXTENDS UartSensors, TLAPS

Packet == {"check", "serial", "lock", "ppb", "rest", "clear"}
Before == {"start", "ask", "listen"}
Listening == pc \in {"resume", "wait", "blocked"} \/ (pc = "dma" /\ receiver)

(* SPEC_mutex is held exactly while a reading is stored or copied.          *)
MutexInv ==
  /\ spec_mutex = "collector" <=> collector # "away"
  /\ spec_mutex = "uart" <=> IsSpec /\ pc \in {"ppb", "rest"}

(* The fields of a reading differ only between the two stores, those of a   *)
(* sample only between the two copies.                                      *)
FieldsInv ==
  \A s \in Spec_sensors :
    /\ IF s = dev /\ pc = "rest" THEN reading[s]["ppb"] = buf[1].value
       ELSE reading[s]["ppb"] = reading[s]["rest"]
    /\ collector = "rest" => sample[s]["ppb"] = reading[s]["ppb"]
    /\ collector = "away" => sample[s]["ppb"] = sample[s]["rest"]

(* The receiver is on only for the sensor being read, and for a SPEC sensor *)
(* DMA is on whenever the task waits for it.                                *)
ReceiverInv ==
  /\ receiver => mux = dev /\ (Listening \/ pc = "release")
  /\ pc \in {"resume", "wait", "blocked"} => receiver /\ dma
  /\ pc \in {"ask", "listen"} => IsSpec

(* The buffer is empty until the task listens, then holds only what this    *)
(* sensor sent: at most the one answer, for SPEC.                           *)
BufferInv ==
  /\ \A i \in DOMAIN buf : buf[i].from = dev
  /\ pc \in Before => buf = <<>>
  /\ pc = "dma" /\ ~receiver => buf = <<>>
  /\ IF IsSpec THEN Len(buf) <= 1 /\ (dev \in asked => buf = <<>>) ELSE Len(buf) <= sent

Still == timer = "stopped" /\ commands = <<>> /\ daemon = "idle"

(* A timer that runs, or will, was started for this sensor; once the task   *)
(* has stopped it nothing of it is left when the next sensor is turned to.  *)
TimerInv ==
  /\ timer # "stopped" \/ daemon # "idle" \/ (\E i \in DOMAIN commands : commands[i] = "reset")
       => timerOf = dev
  /\ pc \in Packet \union Before \/ (pc = "dma" /\ ~receiver) => Still
  /\ pc = "off" => IF commands = <<>> THEN timer = "stopped" ELSE commands[Len(commands)] = "stop"

(* What is counted, notified and taken is never more than the buffer holds, *)
(* and about this sensor.                                                   *)
NoteInv ==
  /\ daemon \in {"stop", "notify"} => counted <= Len(buf)
  /\ Listening => notified.count <= Len(buf) /\ (notified.count > 0 => notified.of = dev)
  /\ rx.count <= Len(buf) /\ (rx.count > 0 => rx.of = dev)
  /\ pc \in {"serial", "lock", "ppb", "rest"} => rx.count > 0

(* The type invariant, group of variables by group of variables.            *)
TaskTyped ==
  /\ turn \in DOMAIN Order
  /\ pc \in {"start", "ask", "listen", "resume", "dma", "wait", "blocked", "release", "stop",
             "off", "check", "serial", "lock", "ppb", "rest", "clear"}
UartTyped ==
  /\ mux \in Sensors \union {"off"}
  /\ receiver \in BOOLEAN /\ dma \in BOOLEAN
  /\ asked \subseteq Spec_sensors
  /\ sent \in 0..Bursts
BufTyped == buf \in Seq(Chunk)
TimersTyped ==
  /\ timer \in {"stopped", "running", "expired"}
  /\ timerOf \in Sensors
  /\ commands \in Seq({"reset", "stop"}) /\ Len(commands) <= QueueLength
  /\ daemon \in {"idle", "count", "stop", "notify"}
  /\ counted \in 0..Bursts
NotesTyped == notified \in Note /\ woken \in BOOLEAN /\ rx \in Note
StoreTyped ==
  /\ reading \in [Sensors -> [Fields -> Values]]
  /\ error \in [Spec_sensors -> {0, 1, 2, 3, 4}]
CollectsTyped ==
  /\ spec_mutex \in {"free", "uart", "collector"}
  /\ collector \in {"away", "ppb", "rest"}
  /\ sample \in [Spec_sensors -> [Fields -> Values]]

(* Together they are inductive. *)
UartInv ==
  UartTypeOK /\ MutexInv /\ FieldsInv /\ ReceiverInv /\ BufferInv /\ TimerInv /\ NoteInv

-----------------------------------------------------------------------------
(* What the steps of each actor leave alone. *)

LEMMA SensorFrame ==
  ASSUME Sensor
  PROVE  UNCHANGED <<turn, pc, mux, receiver, dma, timer, daemon, counted, notes, store,
                     spec_mutex, collects>>
BY DEF Sensor, SendsByItself, Answers, Arrive

(* The timer task runs only when it has work and the scheduler is not suspended. *)
LEMMA DaemonFrame ==
  ASSUME Daemon
  PROVE  DaemonReady /\ ~Suspended /\ UNCHANGED <<turn, pc, uart, rx, store, spec_mutex, collects>>
BY DEF Daemon, ProcessCommand, CallbackBegins, CountBytes, CallbackStops, Notify, DaemonStep, DaemonRuns

LEMMA TimerFrame ==
  ASSUME TimerExpires
  PROVE  UNCHANGED <<turn, pc, uart, timerOf, commands, daemon, counted, notes, store,
                     spec_mutex, collects>>
BY DEF TimerExpires

LEMMA CollectorFrame ==
  ASSUME TakeSample \/ CopySample
  PROVE  ~Suspended /\ UNCHANGED <<turn, pc, uart, timers, notes, store>>
BY DEF TakeSample, CopySample, CopyField, CollectorRuns

(* The buffer only grows while a sensor is read. *)
LEMMA ArriveGrows ==
  ASSUME buf \in Seq(Chunk), NEW s, NEW kind, NEW v, Arrive(s, kind, v)
  PROVE  /\ Len(buf) <= Len(buf')
         /\ Len(buf') \in Nat
         /\ \A i \in DOMAIN buf : buf'[i] = buf[i]
         /\ ~receiver => buf' = buf
<1>1. CASE buf' = buf
  BY <1>1 DEF Arrive
<1>2. CASE buf' = Append(buf, [from |-> s, kind |-> kind, value |-> v]) /\ receiver
  BY <1>2
<1> QED BY <1>1, <1>2 DEF Arrive

(* The same of whatever a sensor does. *)
LEMMA SensorGrows ==
  ASSUME UartTypeOK, Sensor
  PROVE  /\ Len(buf) <= Len(buf')
         /\ Len(buf') \in Nat
         /\ \A i \in DOMAIN buf : buf'[i] = buf[i]
         /\ ~receiver => buf' = buf
BY ArriveGrows DEF Sensor, SendsByItself, Answers, UartTypeOK

-----------------------------------------------------------------------------
(* Each part is kept by every step, given the others before it. *)

(* The mutex is taken and given where a reading is stored or copied. *)
LEMMA MutexStep ==
  ASSUME UartTypeOK, MutexInv, Next
  PROVE  MutexInv'
<1> USE DEF MutexInv, TaskAt, Goto, IsSpec, dev
<1>1. CASE Sensor \/ TimerExpires \/ Daemon
  BY <1>1, SensorFrame, TimerFrame, DaemonFrame DEF collects
<1>2. CASE StartReading \/ Ask \/ ListenForAnswer \/ Resume \/ ListenToStream \/ Wait \/ WakeUp
           \/ Release \/ StopTimer \/ SwitchOff \/ CheckPacket \/ CheckSerial
  BY <1>2 DEF StartReading, Ask, ListenForAnswer, Resume, ListenToStream, Wait, WakeUp,
              Release, StopTimer, SwitchOff, CheckPacket, CheckSerial, Fail, collects
<1>3. CASE Lock \/ Store
  BY <1>3 DEF Lock, Store, StoreField, collects
<1>4. CASE Clear
  BY <1>4 DEF Clear, collects
<1>5. CASE TakeSample \/ CopySample
  BY <1>5 DEF TakeSample, CopySample, CopyField
<1> QED BY <1>1, <1>2, <1>3, <1>4, <1>5 DEF Next, Task

(* The receiver is switched on for the sensor being read, and off before the
   next one is turned to. *)
LEMMA ReceiverStep ==
  ASSUME UartTypeOK, ReceiverInv, Next
  PROVE  ReceiverInv'
<1> USE DEF ReceiverInv, TaskAt, Goto, IsSpec, dev, Listening, uart
<1>1. CASE Sensor \/ TimerExpires \/ Daemon \/ TakeSample \/ CopySample
  BY <1>1, SensorFrame, DaemonFrame, TimerFrame, CollectorFrame
<1>3. CASE StartReading \/ Ask \/ ListenForAnswer \/ Resume \/ ListenToStream \/ Wait \/ WakeUp
  BY <1>3 DEF StartReading, Ask, ListenForAnswer, Resume, ListenToStream, Wait, WakeUp, Listen
<1>4. CASE Release \/ StopTimer \/ SwitchOff \/ CheckPacket \/ CheckSerial
  BY <1>4 DEF Release, StopTimer, SwitchOff, CheckPacket, CheckSerial, Fail
<1>5. CASE Lock \/ Store \/ Clear
  BY <1>5 DEF Lock, Store, StoreField, Clear
<1> QED BY <1>1, <1>3, <1>4, <1>5 DEF Next, Task

(* What is in the buffer was sent by the sensor being read. *)
LEMMA BufferStep ==
  ASSUME UartTypeOK, ReceiverInv, BufferInv, Next
  PROVE  BufferInv'
<1> USE DEF BufferInv, TaskAt, Goto, IsSpec, dev, Before, uart
<1>1. ASSUME NEW k \in Kinds(dev), SendsByItself(k)
      PROVE  BufferInv'
  <2>1. UNCHANGED <<turn, pc, mux, receiver, asked>> /\ ~IsSpec /\ receiver /\ sent' = sent + 1
    BY <1>1 DEF SendsByItself, Arrive
  <2>2. buf' = buf \/ buf' = Append(buf, [from |-> dev, kind |-> k, value |-> 0])
    BY <1>1 DEF SendsByItself, Arrive
  <2>3. buf \in Seq(Chunk) /\ sent \in Nat
    BY UartAssumption DEF UartTypeOK
  <2>4. pc \notin Before
    BY <2>1 DEF ReceiverInv, Listening
  <2>5. CASE buf' = buf
    BY <2>1, <2>3, <2>4, <2>5
  <2>6. CASE buf' = Append(buf, [from |-> dev, kind |-> k, value |-> 0])
    <3>1. Len(buf') = Len(buf) + 1 /\ \A i \in DOMAIN buf' : buf'[i].from = dev
      BY <2>3, <2>6
    <3> QED BY <2>1, <2>3, <2>4, <3>1
  <2> QED BY <2>2, <2>5, <2>6
<1>2. ASSUME NEW s \in Spec_sensors, NEW k \in {"good", "part", "corrupt", "foreign"}, NEW v \in Values,
             Answers(s, k, v)
      PROVE  BufferInv'
  BY <1>2 DEF Answers, Arrive, UartTypeOK, ReceiverInv, Listening, Chunk
<1>3. CASE Sensor
  BY <1>1, <1>2, <1>3 DEF Sensor, Kinds
<1>4. CASE TimerExpires \/ Daemon \/ TakeSample \/ CopySample
  BY <1>4, DaemonFrame, TimerFrame, CollectorFrame
<1>6. CASE StartReading
  BY <1>6 DEF StartReading
<1>7. CASE Ask \/ ListenForAnswer \/ Resume \/ ListenToStream \/ Wait \/ WakeUp
  BY <1>7 DEF Ask, ListenForAnswer, Resume, ListenToStream, Wait, WakeUp, Listen
<1>8. CASE Release \/ StopTimer \/ SwitchOff \/ CheckPacket \/ CheckSerial
  BY <1>8 DEF Release, StopTimer, SwitchOff, CheckPacket, CheckSerial, Fail
<1>9. CASE Lock \/ Store
  BY <1>9 DEF Lock, Store, StoreField
<1>10. CASE Clear
  BY <1>10 DEF Clear, UartTypeOK
<1> QED BY <1>3, <1>4, <1>6, <1>7, <1>8, <1>9, <1>10 DEF Next, Task

(* A timer started for a sensor does not outlive its reading: the task runs
   on after xTimerStop only when the timer task has emptied its queue. *)
LEMMA TimerStep ==
  ASSUME UartTypeOK, ReceiverInv, TimerInv, Next
  PROVE  TimerInv'
<1> USE DEF TimerInv, Still, TaskAt, Goto, IsSpec, dev, Before, Packet, uart
<1>1. CASE Sensor
  <2>1. UNCHANGED <<commands, timerOf>> \/ (receiver /\ timerOf' = dev)
    <3>1. ASSUME NEW t, NEW k, NEW v, Arrive(t, k, v)
          PROVE  UNCHANGED <<commands, timerOf>> \/ (receiver /\ timerOf' = dev)
      BY <3>1 DEF Arrive, ReceiverInv
    <3> QED BY <1>1, <3>1 DEF Sensor, SendsByItself, Answers
  <2> QED BY <2>1, <1>1, SensorFrame DEF ReceiverInv, Listening
<1>2. CASE TimerExpires
  BY <1>2, TimerFrame DEF TimerExpires
<1>3. CASE Daemon
  <2>1. ~Still
    BY <1>3, DaemonFrame DEF DaemonReady
  <2>2. CASE ProcessCommand
    <3>1. commands \in Seq({"reset", "stop"}) /\ commands # <<>>
      BY <2>2 DEF ProcessCommand, UartTypeOK
    <3>2. Len(commands') = Len(commands) - 1 /\ \A i \in DOMAIN commands' : commands'[i] = commands[i + 1]
      BY <2>2, <3>1 DEF ProcessCommand
    <3>3. Head(commands) = commands[1] /\ Len(commands) \in Nat \ {0}
      BY <3>1
    <3>4. timer' # "stopped" => commands[1] = "reset"
      BY <2>2, <3>3 DEF ProcessCommand
    <3>5. UNCHANGED <<turn, pc, uart, timerOf, daemon>> /\ daemon = "idle"
      BY <2>2 DEF ProcessCommand, DaemonStep
    <3>6. timer' # "stopped" \/ daemon' # "idle" \/ (\E i \in DOMAIN commands' : commands'[i] = "reset")
            => timerOf' = dev
      BY <3>1, <3>2, <3>3, <3>4, <3>5
    <3>7. pc = "off" => IF commands' = <<>> THEN timer' = "stopped" ELSE commands'[Len(commands')] = "stop"
      BY <3>1, <3>2, <3>3, <3>4
    <3> QED BY <2>1, <3>5, <3>6, <3>7
  <2>3. CASE CallbackBegins
    BY <2>1, <2>3 DEF CallbackBegins, DaemonStep, UartTypeOK
  <2>4. CASE CountBytes \/ Notify
    BY <2>1, <2>4 DEF CountBytes, Notify, DaemonStep, UartTypeOK
  <2>5. CASE CallbackStops
    BY <2>1, <2>5 DEF CallbackStops, DaemonStep, UartTypeOK
  <2> QED BY <1>3, <2>2, <2>3, <2>4, <2>5 DEF Daemon
<1>4. CASE TakeSample \/ CopySample
  BY <1>4, CollectorFrame DEF timers
<1>5. CASE StartReading \/ Ask \/ ListenForAnswer \/ Resume \/ ListenToStream \/ Wait \/ WakeUp
  BY <1>5 DEF StartReading, Ask, ListenForAnswer, Resume, ListenToStream, Wait, WakeUp, Listen, timers
<1>6. CASE Release \/ SwitchOff \/ CheckPacket \/ CheckSerial
  BY <1>6 DEF Release, SwitchOff, CheckPacket, CheckSerial, Fail, timers, DaemonRuns, DaemonReady, Suspended
<1>7. CASE StopTimer
  BY <1>7 DEF StopTimer, UartTypeOK
<1>8. CASE Lock \/ Store \/ Clear
  BY <1>8 DEF Lock, Store, StoreField, Clear, timers
<1> QED BY <1>1, <1>2, <1>3, <1>4, <1>5, <1>6, <1>7, <1>8 DEF Next, Task

(* A length is counted, notified and taken about the sensor being read. *)
LEMMA NoteStep ==
  ASSUME UartTypeOK, ReceiverInv, TimerInv, BufferInv, NoteInv, Next
  PROVE  NoteInv'
<1>0. Len(buf) \in Nat /\ notified.count \in Nat /\ rx.count \in Nat /\ counted \in Nat
  BY UartAssumption DEF UartTypeOK, Note
<1> USE <1>0 DEF NoteInv, TaskAt, Goto, IsSpec, dev, Packet, Listening
<1>1. CASE Sensor
  <2>1. Len(buf) <= Len(buf') /\ Len(buf') \in Nat
    BY <1>1, SensorGrows
  <2> QED BY <1>1, <2>1, SensorFrame DEF notes
<1>2. CASE TimerExpires
  BY <1>2, TimerFrame DEF uart, notes
<1>3. CASE Daemon
  <2>1. UNCHANGED <<turn, pc, uart, rx>>
    BY <1>3, DaemonFrame
  <2>2. CASE ProcessCommand \/ CallbackBegins \/ CallbackStops
    BY <2>1, <2>2 DEF ProcessCommand, CallbackBegins, CallbackStops, DaemonStep, uart
  <2>3. CASE CountBytes
    BY <2>1, <2>3 DEF CountBytes, DaemonStep, uart
  <2>4. CASE Notify
    BY <2>1, <2>4 DEF Notify, DaemonStep, uart, TimerInv
  <2> QED BY <1>3, <2>2, <2>3, <2>4 DEF Daemon
<1>4. CASE TakeSample \/ CopySample
  BY <1>4, CollectorFrame DEF uart, timers, notes
<1>5. CASE StartReading \/ Ask \/ Resume \/ ListenForAnswer
  BY <1>5 DEF StartReading, Ask, Resume, ListenForAnswer, Listen, Nothing, ReceiverInv, timers, notes, uart
<1>6. CASE ListenToStream \/ Wait \/ WakeUp
  BY <1>6 DEF ListenToStream, Wait, WakeUp, Listen, Nothing, timers, notes, uart
<1>7. CASE Release \/ StopTimer \/ SwitchOff 
  BY <1>7 DEF Release, StopTimer, SwitchOff, timers, notes, uart
<1>8. CASE CheckPacket \/ CheckSerial
  BY <1>8 DEF CheckPacket, CheckSerial, Fail, timers, notes, uart
<1>9. CASE Lock \/ Store
  BY <1>9 DEF Lock, Store, StoreField, timers, notes, uart
<1>10. CASE Clear
  BY <1>10 DEF Clear, Nothing, timers, TimerInv, Still
<1> QED BY <1>1, <1>2, <1>3, <1>4, <1>5, <1>6, <1>7, <1>8, <1>9, <1>10 DEF Next, Task

(* Under the mutex the fields of a reading and of a sample belong together. *)
LEMMA FieldsStep ==
  ASSUME UartTypeOK, ReceiverInv, NoteInv, MutexInv, FieldsInv, Next
  PROVE  FieldsInv'
<1> USE DEF FieldsInv, TaskAt, Goto, IsSpec, dev
<1>1. CASE Sensor
  <2>1. pc = "rest" => buf' = buf
    BY <1>1, SensorGrows DEF ReceiverInv, Listening
  <2> QED BY <1>1, <2>1, SensorFrame DEF store, collects
<1>2. CASE TimerExpires \/ Daemon
  BY <1>2, DaemonFrame, TimerFrame DEF store, collects, uart
<1>3. CASE StartReading \/ Ask \/ ListenForAnswer \/ Resume \/ ListenToStream \/ Wait \/ WakeUp
           \/ Release \/ StopTimer \/ SwitchOff \/ CheckPacket \/ CheckSerial \/ Lock
  BY <1>3 DEF StartReading, Ask, ListenForAnswer, Resume, ListenToStream, Wait, WakeUp,
              Release, StopTimer, SwitchOff, CheckPacket, CheckSerial, Fail, Lock, store, collects
<1>4. CASE StoreField("ppb", "rest")
  BY <1>4, UartAssumption DEF StoreField, UartTypeOK, Fields, uart, collects, Sensors, MutexInv
<1>5. CASE StoreField("rest", "clear")
  BY <1>5, UartAssumption DEF StoreField, UartTypeOK, Fields, uart, collects, Sensors, MutexInv
<1>6. CASE Clear
  BY <1>6 DEF Clear, store, collects
<1>7. CASE TakeSample
  BY <1>7 DEF TakeSample, store, uart
<1>8. CASE CopyField("ppb", "rest")
  BY <1>8, UartAssumption DEF CopyField, UartTypeOK, Fields, uart, store, Sensors, MutexInv
<1>9. CASE CopyField("rest", "away")
  BY <1>9, UartAssumption DEF CopyField, UartTypeOK, Fields, uart, store, Sensors, MutexInv
<1> QED BY <1>1, <1>2, <1>3, <1>4, <1>5, <1>6, <1>7, <1>8, <1>9 DEF Next, Task, Store, CopySample

-----------------------------------------------------------------------------
(* So is each part of the type. *)

(* The sensor being read is one of the sensors. *)
LEMMA DevTyped ==
  ASSUME UartTypeOK
  PROVE  dev \in Sensors /\ Nothing \in Note
BY UartAssumption DEF UartTypeOK, dev, Sensors, Nothing, Note

(* The type invariant is its parts. *)
LEMMA TypeParts ==
  UartTypeOK <=> /\ TaskTyped /\ UartTyped /\ BufTyped /\ Len(buf) <= Bursts
                 /\ TimersTyped /\ NotesTyped /\ StoreTyped /\ CollectsTyped
BY DEF UartTypeOK, TaskTyped, UartTyped, BufTyped, TimersTyped, NotesTyped, StoreTyped, CollectsTyped

(* The turn stays within the order in which the sensors are read. *)
LEMMA TaskTypedStep == ASSUME TaskTyped, Next PROVE TaskTyped'
<1> USE DEF TaskTyped, TaskAt, Goto
<1>1. CASE Sensor \/ TimerExpires \/ Daemon \/ TakeSample \/ CopySample
  BY <1>1, SensorFrame, TimerFrame, DaemonFrame, CollectorFrame
<1>2. CASE StartReading \/ Ask \/ ListenForAnswer \/ Resume \/ ListenToStream \/ Wait \/ WakeUp
  BY <1>2 DEF StartReading, Ask, ListenForAnswer, Resume, ListenToStream, Wait, WakeUp
<1>3. CASE Release \/ StopTimer \/ SwitchOff \/ CheckPacket \/ CheckSerial \/ Lock \/ Store
  BY <1>3 DEF Release, StopTimer, SwitchOff, CheckPacket, CheckSerial, Fail, Lock, Store, StoreField
<1>4. CASE Clear
  BY <1>4, UartAssumption DEF Clear
<1> QED BY <1>1, <1>2, <1>3, <1>4 DEF Next, Task

(* The types of the UART and of the sensors, *)
LEMMA UartTypedStep == ASSUME UartTypeOK, ReceiverInv, UartTyped, Next PROVE UartTyped'
<1>0. dev \in Sensors
  BY DevTyped
<1> USE DEF UartTyped, uart
<1>1. CASE Sensor
  <2>1. asked' \subseteq Spec_sensors /\ sent' \in 0..Bursts
    BY <1>1, UartAssumption DEF Sensor, SendsByItself, Answers
  <2> QED BY <1>1, <2>1, SensorFrame
<1>2. CASE TimerExpires \/ Daemon \/ TakeSample \/ CopySample
  BY <1>2, TimerFrame, DaemonFrame, CollectorFrame
<1>3. CASE StartReading
  BY <1>0, <1>3, UartAssumption DEF StartReading
<1>4. CASE Ask
  BY <1>4 DEF Ask, TaskAt, ReceiverInv, IsSpec
<1>5. CASE ListenForAnswer \/ ListenToStream
  BY <1>0, <1>5 DEF ListenForAnswer, ListenToStream, Listen
<1>6. CASE Resume \/ Wait \/ WakeUp \/ Release \/ StopTimer \/ SwitchOff
  BY <1>6 DEF Resume, Wait, WakeUp, Release, StopTimer, SwitchOff
<1>7. CASE CheckPacket \/ CheckSerial \/ Lock \/ Store \/ Clear
  BY <1>7 DEF CheckPacket, CheckSerial, Lock, Store, StoreField, Clear
<1> QED BY <1>1, <1>2, <1>3, <1>4, <1>5, <1>6, <1>7 DEF Next, Task

(* of the buffer, *)
LEMMA BufTypedStep == ASSUME UartTypeOK, BufTyped, Next PROVE BufTyped'
<1> USE DEF BufTyped, uart
<1>1. CASE Sensor
  <2>1. ASSUME NEW s \in Sensors, NEW k \in Kinds(s), NEW v \in Values, Arrive(s, k, v)
        PROVE  buf' \in Seq(Chunk)
    <3>1. [from |-> s, kind |-> k, value |-> v] \in Chunk
      BY DEF Chunk, Kinds
    <3> QED BY <2>1, <3>1 DEF Arrive
  <2> QED BY <1>1, <2>1, DevTyped, UartAssumption DEF Sensor, SendsByItself, Answers
<1>2. CASE TimerExpires \/ Daemon \/ TakeSample \/ CopySample
  BY <1>2, TimerFrame, DaemonFrame, CollectorFrame
<1>3. CASE StartReading \/ Ask \/ ListenForAnswer \/ Resume \/ ListenToStream \/ Wait \/ WakeUp
  BY <1>3 DEF StartReading, Ask, ListenForAnswer, Resume, ListenToStream, Listen, Wait, WakeUp
<1>4. CASE Release \/ StopTimer \/ SwitchOff \/ CheckPacket \/ CheckSerial \/ Lock \/ Store
  BY <1>4 DEF Release, StopTimer, SwitchOff, CheckPacket, CheckSerial, Lock, Store, StoreField
<1>5. CASE Clear
  BY <1>5 DEF Clear
<1> QED BY <1>1, <1>2, <1>3, <1>4, <1>5 DEF Next, Task

(* of the timer and its queue, *)
LEMMA TimersTypedStep == ASSUME UartTypeOK, TimersTyped, Next PROVE TimersTyped'
<1> USE UartAssumption DEF TimersTyped, timers
<1>1. CASE Sensor
  <2>1. ASSUME NEW s \in Sensors, NEW k, NEW v, Arrive(s, k, v)
        PROVE  /\ commands' \in Seq({"reset", "stop"}) /\ Len(commands') <= QueueLength
               /\ timerOf' \in Sensors
    <3>1. CASE UNCHANGED <<commands, timerOf>>
      BY <3>1
    <3>2. CASE commands' = Append(commands, "reset") /\ timerOf' = s /\ Len(commands) < QueueLength
      BY <3>2
    <3> QED BY <2>1, <3>1, <3>2 DEF Arrive
  <2>2. /\ commands' \in Seq({"reset", "stop"}) /\ Len(commands') <= QueueLength
        /\ timerOf' \in Sensors
    BY <1>1, <2>1, DevTyped DEF Sensor, SendsByItself, Answers
  <2> QED BY <1>1, <2>2, SensorFrame
<1>2. CASE TimerExpires
  BY <1>2 DEF TimerExpires
<1>3. CASE ProcessCommand
  BY <1>3 DEF ProcessCommand, DaemonStep
<1>4. CASE CallbackBegins
  BY <1>4 DEF CallbackBegins, DaemonStep
<1>5. CASE CountBytes
  BY <1>5 DEF CountBytes, DaemonStep, UartTypeOK
<1>6. CASE CallbackStops
  BY <1>6 DEF CallbackStops, DaemonStep
<1>7. CASE Notify
  BY <1>7 DEF Notify, DaemonStep
<1>8. CASE TakeSample \/ CopySample
  BY <1>8, CollectorFrame
<1>9. CASE StopTimer
  BY <1>9 DEF StopTimer
<1>10. CASE StartReading \/ Ask \/ ListenForAnswer \/ Resume \/ ListenToStream \/ Wait \/ WakeUp
  BY <1>10 DEF StartReading, Ask, ListenForAnswer, Resume, ListenToStream, Wait, WakeUp
<1>11. CASE Release \/ SwitchOff \/ CheckPacket \/ CheckSerial \/ Lock \/ Store \/ Clear
  BY <1>11 DEF Release, SwitchOff, CheckPacket, CheckSerial, Lock, Store, StoreField, Clear
<1> QED BY <1>1, <1>2, <1>3, <1>4, <1>5, <1>6, <1>7, <1>8, <1>9, <1>10, <1>11 DEF Next, Daemon, Task

(* of the notifications, *)
LEMMA NotesTypedStep == ASSUME UartTypeOK, NotesTyped, Next PROVE NotesTyped'
<1>0. Nothing \in Note
  BY DevTyped
<1> USE <1>0 DEF NotesTyped, notes
<1>1. CASE Sensor \/ TimerExpires \/ TakeSample \/ CopySample
  BY <1>1, SensorFrame, TimerFrame, CollectorFrame
<1>2. CASE Notify
  BY <1>2 DEF Notify, DaemonStep, UartTypeOK, Note
<1>3. CASE ProcessCommand \/ CallbackBegins \/ CountBytes \/ CallbackStops
  BY <1>3 DEF ProcessCommand, CallbackBegins, CountBytes, CallbackStops, DaemonStep
<1>4. CASE StartReading \/ Ask \/ ListenForAnswer \/ Resume \/ ListenToStream
  BY <1>4 DEF StartReading, Ask, ListenForAnswer, Resume, ListenToStream, Listen
<1>5. CASE Wait \/ WakeUp \/ Clear
  BY <1>5 DEF Wait, WakeUp, Clear
<1>6. CASE Release \/ StopTimer \/ SwitchOff \/ CheckPacket \/ CheckSerial \/ Lock \/ Store
  BY <1>6 DEF Release, StopTimer, SwitchOff, CheckPacket, CheckSerial, Lock, Store, StoreField
<1> QED BY <1>1, <1>2, <1>3, <1>4, <1>5, <1>6 DEF Next, Daemon, Task

(* of the readings: a stored value is the first chunk's, and there is one, *)
LEMMA StoreTypedStep == ASSUME UartTypeOK, NoteInv, StoreTyped, Next PROVE StoreTyped'
<1>0. dev \in Sensors
  BY DevTyped
<1> USE DEF StoreTyped, store
<1>1. CASE Sensor \/ TimerExpires \/ Daemon \/ TakeSample \/ CopySample
  BY <1>1, SensorFrame, TimerFrame, DaemonFrame, CollectorFrame
<1>2. CASE StartReading \/ Ask \/ ListenForAnswer
  BY <1>2 DEF StartReading, Ask, ListenForAnswer
<1>3. CASE CheckPacket \/ CheckSerial
  BY <1>3 DEF CheckPacket, CheckSerial, Fail
<1>4. CASE Store
  <2>1. buf[1].value \in Values
    <3>1. Len(buf) > 0
      BY <1>4, UartAssumption DEF Store, StoreField, TaskAt, NoteInv, UartTypeOK, Note
    <3>2. buf[1] \in Chunk
      BY <3>1 DEF UartTypeOK
    <3> QED BY <3>2 DEF Chunk
  <2>2. ASSUME NEW f \in Fields, NEW next, StoreField(f, next)
        PROVE  StoreTyped'
    BY <1>0, <2>1, <2>2 DEF StoreField
  <2> QED BY <1>4, <2>2 DEF Store, Fields
<1>5. CASE Resume \/ ListenToStream \/ Wait \/ WakeUp \/ Release \/ StopTimer \/ SwitchOff \/ Lock \/ Clear
  BY <1>5 DEF Resume, ListenToStream, Wait, WakeUp, Release, StopTimer, SwitchOff, Lock, Clear
<1> QED BY <1>1, <1>2, <1>3, <1>4, <1>5 DEF Next, Task

(* and of the sample. *)
LEMMA CollectsTypedStep == ASSUME UartTypeOK, CollectsTyped, Next PROVE CollectsTyped'
<1> USE DEF CollectsTyped, collects
<1>1. CASE Sensor \/ TimerExpires \/ Daemon
  BY <1>1, SensorFrame, TimerFrame, DaemonFrame
<1>2. CASE StartReading \/ Ask \/ ListenForAnswer \/ Resume \/ ListenToStream \/ Wait \/ WakeUp
  BY <1>2 DEF StartReading, Ask, ListenForAnswer, Resume, ListenToStream, Wait, WakeUp
<1>3. CASE Release \/ StopTimer \/ SwitchOff \/ CheckPacket \/ CheckSerial \/ Lock \/ Store \/ Clear
  BY <1>3 DEF Release, StopTimer, SwitchOff, CheckPacket, CheckSerial, Lock, Store, StoreField, Clear
<1>4. CASE TakeSample
  BY <1>4 DEF TakeSample
<1>5. ASSUME NEW f \in Fields, NEW next \in {"rest", "away"}, CopyField(f, next)
      PROVE  CollectsTyped'
  <2>1. \A s \in Spec_sensors : reading[s][f] \in Values
    BY UartAssumption DEF UartTypeOK
  <2> QED BY <1>5, <2>1 DEF CopyField
<1> QED BY <1>1, <1>2, <1>3, <1>4, <1>5 DEF Next, Task, CopySample, Fields

(* Hence the whole type invariant, the length of the buffer included. *)
LEMMA TypeStep ==
  ASSUME UartTypeOK, ReceiverInv, BufferInv, NoteInv, Next
  PROVE  UartTypeOK'
<1>1. TaskTyped' /\ UartTyped' /\ BufTyped' /\ TimersTyped' /\ NotesTyped' /\ StoreTyped' /\ CollectsTyped'
  BY TypeParts, TaskTypedStep, UartTypedStep, BufTypedStep, TimersTypedStep, NotesTypedStep,
     StoreTypedStep, CollectsTypedStep
<1>2. Len(buf') <= Bursts
  <2>1. IF IsSpec' THEN Len(buf') <= 1 ELSE Len(buf') <= sent'
    BY BufferStep DEF BufferInv
  <2>2. Len(buf') \in Nat /\ sent' \in Nat /\ sent' <= Bursts /\ Bursts \in Nat \ {0}
    BY <1>1, UartAssumption DEF BufTyped, UartTyped
  <2> QED BY <2>1, <2>2
<1> QED BY <1>1, <1>2, TypeParts
     DEF UartTypeOK, TaskTyped, UartTyped, BufTyped, TimersTyped, NotesTyped, StoreTyped,
         CollectsTyped

(* The invariant holds when the tasks start, *)
LEMMA InitInv == Init => UartInv
<1> SUFFICES ASSUME Init PROVE UartInv
  OBVIOUS
<1> USE DEF Init
<1>1. Order[1] \in Sensors /\ 1 \in DOMAIN Order
  BY UartAssumption DEF Sensors
<1>2. UartTypeOK
  <2>0. 0 \in 0..Bursts /\ 0 <= QueueLength
    BY UartAssumption
  <2>1. TaskTyped /\ UartTyped
    BY <1>1, <2>0 DEF TaskTyped, UartTyped
  <2>2. BufTyped /\ Len(buf) <= Bursts /\ TimersTyped
    BY <1>1, <2>0 DEF BufTyped, TimersTyped
  <2>3. NotesTyped
    BY <1>1, <2>0 DEF NotesTyped, Nothing, Note
  <2>4. StoreTyped /\ CollectsTyped
    BY UartAssumption DEF StoreTyped, CollectsTyped, Blank, Fields
  <2> QED BY <2>1, <2>2, <2>3, <2>4, TypeParts
<1>3. MutexInv /\ ReceiverInv /\ TimerInv
  BY DEF MutexInv, ReceiverInv, Listening, TimerInv, Still
<1>4. FieldsInv
  BY UartAssumption DEF FieldsInv, Blank, Fields
<1>5. BufferInv /\ NoteInv
  BY DEF BufferInv, NoteInv, Nothing, Listening
<1> QED BY <1>2, <1>3, <1>4, <1>5 DEF UartInv

(* in a step that changes nothing, *)
LEMMA Stays == UartInv /\ UNCHANGED vars => UartInv'
BY DEF UartInv, UartTypeOK, MutexInv, FieldsInv, ReceiverInv, BufferInv, TimerInv, NoteInv, Still,
       Listening, IsSpec, dev, vars, uart, timers, notes, store, collects

(* and always. *)
LEMMA Invariant == Spec => []UartInv
<1>1. UartInv /\ [Next]_vars => UartInv'
  BY MutexStep, FieldsStep, ReceiverStep, BufferStep, TimerStep, NoteStep, TypeStep, Stays DEF UartInv
<1> QED BY <1>1, InitInv, PTL DEF Spec

(* data_collector's get_spec_values never copies the fields of two packets of
   a SPEC sensor into one sample, however its copying falls between the two
   stores of uart_sensors: both happen under SPEC_mutex. *)
THEOREM SampleIsWhole == Spec => []SampleWhole
<1>1. UartInv => SampleWhole
  BY DEF UartInv, FieldsInv, SampleWhole
<1> QED BY <1>1, Invariant, PTL

(* The length on which uart_sensors judges a packet was counted while this
   sensor was read and is not more than the buffer holds of it: a timer, a
   callback or a notification left over from the sensor before never passes
   for an answer of this one. *)
THEOREM LengthBelongs == Spec => []LengthIsOurs
<1>1. UartInv => LengthIsOurs
  BY DEF UartInv, NoteInv, BufferInv, LengthIsOurs
<1> QED BY <1>1, Invariant, PTL

(* What AnswerHeard asks of a step. *)
AnswerStep ==
  \A s \in asked \ asked' :
       s = dev /\ pc \in {"listen", "resume", "wait", "blocked"}
         => buf' # buf /\ buf'[Len(buf')].from = s

(* A request is settled by nothing but an answer. *)
LEMMA OnlyAnswers ==
  ASSUME Next, ~(asked \subseteq asked')
  PROVE  \E s \in Spec_sensors : \E k, v : Answers(s, k, v)
<1> USE DEF uart
<1>1. CASE Sensor
  BY <1>1 DEF Sensor, SendsByItself
<1>2. CASE TimerExpires \/ Daemon \/ TakeSample \/ CopySample
  BY <1>2, TimerFrame, DaemonFrame, CollectorFrame
<1>3. CASE Task
  BY <1>3 DEF Task, StartReading, Ask, ListenForAnswer, Resume, ListenToStream, Wait, WakeUp, Listen,
     Release, StopTimer, SwitchOff, CheckPacket, CheckSerial, Fail, Lock, Store, StoreField, Clear
<1> QED BY <1>1, <1>2, <1>3 DEF Next

(* While the task listens for it, the answer goes to the end of the buffer. *)
LEMMA AnswerStored ==
  ASSUME UartInv, NEW s, NEW k, NEW v, Answers(s, k, v),
         s = dev, pc \in {"listen", "resume", "wait", "blocked"}
  PROVE  buf' # buf /\ buf'[Len(buf')].from = s
<1>1. mux = s /\ receiver /\ dma
  BY DEF Answers, Suspended, UartInv, ReceiverInv
<1>2. buf \in Seq(Chunk) /\ buf' = Append(buf, [from |-> s, kind |-> k, value |-> v])
  BY <1>1 DEF Answers, Arrive, UartInv, UartTypeOK
<1>3. Len(buf') = Len(buf) + 1 /\ buf'[Len(buf) + 1].from = s
  BY <1>2
<1> QED BY <1>2, <1>3

(* Between the request and the moment the receiver listens the scheduler is
   suspended, so an answer never arrives unheard: it is in the buffer unless
   the task has given up on the sensor. *)
THEOREM EveryAnswerHeard == Spec => AnswerHeard
<1>1. ASSUME UartInv, [Next]_vars PROVE [AnswerStep]_vars
  <2> SUFFICES ASSUME Next, NEW s \in asked \ asked', s = dev,
                      pc \in {"listen", "resume", "wait", "blocked"}
               PROVE  buf' # buf /\ buf'[Len(buf')].from = s
    BY <1>1 DEF AnswerStep
  <2>1. PICK t \in Spec_sensors : \E k, v : Answers(t, k, v)
    BY OnlyAnswers
  <2>2. t = s
    BY <2>1 DEF Answers
  <2> QED BY <1>1, <2>1, <2>2, AnswerStored
<1> QED BY <1>1, Invariant, PTL DEF Spec, AnswerHeard, AnswerStep

-----------------------------------------------------------------------------
(* What the timer's queue may hold.  A chunk that arrives costs at most one *)
(* place: its reset is taken from the queue before the timer can run out,   *)
(* and only then does the callback ask for its stop.                        *)

Pending == Len(commands) + IF timer # "stopped" \/ daemon \in {"count", "stop"} THEN 1 ELSE 0
Arrived == IF IsSpec THEN IF dev \in asked THEN 0 ELSE 1 ELSE sent

QueueInv ==
  /\ daemon # "idle" => timer = "stopped"
  /\ Pending <= IF pc = "off" THEN 2 ELSE Arrived

(* There is room for the reset the interrupt asks for, and for the stop the *)
(* callback asks for.                                                       *)
QueueHasRoom == receiver \/ daemon = "stop" => Len(commands) < QueueLength

(* No step takes more room than that. *)
LEMMA QueueStep ==
  ASSUME UartInv, QueueInv, Next
  PROVE  QueueInv'
<1>0. /\ commands \in Seq({"reset", "stop"}) /\ Len(commands) \in Nat /\ sent \in Nat
      /\ timer \in {"stopped", "running", "expired"}
      /\ daemon \in {"idle", "count", "stop", "notify"}
  BY UartAssumption DEF UartInv, UartTypeOK
<1> USE <1>0 DEF QueueInv, Pending, Arrived, TaskAt, Goto, IsSpec, dev, uart, timers
<1>1. ASSUME NEW k \in Kinds(dev), SendsByItself(k)
      PROVE  QueueInv'
  BY <1>1 DEF SendsByItself, Arrive, UartInv, ReceiverInv, Listening
<1>2. ASSUME NEW s \in Spec_sensors, NEW k, NEW v, Answers(s, k, v)
      PROVE  QueueInv'
  BY <1>2 DEF Answers, Arrive, UartInv, ReceiverInv, Listening
<1>3. CASE TimerExpires
  BY <1>3 DEF TimerExpires
<1>4. CASE ProcessCommand
  BY <1>4 DEF ProcessCommand, DaemonStep
<1>5. CASE CallbackBegins
  BY <1>5 DEF CallbackBegins, DaemonStep
<1>6. CASE CountBytes
  BY <1>6 DEF CountBytes, DaemonStep
<1>7. CASE CallbackStops
  BY <1>7 DEF CallbackStops, DaemonStep
<1>8. CASE Notify
  BY <1>8 DEF Notify, DaemonStep
<1>9. CASE TakeSample \/ CopySample
  BY <1>9, CollectorFrame
<1>10. CASE StartReading \/ Ask \/ ListenForAnswer \/ Resume \/ ListenToStream
  BY <1>10 DEF StartReading, Ask, ListenForAnswer, Resume, ListenToStream, Listen, UartInv,
               TimerInv, Still, Before, Packet
<1>11. CASE Wait \/ WakeUp \/ Release \/ CheckPacket \/ CheckSerial
  BY <1>11 DEF Wait, WakeUp, Release, CheckPacket, CheckSerial, Fail
<1>12. CASE Lock \/ Store
  BY <1>12 DEF Lock, Store, StoreField
<1>13. CASE StopTimer
  BY <1>13 DEF StopTimer, DaemonRuns, DaemonReady, Suspended
<1>14. CASE SwitchOff
  <2>1. commands = <<>> /\ timer = "stopped" /\ daemon = "idle"
    BY <1>14 DEF SwitchOff, DaemonRuns, DaemonReady, Suspended, UartInv, TimerInv
  <2>2. Pending' = 0
    BY <1>14, <2>1 DEF SwitchOff
  <2> QED BY <1>14, <2>1, <2>2 DEF SwitchOff
<1>15. CASE Clear
  BY <1>15 DEF Clear, UartInv, TimerInv, Still, Packet
<1> QED BY <1>1, <1>2, <1>3, <1>4, <1>5, <1>6, <1>7, <1>8, <1>9, <1>10, <1>11, <1>12, <1>13,
           <1>14, <1>15 DEF Next, Sensor, Daemon, Task

(* vTimerCallback_SPEC runs in the timer task, and calls xTimerStop with    *)
(* portMAX_DELAY: were the timer task's own queue full then, it would wait  *)
(* for itself forever.  That cannot happen while a sensor sends fewer       *)
(* chunks in one reading than the queue has places -- although each of them *)
(* may put a reset into the queue, and each callback a stop --, and for the *)
(* same reason the interrupt's xTimerResetFromISR, whose failure the code   *)
(* ignores, never fails.                                                    *)
THEOREM TimerTaskNeverWaits == Spec => []QueueHasRoom
<1>1. Init => QueueInv
  BY DEF Init, QueueInv, Pending, Arrived
<1>2. ASSUME UartInv, QueueInv, [Next]_vars PROVE QueueInv'
  <2>1. CASE UNCHANGED vars
    BY <1>2, <2>1 DEF vars, uart, timers, QueueInv, Pending, Arrived, IsSpec, dev
  <2> QED BY <1>2, <2>1, QueueStep
<1>3. ASSUME UartInv, QueueInv PROVE QueueHasRoom
  <2>1. Len(commands) \in Nat /\ sent \in Nat /\ sent <= Bursts /\ Bursts \in Nat \ {0}
    BY <1>3, UartAssumption DEF UartInv, UartTypeOK
  <2>2. receiver => pc # "off"
    BY <1>3 DEF UartInv, ReceiverInv, Listening
  <2>3. daemon = "stop" => Len(commands) < QueueLength
    BY <1>3, <2>1, UartAssumption DEF QueueInv, Pending, Arrived
  <2>4. receiver => Len(commands) < QueueLength
    BY <1>3, <2>1, <2>2, UartAssumption DEF QueueInv, Pending, Arrived
  <2> QED BY <2>3, <2>4 DEF QueueHasRoom
<1> QED BY <1>1, <1>2, <1>3, Invariant, PTL DEF Spec
================================================================================

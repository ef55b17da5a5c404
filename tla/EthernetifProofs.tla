--------------------------- MODULE EthernetifProofs ---------------------------
(***************************************************************************)
(* Proofs about the two components of ethernetif.c: EthFrames, for rings,  *)
(* a pool and a frame counter of any size, and LinkDhcp, for any number of *)
(* retries.                                                                *)
(***************************************************************************)
EXTENDS EthFrames, LinkDhcp, Integers, TLAPS

-----------------------------------------------------------------------------
(* Rings, without the modulus. *)

LEMMA RxRing ==
  ASSUME NEW d \in Rx
  PROVE  /\ d % RxNum = d
         /\ NextRx(d) = IF d = RxNum - 1 THEN 0 ELSE d + 1
         /\ NextRx(d) \in Rx
<1>1. RxNum \in Nat \ {0}
  BY FramesAssumption
<1>2. CASE d = RxNum - 1
  BY <1>1, <1>2 DEF Rx, NextRx
<1>3. CASE d # RxNum - 1
  BY <1>1, <1>3 DEF Rx, NextRx
<1>4. QED
  BY <1>2, <1>3

LEMMA TxRing ==
  ASSUME NEW d \in Tx
  PROVE  NextTx(d) \in Tx
<1>1. TxNum \in Nat \ {0}
  BY FramesAssumption
<1>2. QED
  BY <1>1 DEF Tx, NextTx

-----------------------------------------------------------------------------
(* Transmission.  While the other task is in low_level_output, the          *)
(* descriptor it has filled is still the one it will give away, because     *)
(* nobody else sends.                                                       *)
TxTyped ==
  /\ txOwn \subseteq Tx /\ TxDesc \in Tx
  /\ txBuf \in [Tx -> [a : Content, b : Content]]
  /\ packet \in Packets

Filling ==
  /\ sender \in {"copy", "lock", "give"} => around.sends
  /\ ~around.answers /\ sender = "copy" =>
       desc = TxDesc /\ TxDesc \notin txOwn /\ txBuf[TxDesc].a = packet
  /\ ~around.answers /\ sender \in {"lock", "give"} =>
       /\ TxDesc \notin txOwn
       /\ txBuf[TxDesc].a = packet /\ txBuf[TxDesc].b = packet

SendInv == TxTyped /\ Filling /\ WholeFrames

LEMMA InitSend == Init => SendInv
<1>1. 0 \in Tx
  BY FramesAssumption DEF Tx
<1>2. QED
  BY <1>1 DEF Init, SendInv, TxTyped, Filling, WholeFrames, OnePacket, Content, Packets

LEMMA StepSend == SendInv /\ [Next]_vars => SendInv'
<1> SUFFICES ASSUME SendInv, [Next]_vars PROVE SendInv'
  OBVIOUS
<1> USE DEF SendInv, WholeFrames, OnePacket
<1>1. CASE UNCHANGED <<tx, sending, around>>
  BY <1>1 DEF tx, sending, TxTyped, Filling
<1>2. CASE Receive \/ CreateSemaphore \/ TakeSemaphore \/ NoFrame \/ GetFrame \/ CopyFrame
           \/ ReleaseFrame \/ Refused \/ ReadQueued \/ UNCHANGED vars \/ (GiveFrame /\ NoAnswer)
  BY <1>1, <1>2
  DEF Receive, CreateSemaphore, TakeSemaphore, NoFrame, GetFrame, CopyFrame, ReleaseFrame, Refused,
      ReadQueued, InputStep, GiveFrame, HandOver, NoAnswer, vars
<1>3. CASE Transmit
  BY <1>3 DEF Transmit, sending, TxTyped, Filling
<1>4. CASE GiveFrame /\ AnswerFrame
  <2>1. /\ around.answers /\ UNCHANGED <<sending, around>> /\ TxDesc \notin txOwn
        /\ txBuf' = [txBuf EXCEPT ![TxDesc] = [a |-> "answer", b |-> "answer"]]
        /\ \/ UNCHANGED <<txOwn, TxDesc>>
           \/ txOwn' = txOwn \union {TxDesc} /\ TxDesc' = NextTx(TxDesc)
    BY <1>4 DEF GiveFrame, HandOver, AnswerFrame, InputStep
  <2>2. TxTyped'
    BY <2>1, TxRing DEF TxTyped, Content, sending
  <2>3. Filling'
    BY <2>1 DEF Filling, sending
  <2>4. WholeFrames'
    BY <2>1 DEF TxTyped
  <2>5. QED
    BY <2>2, <2>3, <2>4
<1>5. CASE StartCopy
  BY <1>5 DEF StartCopy, SenderStep, TxTyped, Filling, Content
<1>6. CASE CopyRest
  BY <1>6 DEF CopyRest, SenderStep, TxTyped, Filling, Content
<1>7. CASE LockHandle
  BY <1>7 DEF LockHandle, SenderStep, TxTyped, Filling, tx
<1>8. CASE GiveToDma
  <2>1. /\ around' = around /\ sender = "give" /\ sender' = "idle" /\ txBuf' = txBuf
        /\ IF TxDesc \in txOwn THEN UNCHANGED <<txOwn, TxDesc>>
           ELSE txOwn' = txOwn \union {TxDesc} /\ TxDesc' = NextTx(TxDesc)
        /\ packet' \in Packets
    BY <1>8 DEF GiveToDma, SenderStep, Packets
  <2>2. TxTyped' /\ Filling'
    BY <2>1, TxRing DEF TxTyped, Filling
  <2>3. WholeFrames'
    BY <2>1 DEF TxTyped, Filling
  <2>4. QED
    BY <2>2, <2>3
<1>9. QED
  BY <1>2, <1>3, <1>4, <1>5, <1>6, <1>7, <1>8 DEF Next, InputTask, Sender, GiveFrame

(* low_level_output: unless lwIP also answers in ethernetif_input, what the *)
(* MAC sends from a descriptor is one packet, wherever the sending task is  *)
(* preempted, and although the descriptor it fills and the one the HAL      *)
(* gives away are read from the handle at two different times.              *)
THEOREM SentWhole == Spec => []WholeFrames
<1>1. SendInv => WholeFrames
  BY DEF SendInv
<1>2. QED
  BY <1>1, InitSend, StepSend, PTL DEF Spec

-----------------------------------------------------------------------------
(* Reception.  The filled descriptors lie between the oldest one not given  *)
(* back and the one the DMA uses next, in the order of arrival.             *)
Oldest == IF SegCount = 1 THEN FSRxDesc ELSE RxDesc
Age(d) == IF d >= Oldest THEN d - Oldest ELSE d - Oldest + RxNum

(* Frame v came after frame w, as far as they are told apart. *)
After(v, w) == v > w \/ v = MaxFrames

RxTyped ==
  /\ rxOwn \subseteq Rx /\ rxBuf \in [Rx -> Number]
  /\ rxPos \in Rx /\ RxDesc \in Rx /\ FSRxDesc \in Rx
  /\ arrived \in Number /\ p \in Number /\ handed \in Number
  /\ pc \in {"none", "take", "get", "alloc", "release", "give"}

(* Where ethernetif_input is: which descriptor it has taken, what it has    *)
(* copied.                                                                  *)
TaskAt ==
  /\ SegCount = IF pc \in {"alloc", "release"} THEN 1 ELSE 0
  /\ pc \in {"alloc", "release"} => RxDesc = NextRx(FSRxDesc) /\ FSRxDesc \notin rxOwn
  /\ pc \notin {"release", "give"} => p = 0
  /\ pc = "release" => p \in {0, rxBuf[FSRxDesc]}
  /\ pc = "give" => p # 0

Filled(n) ==
  /\ rxPos = IF Oldest + n < RxNum THEN Oldest + n ELSE Oldest + n - RxNum
  /\ \A d \in Rx : d \notin rxOwn <=> Age(d) < n
  /\ \A d, e \in Rx : Age(d) < Age(e) /\ Age(e) < n => After(rxBuf[e], rxBuf[d])

Later ==
  /\ handed <= arrived /\ p <= arrived
  /\ \A d \in Rx : d \notin rxOwn => rxBuf[d] <= arrived /\ After(rxBuf[d], handed)
  /\ p # 0 => After(p, handed)
  /\ pc = "give" => \A d \in Rx : d \notin rxOwn => After(rxBuf[d], p)

ReceiveInv == RxTyped /\ TaskAt /\ (\E n \in 0..RxNum : Filled(n)) /\ Later

LEMMA InitReceive == Init => ReceiveInv
<1> SUFFICES ASSUME Init PROVE ReceiveInv
  OBVIOUS
<1>1. RxNum \in Nat \ {0} /\ MaxFrames \in Nat \ {0}
  BY FramesAssumption
<1>2. RxTyped /\ TaskAt /\ Later
  BY <1>1 DEF Init, RxTyped, TaskAt, Later, Rx, Number
<1>3. Filled(0)
  BY <1>1 DEF Init, Filled, Oldest, Age, Rx
<1>4. QED
  BY <1>1, <1>2, <1>3 DEF ReceiveInv

(* A frame goes to the descriptor after the filled ones, with the highest   *)
(* number so far.                                                           *)
LEMMA ReceiveStep ==
  ASSUME ReceiveInv, Receive
  PROVE  ReceiveInv'
<1>1. RxNum \in Nat \ {0} /\ MaxFrames \in Nat \ {0}
  BY FramesAssumption
<1>2. UNCHANGED <<pc, RxDesc, SegCount, FSRxDesc, p, handed>>
  BY DEF Receive, frame, lwip
<1>3. CASE rxPos \notin rxOwn
  <2>1. UNCHANGED <<rxOwn, rxBuf, rxPos, arrived>>
    BY <1>3 DEF Receive
  <2>2. QED
    BY <1>2, <2>1 DEF ReceiveInv, RxTyped, TaskAt, Filled, Later, Oldest, Age, NextRx
<1>4. CASE rxPos \in rxOwn
  <2>1. /\ arrived' = IF arrived < MaxFrames THEN arrived + 1 ELSE arrived
        /\ rxBuf' = [rxBuf EXCEPT ![rxPos] = arrived']
        /\ rxOwn' = rxOwn \ {rxPos}
        /\ rxPos' = NextRx(rxPos)
    BY <1>4 DEF Receive
  <2>2. /\ arrived \in Number /\ arrived' \in Number /\ arrived <= arrived'
        /\ \A v \in Number : v <= arrived => v <= arrived' /\ After(arrived', v)
    BY <1>1, <2>1 DEF ReceiveInv, RxTyped, Number, After
  <2>3. RxTyped'
    BY <1>2, <2>1, <2>2, RxRing DEF ReceiveInv, RxTyped
  <2>4. TaskAt'
    BY <1>2, <1>4, <2>1 DEF ReceiveInv, RxTyped, TaskAt, NextRx
  <2>5. Later'
    <3>1. handed \in Number /\ p \in Number /\ handed <= arrived /\ p <= arrived
      BY DEF ReceiveInv, RxTyped, Later
    <3>2. After(arrived', handed) /\ After(arrived', p) /\ handed <= arrived' /\ p <= arrived'
      BY <2>2, <3>1
    <3>3. ASSUME NEW d \in Rx, d \notin rxOwn'
          PROVE  /\ rxBuf'[d] <= arrived' /\ After(rxBuf'[d], handed)
                 /\ pc = "give" => After(rxBuf'[d], p)
      <4>1. CASE d = rxPos
        BY <2>1, <2>2, <3>2, <4>1 DEF ReceiveInv, RxTyped, Number
      <4>2. CASE d # rxPos
        <5>1. d \notin rxOwn /\ rxBuf'[d] = rxBuf[d] /\ rxBuf[d] \in Number
          BY <2>1, <3>3, <4>2 DEF ReceiveInv, RxTyped
        <5>2. rxBuf[d] <= arrived /\ After(rxBuf[d], handed) /\ (pc = "give" => After(rxBuf[d], p))
          BY <5>1 DEF ReceiveInv, Later
        <5>3. QED
          BY <2>2, <5>1, <5>2
      <4>3. QED
        BY <4>1, <4>2
    <3>4. p # 0 => After(p, handed)
      BY DEF ReceiveInv, Later
    <3>5. QED
      BY <1>2, <3>2, <3>3, <3>4 DEF Later, After
  <2>6. PICK n \in 0..RxNum : Filled(n)
    BY DEF ReceiveInv
  <2>7. Oldest \in Rx /\ Oldest' = Oldest /\ \A d \in Rx : Age(d)' = Age(d) /\ Age(d) \in 0..(RxNum - 1)
    BY <1>1, <1>2 DEF ReceiveInv, RxTyped, Oldest, Age, Rx
  <2>8. n < RxNum /\ Age(rxPos) = n /\ \A d \in Rx : Age(d) = n => d = rxPos
    BY <1>1, <1>4, <2>6, <2>7 DEF ReceiveInv, RxTyped, Filled, Age, Rx
  <2>9. Filled(n + 1)'
    <3>1. rxPos' = IF Oldest + (n + 1) < RxNum THEN Oldest + (n + 1) ELSE Oldest + (n + 1) - RxNum
      <4>1. Oldest \in 0..(RxNum - 1) /\ n \in 0..RxNum /\ n < RxNum /\ RxNum \in Nat
        BY <1>1, <2>7, <2>8 DEF Rx
      <4>2. rxPos = IF Oldest + n < RxNum THEN Oldest + n ELSE Oldest + n - RxNum
        BY <2>6 DEF Filled
      <4>3. rxPos' = IF rxPos = RxNum - 1 THEN 0 ELSE rxPos + 1
        BY <2>1, RxRing DEF ReceiveInv, RxTyped
      <4>4. CASE Oldest + n < RxNum
        BY <4>1, <4>2, <4>3, <4>4
      <4>5. CASE ~(Oldest + n < RxNum)
        BY <4>1, <4>2, <4>3, <4>5
      <4>6. QED
        BY <4>4, <4>5
    <3>2. \A d \in Rx : d \notin rxOwn' <=> Age(d) < n + 1
      BY <1>1, <2>1, <2>6, <2>7, <2>8 DEF Filled
    <3>3. ASSUME NEW d \in Rx, NEW e \in Rx, Age(d) < Age(e), Age(e) < n + 1
          PROVE  After(rxBuf'[e], rxBuf'[d])
      <4>1. d # rxPos /\ Age(d) < n /\ rxBuf'[d] = rxBuf[d] /\ rxBuf[d] \in Number
        BY <1>1, <2>1, <2>7, <2>8, <3>3 DEF ReceiveInv, RxTyped
      <4>2. CASE e = rxPos
        BY <2>1, <2>2, <2>6, <4>1, <4>2 DEF ReceiveInv, RxTyped, Filled, Later
      <4>3. CASE e # rxPos
        <5>1. Age(e) < n /\ rxBuf'[e] = rxBuf[e]
          BY <1>1, <2>1, <2>7, <2>8, <3>3, <4>3 DEF ReceiveInv, RxTyped
        <5>2. QED
          BY <2>6, <3>3, <4>1, <5>1 DEF Filled
      <4>4. QED
        BY <4>2, <4>3
    <3>4. QED
      BY <2>7, <3>1, <3>2, <3>3 DEF Filled, After
  <2>10. n + 1 \in 0..RxNum
    BY <1>1, <2>8
  <2>11. QED
    BY <2>3, <2>4, <2>5, <2>9, <2>10 DEF ReceiveInv
<1>5. QED
  BY <1>3, <1>4

(* Giving the descriptor back makes the next one the oldest. *)
LEMMA ReleaseStep ==
  ASSUME ReceiveInv, ReleaseFrame
  PROVE  ReceiveInv'
<1>1. RxNum \in Nat \ {0} /\ MaxFrames \in Nat \ {0}
  BY FramesAssumption
<1>2. /\ pc = "release" /\ pc' = (IF p # 0 THEN "give" ELSE "take")
      /\ SegCount = 1 /\ SegCount' = 0
      /\ UNCHANGED <<rxBuf, rxPos, arrived, RxDesc, FSRxDesc, p, handed>>
      /\ FSRxDesc \in Rx /\ RxDesc = NextRx(FSRxDesc) /\ FSRxDesc \notin rxOwn
  BY DEF ReleaseFrame, InputStep, lwip, ReceiveInv, RxTyped, TaskAt
<1>3. rxOwn' = rxOwn \union {FSRxDesc}
  <2>1. 0..(SegCount - 1) = {0} /\ (FSRxDesc + 0) % RxNum = FSRxDesc
    <3>1. FSRxDesc % RxNum = FSRxDesc /\ FSRxDesc + 0 = FSRxDesc
      BY <1>2, RxRing DEF Rx
    <3>2. 0..(SegCount - 1) = {0}
      BY <1>2
    <3>3. QED
      BY <3>1, <3>2
  <2>2. Released = {FSRxDesc}
    BY <1>2, <2>1 DEF Released
  <2>3. QED
    BY <2>2 DEF ReleaseFrame
<1>4. PICK n \in 0..RxNum : Filled(n)
  BY DEF ReceiveInv
<1>5. /\ Oldest = FSRxDesc /\ Oldest' = NextRx(FSRxDesc) /\ Age(FSRxDesc) = 0
      /\ \A d \in Rx : /\ Age(d) \in 0..(RxNum - 1)
                       /\ Age(d)' = IF d = FSRxDesc THEN RxNum - 1 ELSE Age(d) - 1
                       /\ d # FSRxDesc => Age(d) > 0
  <2>1. Oldest = FSRxDesc /\ Oldest' = NextRx(FSRxDesc)
    BY <1>2 DEF Oldest
  <2>2. FSRxDesc \in 0..(RxNum - 1)
        /\ NextRx(FSRxDesc) = IF FSRxDesc = RxNum - 1 THEN 0 ELSE FSRxDesc + 1
    BY <1>2, RxRing DEF Rx
  <2>3. Age(FSRxDesc) = 0
    BY <2>1, <2>2 DEF Age
  <2>4. ASSUME NEW d \in Rx
        PROVE  /\ Age(d) \in 0..(RxNum - 1)
               /\ Age(d)' = IF d = FSRxDesc THEN RxNum - 1 ELSE Age(d) - 1
               /\ d # FSRxDesc => Age(d) > 0
    <3>1. d \in 0..(RxNum - 1)
      BY DEF Rx
    <3>2. Age(d) = IF d >= FSRxDesc THEN d - FSRxDesc ELSE d - FSRxDesc + RxNum
      BY <2>1 DEF Age
    <3>3. Age(d)' = IF d >= NextRx(FSRxDesc) THEN d - NextRx(FSRxDesc) ELSE d - NextRx(FSRxDesc) + RxNum
      BY <2>1 DEF Age
    <3>4. CASE FSRxDesc = RxNum - 1
      BY <1>1, <2>2, <3>1, <3>2, <3>3, <3>4
    <3>5. CASE FSRxDesc # RxNum - 1
      BY <1>1, <2>2, <3>1, <3>2, <3>3, <3>5
    <3>6. QED
      BY <3>4, <3>5
  <2>5. QED
    BY <2>1, <2>3, <2>4
<1>6. n >= 1
  BY <1>2, <1>4, <1>5 DEF Filled
<1>7. RxTyped'
  BY <1>2, <1>3 DEF ReceiveInv, RxTyped
<1>8. TaskAt'
  BY <1>2 DEF ReceiveInv, TaskAt
<1>9. Later'
  <2>1. \A d \in Rx : d \notin rxOwn' => d \notin rxOwn /\ d # FSRxDesc
    BY <1>3
  <2>2. \A d \in Rx : d \notin rxOwn' => After(rxBuf[d], rxBuf[FSRxDesc])
    BY <1>2, <1>4, <1>5, <2>1 DEF Filled
  <2>3. p # 0 => p = rxBuf[FSRxDesc]
    BY <1>2 DEF ReceiveInv, TaskAt
  <2>4. QED
    BY <1>2, <2>1, <2>2, <2>3 DEF ReceiveInv, Later, After
<1>10. Filled(n - 1)'
  <2>1. rxPos' = IF Oldest' + (n - 1) < RxNum THEN Oldest' + (n - 1) ELSE Oldest' + (n - 1) - RxNum
    <3>1. FSRxDesc \in 0..(RxNum - 1) /\ n \in 1..RxNum
          /\ Oldest' = IF FSRxDesc = RxNum - 1 THEN 0 ELSE FSRxDesc + 1
      BY <1>2, <1>5, <1>6, RxRing DEF Rx
    <3>2. rxPos' = IF FSRxDesc + n < RxNum THEN FSRxDesc + n ELSE FSRxDesc + n - RxNum
      BY <1>2, <1>4, <1>5 DEF Filled
    <3>3. QED
      BY <1>1, <3>1, <3>2
  <2>2. \A d \in Rx : d \notin rxOwn' <=> Age(d)' < n - 1
    BY <1>1, <1>3, <1>4, <1>5, <1>6 DEF Filled
  <2>3. \A d, e \in Rx : Age(d)' < Age(e)' /\ Age(e)' < n - 1 => After(rxBuf'[e], rxBuf'[d])
    BY <1>1, <1>2, <1>4, <1>5, <1>6 DEF Filled
  <2>4. QED
    BY <2>1, <2>2, <2>3 DEF Filled, After
<1>11. n - 1 \in 0..RxNum
  BY <1>1, <1>6
<1>12. QED
  BY <1>7, <1>8, <1>9, <1>10, <1>11 DEF ReceiveInv

(* The other steps of ethernetif_input leave the ring as it is; taking the  *)
(* frame at RxDesc makes that descriptor the one to be given back.          *)
LEMMA TaskStep ==
  ASSUME ReceiveInv,
         CreateSemaphore \/ TakeSemaphore \/ NoFrame \/ GetFrame \/ CopyFrame \/ GiveFrame \/ Refused
  PROVE  ReceiveInv'
<1>1. RxNum \in Nat \ {0} /\ MaxFrames \in Nat \ {0}
  BY FramesAssumption
<1>2. UNCHANGED <<rxOwn, rxBuf, rxPos, arrived>>
  BY DEF CreateSemaphore, TakeSemaphore, NoFrame, GetFrame, CopyFrame, GiveFrame, HandOver, Refused, rx
<1>3. Oldest' = Oldest
  BY DEF CreateSemaphore, TakeSemaphore, NoFrame, GetFrame, CopyFrame, GiveFrame, HandOver, Refused,
         frame, Oldest, InputStep, ReceiveInv, TaskAt
<1>4. \E n \in 0..RxNum : Filled(n)'
  <2>1. PICK n \in 0..RxNum : Filled(n)
    BY DEF ReceiveInv
  <2>2. Filled(n)'
    BY <1>2, <1>3, <2>1 DEF Filled, Age, After
  <2>3. QED
    BY <2>2
<1>5. CASE CreateSemaphore \/ TakeSemaphore \/ NoFrame
  <2>1. /\ UNCHANGED <<RxDesc, SegCount, FSRxDesc, p, handed>>
        /\ pc \in {"none", "take", "get"} /\ pc' \in {"none", "take", "get"}
    BY <1>5 DEF CreateSemaphore, TakeSemaphore, NoFrame, InputStep, frame, lwip
  <2>2. QED
    BY <1>2, <1>4, <2>1 DEF ReceiveInv, RxTyped, TaskAt, Later, After
<1>6. CASE GetFrame
  <2>1. /\ pc = "get" /\ pc' = "alloc" /\ RxDesc \notin rxOwn /\ RxDesc \in Rx
        /\ SegCount' = 1 /\ FSRxDesc' = RxDesc /\ RxDesc' = NextRx(RxDesc)
        /\ UNCHANGED <<p, handed>>
    BY <1>6 DEF GetFrame, InputStep, lwip, ReceiveInv, RxTyped, TaskAt
  <2>2. RxTyped' /\ TaskAt'
    BY <1>2, <2>1, RxRing DEF ReceiveInv, RxTyped, TaskAt, NextRx
  <2>3. Later'
    BY <1>2, <2>1 DEF ReceiveInv, Later, After
  <2>4. QED
    BY <1>4, <2>2, <2>3 DEF ReceiveInv
<1>7. CASE CopyFrame
  <2>1. /\ pc = "alloc" /\ pc' = "release" /\ p = 0 /\ p' \in {0, rxBuf[FSRxDesc]}
        /\ UNCHANGED <<RxDesc, SegCount, FSRxDesc, handed>>
        /\ FSRxDesc \in Rx /\ FSRxDesc \notin rxOwn
    BY <1>7 DEF CopyFrame, InputStep, frame, ReceiveInv, RxTyped, TaskAt
  <2>2. RxTyped' /\ TaskAt'
    BY <1>1, <1>2, <2>1 DEF ReceiveInv, RxTyped, TaskAt, Number, NextRx
  <2>3. Later'
    BY <1>2, <2>1 DEF ReceiveInv, Later, After
  <2>4. QED
    BY <1>4, <2>2, <2>3 DEF ReceiveInv
<1>8. CASE GiveFrame \/ Refused
  <2>1. /\ pc = "give" /\ pc' \in {"get", "take"} /\ p' = 0 /\ handed' \in {p, handed}
        /\ UNCHANGED <<RxDesc, SegCount, FSRxDesc>>
    BY <1>8 DEF GiveFrame, HandOver, Refused, InputStep, frame
  <2>2. RxTyped' /\ TaskAt'
    BY <1>1, <1>2, <2>1 DEF ReceiveInv, RxTyped, TaskAt, Number
  <2>3. Later'
    BY <1>2, <2>1 DEF ReceiveInv, RxTyped, Number, Later, After
  <2>4. QED
    BY <1>4, <2>2, <2>3 DEF ReceiveInv
<1>9. QED
  BY <1>5, <1>6, <1>7, <1>8

LEMMA StepReceive == ReceiveInv /\ [Next]_vars => ReceiveInv'
<1> SUFFICES ASSUME ReceiveInv, [Next]_vars PROVE ReceiveInv'
  OBVIOUS
<1>1. CASE Receive
  BY <1>1, ReceiveStep
<1>2. CASE ReleaseFrame
  BY <1>2, ReleaseStep
<1>3. CASE CreateSemaphore \/ TakeSemaphore \/ NoFrame \/ GetFrame \/ CopyFrame \/ GiveFrame \/ Refused
  BY <1>3, TaskStep
<1>4. CASE Transmit \/ ReadQueued \/ Sender \/ UNCHANGED vars
  <2>1. UNCHANGED <<pc, rxOwn, rxBuf, rxPos, arrived, RxDesc, SegCount, FSRxDesc, p, handed>>
    BY <1>4
    DEF Transmit, ReadQueued, Sender, SenderStep, StartCopy, CopyRest, LockHandle, GiveToDma, vars, rx, frame, lwip
  <2>2. QED
    BY <2>1 DEF ReceiveInv, RxTyped, TaskAt, Filled, Later, Oldest, Age, After, NextRx
<1>5. QED
  BY <1>1, <1>2, <1>3, <1>4 DEF Next, InputTask

(* low_level_input and ethernetif_input: lwIP gets the frames in the order  *)
(* of their arrival and none twice, for rings of any size, while interrupts *)
(* refill the ring, frames are dropped for want of a pbuf, and lwIP refuses *)
(* some.                                                                    *)
THEOREM FramesInOrder == Spec => []InOrder
<1>1. ReceiveInv => InOrder
  BY DEF ReceiveInv, TaskAt, Later, After, InOrder
<1>2. QED
  BY <1>1, InitReceive, StepReceive, PTL DEF Spec

-----------------------------------------------------------------------------
(* The link and the DHCP state machine. *)

FsmPlaces == {"none", "delay", "start", "started", "wait", "tries", "assign", "expire",
              "stop_static", "static", "stop", "off"}

(* dhcp_state_mut is made when init_task creates dhcp_fsm.                  *)
Created ==
  /\ dhcp_state \in DhcpStates /\ fsm \in FsmPlaces
  /\ dhcpMutex <=> init \in {"check", "start", "done"}
  /\ fsm = "none" <=> ~dhcpMutex
  /\ ~dhcpMutex => dhcp_state = "OFF"

(* What a task has looked at is so still, unless its look is stale: the     *)
(* state for dhcp_fsm, the interface for init_task.                         *)
Looked ==
  /\ fsm \in {"start", "started"} /\ "fsm" \notin stale => dhcp_state = "START"
  /\ init = "start" /\ "init" \notin stale => netUp
  /\ dhcp_state = "START" /\ ~overtaken => netUp

(* lwIP's client exists wherever dhcp_process works with it: dhcp_start is  *)
(* refused only when the link has gone down after the look.                 *)
NetifRefused == client = "none" /\ ~overtaken
ClientThere ==
  /\ NetifRefused /\ fsm = "started" => "fsm" \in stale
  /\ NetifRefused => /\ dhcp_state \notin {"WAIT_ADDRESS", "TIMEOUT"}
                /\ fsm \notin {"wait", "tries", "assign", "expire", "stop_static", "static"}

(* What lwIP does where dhcp_fsm is, and in the states it stays in.         *)
Stopped == client \in {"none", "off"}
InForce ==
  /\ fsm \in {"static", "off"} => Stopped
  /\ fsm = "assign" => client = "bound"
  /\ client = "bound" => addr = "dhcp" \/ overtaken \/ (fsm = "started" /\ "fsm" \in stale)
  /\ dhcp_state = "ADDRESS_ASSIGNED" => fsm = "delay" /\ client = "bound"
  /\ dhcp_state = "OFF" => fsm \in {"none", "delay"} /\ Stopped
  /\ dhcp_state = "TIMEOUT" => \/ fsm \in {"stop_static", "static"}
                               \/ fsm = "delay" /\ addr = "static" /\ Stopped

LInv == Created /\ Looked /\ ClientThere /\ InForce /\ client \in {"none", "off", "trying", "bound"}

-----------------------------------------------------------------------------

LEMMA InitL == LinkInit => LInv
BY DEF LinkInit, LInv, Created, Looked, ClientThere, NetifRefused, InForce, Stopped, DhcpStates, FsmPlaces

(* Requests of link_state and of init_task make the look of dhcp_fsm stale. *)
LEMMA LinkStep ==
  ASSUME LInv, NotifyConnChanged
  PROVE  LInv'
<1>1. UNCHANGED <<dhcpMutex, fsm, init, lwipDhcp>>
  BY DEF NotifyConnChanged
<1>2. CASE dhcpMutex
  <2>1. /\ dhcp_state' = IF link = "up" THEN "START" ELSE "LINK_DOWN"
        /\ netUp' = (link = "up")
        /\ overtaken => overtaken'
        /\ {"fsm", "init"} \subseteq stale'
    BY <1>2 DEF NotifyConnChanged, dhcp_set_state
  <2>2. Created' /\ Looked'
    BY <1>1, <1>2, <2>1 DEF LInv, Created, Looked, DhcpStates
  <2>3. ClientThere' /\ InForce'
    BY <1>1, <2>1 DEF LInv, ClientThere, NetifRefused, InForce, Stopped, lwipDhcp
  <2> QED BY <1>1, <2>2, <2>3 DEF LInv, lwipDhcp
<1>3. CASE ~dhcpMutex
  <2>1. UNCHANGED <<dhcp_state, history>>
    BY <1>3 DEF NotifyConnChanged, dhcp_set_state
  <2> QED
    BY <1>1, <1>3, <2>1
    DEF LInv, Created, Looked, ClientThere, NetifRefused, InForce, Stopped, lwipDhcp, history
<1> QED BY <1>2, <1>3

LEMMA ProcessStep ==
  ASSUME LInv, DhcpProcess
  PROVE  LInv'
<1>1. /\ fsm = "delay" /\ stale' = stale \ {"fsm"}
      /\ UNCHANGED <<netUp, dhcp_state, dhcpMutex, init, client, addr, overtaken>>
      /\ fsm' = CASE dhcp_state = "START"        -> "start"
                  [] dhcp_state = "WAIT_ADDRESS" -> "wait"
                  [] dhcp_state = "LINK_DOWN"    -> "stop"
                  [] OTHER                       -> "delay"
  BY DEF DhcpProcess, FsmAt, Looks, netif, lwipDhcp
<1>2. Created' /\ Looked'
  BY <1>1 DEF LInv, Created, Looked, FsmPlaces
<1>3. ClientThere' /\ InForce'
  BY <1>1 DEF LInv, ClientThere, NetifRefused, InForce, Stopped
<1> QED BY <1>1, <1>2, <1>3 DEF LInv

(* dhcp_start: a link that is down has made the look stale.                 *)
LEMMA StartStep ==
  ASSUME LInv, DhcpStart
  PROVE  LInv'
<1>1. /\ fsm = "start" /\ fsm' = "started" /\ addr' = "zero"
      /\ client' = IF netUp THEN "trying" ELSE client
      /\ UNCHANGED <<netUp, dhcp_state, dhcpMutex, init, stale, overtaken>>
  BY DEF DhcpStart, FsmAt, netif, history
<1>2. Created' /\ Looked'
  BY <1>1 DEF LInv, Created, Looked, FsmPlaces
<1>3. ~netUp => "fsm" \in stale \/ overtaken
  BY <1>1 DEF LInv, Looked
<1>4. ClientThere' /\ InForce'
  BY <1>1, <1>3 DEF LInv, ClientThere, NetifRefused, InForce, Stopped
<1> QED BY <1>1, <1>2, <1>4 DEF LInv

(* What dhcp_fsm sets is overtaking when its look was stale.                *)
LEMMA SetStateStep ==
  ASSUME LInv, SetState
  PROVE  LInv'
<1>1. /\ dhcpMutex /\ stale' = {"link", "init"}
      /\ overtaken' = (overtaken \/ "fsm" \in stale)
      /\ UNCHANGED <<netUp, dhcpMutex, init, client, addr>>
      /\ \/ fsm = "started" /\ dhcp_state' = "WAIT_ADDRESS" /\ fsm' = "delay"
         \/ fsm = "assign" /\ dhcp_state' = "ADDRESS_ASSIGNED" /\ fsm' = "delay"
         \/ fsm = "expire" /\ dhcp_state' = "TIMEOUT" /\ fsm' = "stop_static"
         \/ fsm = "off" /\ dhcp_state' = "OFF" /\ fsm' = "delay"
  BY DEF SetState, FsmAt, dhcp_set_state, LInv, Created, netif, lwipDhcp
<1>2. Created' /\ Looked'
  BY <1>1 DEF LInv, Created, Looked, FsmPlaces, DhcpStates
<1>3. ClientThere'
  BY <1>1 DEF LInv, ClientThere, NetifRefused
<1>4. InForce'
  BY <1>1 DEF LInv, InForce, Stopped
<1> QED BY <1>1, <1>2, <1>3, <1>4 DEF LInv

(* The rest of dhcp_process, and lwIP's own client.                         *)
LEMMA ClientStep ==
  ASSUME LInv, CheckSupplied \/ CheckTries \/ DhcpStop \/ StaticAddress \/ Answered \/ TryAgain
  PROVE  LInv'
<1>1. UNCHANGED <<netUp, dhcp_state, dhcpMutex, init, stale, overtaken>>
  BY DEF CheckSupplied, CheckTries, DhcpStop, StaticAddress, Answered, TryAgain, netif, history
<1>2. CASE CheckSupplied \/ CheckTries
  <2>1. /\ UNCHANGED <<client, addr>>
        /\ \/ fsm = "wait" /\ fsm' = IF client = "bound" THEN "assign" ELSE "tries"
           \/ fsm = "tries" /\ fsm' \in {"expire", "delay"}
    BY <1>2 DEF CheckSupplied, CheckTries, FsmAt, lwipDhcp
  <2>2. Created' /\ Looked'
    BY <1>1, <2>1 DEF LInv, Created, Looked, FsmPlaces
  <2>3. ClientThere' /\ InForce'
    BY <1>1, <2>1 DEF LInv, ClientThere, NetifRefused, InForce, Stopped
  <2> QED BY <2>1, <2>2, <2>3 DEF LInv
<1>3. CASE DhcpStop \/ StaticAddress
  <2>1. \/ /\ \/ fsm = "stop_static" /\ fsm' = "static"
              \/ fsm = "stop" /\ fsm' = "off"
           /\ client' = IF client = "none" THEN "none" ELSE "off"
           /\ addr' = IF client = "bound" THEN "zero" ELSE addr
        \/ fsm = "static" /\ fsm' = "delay" /\ addr' = "static" /\ UNCHANGED client
    BY <1>3 DEF DhcpStop, StaticAddress, FsmAt
  <2>2. Created' /\ Looked'
    BY <1>1, <2>1 DEF LInv, Created, Looked, FsmPlaces
  <2>3. ClientThere' /\ InForce'
    BY <1>1, <2>1 DEF LInv, ClientThere, NetifRefused, InForce, Stopped
  <2>4. client' \in {"none", "off", "trying", "bound"}
    BY <2>1 DEF LInv
  <2> QED BY <2>2, <2>3, <2>4 DEF LInv
<1>4. CASE Answered \/ TryAgain
  <2>1. /\ client = "trying" /\ UNCHANGED fsm
        /\ \/ client' = "bound" /\ addr' = "dhcp"
           \/ UNCHANGED <<client, addr>>
    BY <1>4 DEF Answered, TryAgain
  <2> QED
    BY <1>1, <2>1 DEF LInv, Created, Looked, ClientThere, NetifRefused, InForce, Stopped
<1> QED BY <1>2, <1>3, <1>4

(* init_task: netif_is_up is looked at before START is set.                 *)
LEMMA InitTaskStep ==
  ASSUME LInv, InitTask
  PROVE  LInv'
<1>1. UNCHANGED <<client, addr>>
  BY DEF InitTask, PhyInit, PhyEnableIrq, NetifSetup, CreateLinkState, CreateDhcpFsm, CheckNetifUp,
         EthernetifDhcpStart, lwipDhcp
<1>2. CASE PhyInit \/ PhyEnableIrq \/ NetifSetup \/ CreateLinkState
  <2>1. /\ UNCHANGED <<dhcp_state, dhcpMutex, fsm, history>>
        /\ init \in {"phy", "irq", "netif", "link_task"}
        /\ init' \in {"irq", "netif", "link_task", "dhcp_task"}
    BY <1>2 DEF PhyInit, PhyEnableIrq, NetifSetup, CreateLinkState
  <2> QED
    BY <1>1, <2>1 DEF LInv, Created, Looked, ClientThere, NetifRefused, InForce, Stopped, history
<1>3. CASE CreateDhcpFsm
  <2>1. /\ UNCHANGED <<netUp, dhcp_state, history>> /\ dhcpMutex' = TRUE
        /\ fsm' = "delay" /\ init = "dhcp_task" /\ init' = "check"
    BY <1>3 DEF CreateDhcpFsm, InitAt, netif
  <2> QED
    BY <1>1, <2>1
    DEF LInv, Created, Looked, ClientThere, NetifRefused, InForce, Stopped, FsmPlaces, history
<1>4. CASE CheckNetifUp
  <2>1. /\ UNCHANGED <<netUp, dhcp_state, dhcpMutex, fsm, overtaken>>
        /\ stale' = stale \ {"init"}
        /\ init = "check" /\ init' = IF netUp THEN "start" ELSE "done"
    BY <1>4 DEF CheckNetifUp, InitAt, Looks, netif
  <2> QED
    BY <1>1, <2>1 DEF LInv, Created, Looked, ClientThere, NetifRefused, InForce, Stopped
<1>5. CASE EthernetifDhcpStart
  <2>1. /\ UNCHANGED <<netUp, dhcpMutex, fsm>>
        /\ init = "start" /\ init' = "done" /\ dhcpMutex
        /\ dhcp_state' = "START" /\ stale' = {"link", "fsm"}
        /\ overtaken' = (overtaken \/ "init" \in stale)
    BY <1>5 DEF EthernetifDhcpStart, InitAt, dhcp_set_state, netif, LInv, Created
  <2>2. Created' /\ Looked'
    BY <2>1 DEF LInv, Created, Looked, DhcpStates
  <2>3. ClientThere' /\ InForce'
    BY <1>1, <2>1 DEF LInv, ClientThere, NetifRefused, InForce, Stopped
  <2> QED BY <1>1, <2>2, <2>3 DEF LInv
<1> QED BY <1>2, <1>3, <1>4, <1>5 DEF InitTask

LEMMA StepL == LInv /\ [LinkNext]_linkVars => LInv'
<1> SUFFICES ASSUME LInv, [LinkNext]_linkVars PROVE LInv'
  OBVIOUS
<1>1. CASE PhyChange \/ TakeLinkSemaphore \/ ReadMisr \/ UNCHANGED linkVars
  <2>1. UNCHANGED <<netUp, dhcp_state, dhcpMutex, fsm, init, lwipDhcp, history>>
    BY <1>1 DEF PhyChange, TakeLinkSemaphore, ReadMisr, linkVars, netif
  <2> QED
    BY <2>1 DEF LInv, Created, Looked, ClientThere, NetifRefused, InForce, Stopped, lwipDhcp, history
<1> QED
  BY <1>1, LinkStep, ProcessStep, StartStep, SetStateStep, ClientStep, InitTaskStep
  DEF LinkNext, LinkState, DhcpFsm, Lwip

LEMMA LInvHolds == LinkSpec => []LInv
<1> QED BY InitL, StepL, PTL DEF LinkSpec

(* ethernetif.c: between two rounds of dhcp_process, what dhcp_state says   *)
(* is what lwIP does, however the link bounces and whenever an answer comes *)
(* late -- as long as no request has been overwritten.                      *)
THEOREM AddressIsInForce == LinkSpec => []AddressInForce
<1>1. LInv => AddressInForce
  BY DEF LInv, ClientThere, NetifRefused, InForce, Stopped, AddressInForce
<1> QED BY LInvHolds, <1>1, PTL

(* ethernetif.c: dhcp->tries is read through a pointer lwIP has set, unless *)
(* a request has been overwritten.                                          *)
THEOREM TriesAreReadable == LinkSpec => []TriesReadable
<1>1. LInv => TriesReadable
  BY DEF LInv, ClientThere, NetifRefused, TriesReadable
<1> QED BY LInvHolds, <1>1, PTL
=============================================================================

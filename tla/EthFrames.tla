------------------------------ MODULE EthFrames ------------------------------
(***************************************************************************)
(* ethernetif.c: frames between the MAC's descriptor rings and lwIP.       *)
(* ethernetif_input has a higher priority than every task that sends, so   *)
(* it can stop one anywhere in low_level_output but is never stopped by    *)
(* it.  Interrupts and the MAC act at any moment.                          *)
(*                                                                         *)
(* A buffer holds any frame, so a frame takes one descriptor.  A frame to  *)
(* send is copied in two parts.                                            *)
(***************************************************************************)
EXTENDS Naturals

CONSTANTS
  RxNum,     \* ETH_RX_BUF_NUM
  TxNum,     \* ETH_TX_BUF_NUM
  Pbufs,     \* PBUF_POOL_SIZE, in frames
  MaxFrames, \* bound: frames are told apart up to this number
  Networks   \* what may happen around these tasks

ASSUME FramesAssumption ==
  /\ {RxNum, TxNum, Pbufs, MaxFrames} \subseteq Nat \ {0}
  /\ Networks \subseteq [early : BOOLEAN, sends : BOOLEAN, answers : BOOLEAN]

VARIABLES
  pc,        \* where ethernetif_input is
  sem,       \* eth_irq_sem is given
  rxOwn,     \* descriptors of the receive ring the DMA owns
  rxBuf,     \* number of the frame in each receive buffer
  rxPos,     \* the descriptor the DMA uses next
  RxDesc,    \* h_eth.RxDesc
  SegCount,  \* h_eth.RxFrameInfos.SegCount
  FSRxDesc,  \* h_eth.RxFrameInfos.FSRxDesc
  rbus,      \* ETH_DMASR_RBUS: a frame found no free buffer
  arrived,   \* number of the last frame
  p,         \* the frame in the allocated pbuf, or 0
  handed,    \* the last frame given to lwIP
  pool,      \* free pbufs
  queued,    \* frames lwIP keeps for the applications
  txOwn, txBuf, txPos, TxDesc, \* the same for the transmit ring
  Lock,      \* h_eth.Lock
  sender,    \* where the other sending task is in low_level_output
  desc,      \* its dma_tx_desc
  packet,    \* what it sends
  around     \* the member of Networks: frames arrive before ethernetif_input
             \* waits for them, another task sends, lwIP answers a frame in
             \* the task that hands it over

rx == <<rxOwn, rxBuf, rxPos, rbus, arrived>>
frame == <<RxDesc, SegCount, FSRxDesc>>
lwip == <<p, handed, pool, queued>>
tx == <<txOwn, txBuf, txPos, TxDesc>>
sending == <<Lock, sender, desc, packet>>
vars == <<pc, sem, rx, frame, lwip, tx, sending, around>>

Rx == 0..(RxNum - 1)
Tx == 0..(TxNum - 1)
Number == 0..MaxFrames
Packets == {"first", "second"}
Content == Packets \union {"answer", "none"}

FramesTypeOK ==
  /\ pc \in {"none", "take", "get", "alloc", "release", "give"}
  /\ sem \in BOOLEAN /\ rbus \in BOOLEAN /\ Lock \in BOOLEAN
  /\ rxOwn \subseteq Rx /\ rxBuf \in [Rx -> Number] /\ rxPos \in Rx
  /\ RxDesc \in Rx /\ FSRxDesc \in Rx /\ SegCount \in {0, 1}
  /\ {arrived, p, handed} \subseteq Number
  /\ {pool, queued} \subseteq 0..Pbufs
  /\ pool + queued + (IF p # 0 THEN 1 ELSE 0) = Pbufs
  /\ txOwn \subseteq Tx /\ txPos \in Tx /\ TxDesc \in Tx /\ desc \in Tx
  /\ txBuf \in [Tx -> [a : Content, b : Content]]
  /\ sender \in {"idle", "copy", "lock", "give"}
  /\ packet \in Packets
  /\ around \in Networks

Init ==
  /\ around \in Networks
  /\ pc = "none" /\ sem = FALSE
  /\ rxOwn = Rx /\ rxBuf = [d \in Rx |-> 0] /\ rxPos = 0
  /\ RxDesc = 0 /\ SegCount = 0 /\ FSRxDesc = 0
  /\ rbus = FALSE /\ arrived = 0
  /\ p = 0 /\ handed = 0 /\ pool = Pbufs /\ queued = 0
  /\ txOwn = {} /\ txBuf = [d \in Tx |-> [a |-> "none", b |-> "none"]]
  /\ txPos = 0 /\ TxDesc = 0
  /\ Lock = FALSE /\ sender = "idle" /\ desc = 0 /\ packet = "first"

NextRx(d) == (d + 1) % RxNum
NextTx(d) == (d + 1) % TxNum

InputReady == pc \notin {"none", "take"} \/ (pc = "take" /\ sem)

-----------------------------------------------------------------------------
(* The MAC *)

(* A frame is stored and the interrupt gives the semaphore, if it exists    *)
(* (ethernetif_rx_complete_cb); without a free descriptor it is lost.       *)
Receive ==
  /\ pc # "none" \/ around.early
  /\ IF rxPos \in rxOwn
     THEN /\ arrived' = IF arrived < MaxFrames THEN arrived + 1 ELSE arrived
          /\ rxBuf' = [rxBuf EXCEPT ![rxPos] = arrived']
          /\ rxOwn' = rxOwn \ {rxPos}
          /\ rxPos' = NextRx(rxPos)
          /\ sem' = (pc # "none")
          /\ UNCHANGED rbus
     ELSE rbus' = TRUE /\ UNCHANGED <<rxOwn, rxBuf, rxPos, arrived, sem>>
  /\ UNCHANGED <<pc, frame, lwip, tx, sending, around>>

Transmit ==
  /\ txPos \in txOwn
  /\ txOwn' = txOwn \ {txPos}
  /\ txPos' = NextTx(txPos)
  /\ UNCHANGED <<pc, sem, rx, frame, lwip, txBuf, TxDesc, sending, around>>

-----------------------------------------------------------------------------
(* ethernetif_input *)

InputStep(a, b) == pc = a /\ pc' = b /\ UNCHANGED around

CreateSemaphore ==
  /\ InputStep("none", "take")
  /\ UNCHANGED <<sem, rx, frame, lwip, tx, sending>>

TakeSemaphore ==
  /\ InputStep("take", "get")
  /\ sem /\ sem' = FALSE
  /\ UNCHANGED <<rx, frame, lwip, tx, sending>>

(* low_level_input: HAL_ETH_GetReceivedFrame fails when the ring is empty,  *)
(* and when the handle is locked.                                           *)
NoFrame ==
  /\ InputStep("get", "take")
  /\ Lock \/ RxDesc \in rxOwn
  /\ UNCHANGED <<sem, rx, frame, lwip, tx, sending>>

GetFrame ==
  /\ InputStep("get", "alloc")
  /\ ~Lock /\ RxDesc \notin rxOwn
  /\ SegCount' = SegCount + 1
  /\ FSRxDesc' = IF SegCount' = 1 THEN RxDesc ELSE FSRxDesc
  /\ RxDesc' = NextRx(RxDesc)
  /\ UNCHANGED <<sem, rx, lwip, tx, sending>>

CopyFrame ==
  /\ InputStep("alloc", "release")
  /\ IF pool > 0 THEN p' = rxBuf[FSRxDesc] /\ pool' = pool - 1 ELSE UNCHANGED <<p, pool>>
  /\ UNCHANGED <<sem, rx, frame, handed, queued, tx, sending>>

Released == {d \in Rx : \E i \in 0..(SegCount - 1) : d = (FSRxDesc + i) % RxNum}

ReleaseFrameSegCount ==
  /\ InputStep("release", IF p # 0 THEN "give" ELSE "take")
  /\ rxOwn' = rxOwn \union Released
  /\ rbus' = FALSE
  /\ UNCHANGED <<SegCount, sem, rxBuf, rxPos, arrived, RxDesc, FSRxDesc, lwip, tx, sending>>

ReleaseFrameNoResume ==
  /\ InputStep("release", IF p # 0 THEN "give" ELSE "take")
  /\ rxOwn' = rxOwn \union Released
  /\ SegCount' = 0
  /\ UNCHANGED <<rbus, sem, rxBuf, rxPos, arrived, RxDesc, FSRxDesc, lwip, tx, sending>>

(* The descriptors go back to the DMA, which resumes if it was suspended.   *)
ReleaseFrame ==
  /\ InputStep("release", IF p # 0 THEN "give" ELSE "take")
  /\ rxOwn' = rxOwn \union Released
  /\ SegCount' = 0
  /\ rbus' = FALSE
  /\ UNCHANGED <<sem, rxBuf, rxPos, arrived, RxDesc, FSRxDesc, lwip, tx, sending>>

(* netif->input is ethernet_input: lwIP runs in this task. *)
HandOver ==
  /\ InputStep("give", "get")
  /\ handed' = p
  /\ p' = 0
  /\ \/ queued' = queued + 1 /\ UNCHANGED pool
     \/ pool' = pool + 1 /\ UNCHANGED queued
  /\ UNCHANGED <<sem, rx, frame, sending>>

(* lwIP refuses it: the pbuf is freed and the loop ends. *)
Refused ==
  /\ InputStep("give", "take")
  /\ p' = 0 /\ pool' = pool + 1
  /\ UNCHANGED <<sem, rx, frame, handed, queued, tx, sending>>

NoAnswer == UNCHANGED tx

(* low_level_output, as far as it gets: no free descriptor is an error, a   *)
(* locked handle is none for the caller.                                    *)
AnswerFrame ==
  /\ around.answers /\ TxDesc \notin txOwn
  /\ txBuf' = [txBuf EXCEPT ![TxDesc] = [a |-> "answer", b |-> "answer"]]
  /\ IF Lock THEN UNCHANGED <<txOwn, TxDesc>>
     ELSE txOwn' = txOwn \union {TxDesc} /\ TxDesc' = NextTx(TxDesc)
  /\ UNCHANGED txPos

GiveFrame == HandOver /\ (NoAnswer \/ AnswerFrame)

(* An application reads what lwIP has kept. *)
ReadQueued ==
  /\ ~InputReady /\ queued > 0
  /\ queued' = queued - 1 /\ pool' = pool + 1
  /\ UNCHANGED <<pc, sem, rx, frame, p, handed, tx, sending, around>>

-----------------------------------------------------------------------------
(* low_level_output in another task; lwIP's core lock admits one at a time. *)

SenderStep(a, b) ==
  /\ around.sends /\ ~InputReady
  /\ sender = a /\ sender' = b
  /\ UNCHANGED <<pc, sem, rx, frame, lwip, around>>

StartCopyBug ==
  /\ SenderStep("idle", "copy")
  /\ desc' = TxDesc
  /\ txBuf' = [txBuf EXCEPT ![TxDesc].a = packet]
  /\ UNCHANGED <<txOwn, txPos, TxDesc, Lock, packet>>

StartCopy ==
  /\ SenderStep("idle", "copy")
  /\ TxDesc \notin txOwn
  /\ desc' = TxDesc
  /\ txBuf' = [txBuf EXCEPT ![TxDesc].a = packet]
  /\ UNCHANGED <<txOwn, txPos, TxDesc, Lock, packet>>

CopyRest ==
  /\ SenderStep("copy", "lock")
  /\ txBuf' = [txBuf EXCEPT ![desc].b = packet]
  /\ UNCHANGED <<txOwn, txPos, TxDesc, Lock, desc, packet>>

(* HAL_ETH_TransmitFrame: __HAL_LOCK, *)
LockHandle ==
  /\ SenderStep("lock", "give")
  /\ Lock' = TRUE
  /\ UNCHANGED <<tx, desc, packet>>

(* the descriptor of the handle is given to the DMA, __HAL_UNLOCK. *)
GiveToDma ==
  /\ SenderStep("give", "idle")
  /\ IF TxDesc \in txOwn THEN UNCHANGED <<txOwn, TxDesc>>
     ELSE txOwn' = txOwn \union {TxDesc} /\ TxDesc' = NextTx(TxDesc)
  /\ Lock' = FALSE
  /\ packet' = CHOOSE q \in Packets : q # packet
  /\ UNCHANGED <<txBuf, txPos, desc>>

-----------------------------------------------------------------------------

InputTask ==
  \/ CreateSemaphore \/ TakeSemaphore \/ NoFrame \/ GetFrame \/ CopyFrame
  \/ ReleaseFrame \/ GiveFrame \/ Refused

Sender == StartCopy \/ CopyRest \/ LockHandle \/ GiveToDma

Next == Receive \/ Transmit \/ InputTask \/ ReadQueued \/ Sender

Spec == Init /\ [][Next]_vars

(* Frames keep coming and the tasks run. *)
FairSpec == Spec /\ WF_vars(Receive) /\ WF_vars(InputTask) /\ SF_vars(Sender)

-----------------------------------------------------------------------------

(* lwIP gets the frames in the order of their arrival, none twice, although *)
(* the ring is refilled while it is read.                                   *)
InOrder == pc = "give" => p > handed \/ p = MaxFrames

(* The MAC finds one packet in a buffer it may send from, unless lwIP also  *)
(* answers from ethernetif_input, where it does not have its core lock.     *)
OnePacket == \A d \in txOwn : txBuf[d].a = txBuf[d].b
WholeFrames == (around.sends /\ around.answers) \/ OnePacket

(* "When Rx Buffer unavailable flag is set: clear it and resume reception": *)
(* it is, with pbufs or without, when ethernetif_input is there before the  *)
(* first frame and no other task holds the handle's lock.                   *)
ReceptionResumes == (rbus /\ ~around.early /\ ~around.sends) ~> ~rbus
AlwaysResumes == rbus ~> ~rbus
=============================================================================

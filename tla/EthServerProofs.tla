--------------------------- MODULE EthServerProofs ---------------------------
(***************************************************************************)
(* Proofs about EthServer for any number of slots, of descriptors and of   *)
(* waiting connections.                                                    *)
(***************************************************************************)
EXTENDS EthServer, FiniteSetTheorems, TLAPS

-----------------------------------------------------------------------------
(* The inductive invariant.  A descriptor in the table is open, except      *)
(* between lwip_close and the clearing of its slot.                         *)
Placed ==
  \A i \in Slot :
    clients[i] # 0 => conn[clients[i]] # "closed" \/ (server \in {"drop_lock", "drop_set"} /\ i = slot)

(* The descriptor being added is open and in no slot yet. *)
AddingInv ==
  /\ server = "accept" => pending > 0
  /\ server \in {"add", "add_lock", "add_set"} =>
       clientfd # 0 /\ clientfd \notin Table /\ conn[clientfd] # "closed"
  /\ server \in {"add_lock", "add_set"} => slot \in Slot

(* The descriptor being dropped is the one in its slot. *)
DroppingInv ==
  server \in {"read", "close", "drop_lock", "drop_set"} =>
    slot \in Slot /\ clientfd = clients[slot] /\ clientfd # 0

(* Who holds clients_mut; the sender at a slot is within the table. *)
MutexInv ==
  /\ sender = "write" => mutex = "sender"
  /\ server \in {"add_set", "drop_set"} => mutex = "server"
  /\ sender \in {"lock", "write"} => pos \in Slot

(* A descriptor that is closed under a write has its server waiting for the *)
(* mutex of that write.                                                     *)
WritingInv ==
  sender = "write" /\ writefd # 0 => conn[writefd] # "closed" \/ server = "drop_lock"

IInv ==
  /\ ServerTypeOK
  /\ OneSlotEach
  /\ Placed
  /\ AddingInv
  /\ DroppingInv
  /\ MutexInv
  /\ WritingInv

-----------------------------------------------------------------------------

(* No client is connected at first. *)
LEMMA InitInv == Init => IInv
  BY ServerAssumption
  DEF Init, IInv, ServerTypeOK, OneSlotEach, Placed, AddingInv, DroppingInv, MutexInv, WritingInv,
      Slot, ClientFd, Fd, ConnState, Table

(* Accept and ReadClient touch most of it: a new descriptor is in no slot,  *)
(* since those in the table are open while the server accepts.              *)
LEMMA StepInv == IInv /\ [Next]_vars => IInv'
<1> SUFFICES ASSUME IInv, [Next]_vars PROVE IInv'
  OBVIOUS
<1> USE ServerAssumption
        DEF IInv, ServerTypeOK, OneSlotEach, Placed, AddingInv, DroppingInv, MutexInv, WritingInv,
            Slot, ClientFd, Fd, ConnState, Table, net, serverVars, senderVars, history, ServerAt
<1>1. CASE Connect
  BY <1>1 DEF Connect
<1>2. CASE \E f \in ClientFd : PeerSends(f)
  BY <1>2 DEF PeerSends
<1>3. CASE \E f \in ClientFd : PeerCloses(f)
  BY <1>3 DEF PeerCloses
<1>4. CASE Select
  <2>1. ServerTypeOK'
    BY <1>4 DEF Select
  <2>2. OneSlotEach' /\ Placed'
    BY <1>4 DEF Select
  <2>3. AddingInv' /\ DroppingInv' /\ MutexInv' /\ WritingInv'
    BY <1>4 DEF Select
  <2>4. QED
    BY <2>1, <2>2, <2>3
<1>5. CASE Accept
  <2>1. PICK f \in ClientFd :
          /\ conn[f] = "closed"
          /\ conn' = [conn EXCEPT ![f] = "quiet"]
          /\ clientfd' = f
          /\ writes' = [writes EXCEPT ![f] = 0]
    BY <1>5 DEF Accept
  <2>2. server = "accept" /\ server' = "add" /\ pending' = pending - 1
        /\ UNCHANGED <<clients, mutex, queue, slot, readfds, senderVars, present>>
    BY <1>5 DEF Accept
  <2>3. f \notin Table
    BY <2>1, <2>2
  <2>4. ServerTypeOK'
    BY <2>1, <2>2
  <2>5. Placed' /\ OneSlotEach'
    BY <2>1, <2>2
  <2>6. AddingInv'
    BY <2>1, <2>2, <2>3
  <2>7. DroppingInv' /\ MutexInv' /\ WritingInv'
    BY <2>1, <2>2
  <2>8. QED
    BY <2>4, <2>5, <2>6, <2>7
<1>6. CASE AcceptFails
  BY <1>6 DEF AcceptFails
<1>7. CASE AddClient
  <2>1. ServerTypeOK'
    BY <1>7 DEF AddClient
  <2>2. OneSlotEach' /\ Placed'
    BY <1>7 DEF AddClient
  <2>3. AddingInv' /\ DroppingInv' /\ MutexInv' /\ WritingInv'
    BY <1>7 DEF AddClient
  <2>4. QED
    BY <2>1, <2>2, <2>3
<1>8. CASE TakeMutex
  BY <1>8 DEF TakeMutex
<1>9. CASE SetSlot
  <2>1. ServerTypeOK'
    BY <1>9 DEF SetSlot
  <2>2. OneSlotEach' /\ Placed'
    BY <1>9 DEF SetSlot
  <2>3. AddingInv' /\ DroppingInv' /\ MutexInv' /\ WritingInv'
    BY <1>9 DEF SetSlot
  <2>4. QED
    BY <2>1, <2>2, <2>3
<1>10. CASE CheckClient
  <2>1. server = "check" /\ server' \in {"select", "read", "check"}
        /\ UNCHANGED <<conn, pending, clients, mutex, queue, readfds, senderVars, history>>
    BY <1>10 DEF CheckClient
  <2>2. CASE slot = MaxClients
    BY <1>10, <2>1, <2>2 DEF CheckClient
  <2>3. CASE slot # MaxClients
    <3>1. /\ slot \in Slot
          /\ clientfd' = clients[slot]
          /\ slot' \in {slot, slot + 1}
          /\ server' \in {"read", "check"}
          /\ server' = "read" => clients[slot] # 0 /\ slot' = slot
      BY <1>10, <2>1, <2>3 DEF CheckClient
    <3>2. ServerTypeOK'
      BY <2>1, <3>1
    <3>3. OneSlotEach' /\ Placed' /\ AddingInv' /\ MutexInv' /\ WritingInv'
      BY <2>1
    <3>4. DroppingInv'
      BY <2>1, <3>1
    <3>5. QED
      BY <3>2, <3>3, <3>4
  <2>4. QED
    BY <2>2, <2>3
<1>11. CASE ReadClient
  <2>1. clientfd \in ClientFd /\ server = "read"
    BY <1>11 DEF ReadClient
  <2>2. CASE conn[clientfd] = "data"
    <3>1. /\ conn' = [conn EXCEPT ![clientfd] = "quiet"]
          /\ slot' = slot + 1
          /\ server' = "check"
          /\ UNCHANGED <<pending, clients, mutex, queue, readfds, clientfd, senderVars, history>>
      BY <1>11, <2>2 DEF ReadClient
    <3>2. \A f \in ClientFd : conn'[f] # "closed" <=> conn[f] # "closed"
      BY <2>1, <2>2, <3>1
    <3>3. ServerTypeOK' /\ OneSlotEach' /\ AddingInv' /\ DroppingInv' /\ MutexInv'
      BY <2>1, <3>1
    <3>4. Placed' /\ WritingInv'
      BY <2>1, <3>1, <3>2
    <3>5. QED
      BY <3>3, <3>4
  <2>3. CASE conn[clientfd] = "gone"
    BY <1>11, <2>1, <2>3 DEF ReadClient
  <2>4. QED
    BY <1>11, <2>2, <2>3 DEF ReadClient
<1>12. CASE CloseClient
  <2>1. ServerTypeOK'
    BY <1>12 DEF CloseClient
  <2>2. OneSlotEach' /\ Placed'
    <3>1. OneSlotEach'
      BY <1>12 DEF CloseClient
    <3>2. Placed'
      BY <1>12 DEF CloseClient
    <3>3. QED
      BY <3>1, <3>2
  <2>3. AddingInv' /\ DroppingInv' /\ MutexInv' /\ WritingInv'
    BY <1>12 DEF CloseClient
  <2>4. QED
    BY <2>1, <2>2, <2>3
<1>13. CASE ClearSlot
  <2>1. ServerTypeOK'
    BY <1>13 DEF ClearSlot
  <2>2. OneSlotEach' /\ Placed'
    BY <1>13 DEF ClearSlot
  <2>3. AddingInv' /\ DroppingInv' /\ MutexInv' /\ WritingInv'
    BY <1>13 DEF ClearSlot
  <2>4. QED
    BY <2>1, <2>2, <2>3
<1>14. CASE QueuePacket
  BY <1>14 DEF QueuePacket
<1>15. CASE ReceivePacket
  BY <1>15 DEF ReceivePacket
<1>16. CASE NextClient
  BY <1>16 DEF NextClient
<1>17. CASE StartWrite
  BY <1>17 DEF StartWrite
<1>18. CASE EndWrite
  BY <1>18 DEF EndWrite
<1>19. CASE EndDelay
  BY <1>19 DEF EndDelay
<1>20. CASE UNCHANGED vars
  BY <1>20 DEF vars
<1>21. QED
  BY <1>1, <1>2, <1>3, <1>4, <1>5, <1>6, <1>7, <1>8, <1>9, <1>10, <1>11, <1>12, <1>13, <1>14, <1>15, <1>16, <1>17, <1>18, <1>19, <1>20 DEF Next, Peers, Server, Sender

-----------------------------------------------------------------------------

(* Every reachable state satisfies the inductive invariant. *)
LEMMA Invariance == Spec => []IInv
  BY InitInv, StepInv, PTL DEF Spec

(* The table, the loop indices and the program counters of both tasks stay  *)
(* in range: no slot outside the table is ever read or written.             *)
THEOREM TypeCorrect == Spec => []ServerTypeOK
<1>1. IInv => ServerTypeOK
  BY DEF IInv
<1>2. QED
  BY <1>1, Invariance, PTL

(* However peers connect and hang up, a descriptor is in one slot at most,  *)
(* although descriptors are reused at once and add_client looks at the      *)
(* table without the mutex.                                                 *)
THEOREM NoDuplicateSlots == Spec => []OneSlotEach
<1>1. IInv => OneSlotEach
  BY DEF IInv
<1>2. QED
  BY <1>1, Invariance, PTL

(* A descriptor eth_sender writes to is not given to a new connection       *)
(* before lwip_write returns, although eth_server closes it without the     *)
(* mutex: it then waits for that mutex before it accepts again.             *)
THEOREM WritesStayWithTheirPeer == Spec => NoReuseWhileWriting
<1>1. ASSUME IInv, [Next]_vars
      PROVE  [\A f \in ClientFd :
                sender = "write" /\ sender' = "write" /\ writefd = f /\ conn[f] = "closed"
                  => conn'[f] = "closed"]_vars
  <2> SUFFICES ASSUME Next,
                      NEW f \in ClientFd,
                      sender = "write", sender' = "write", writefd = f, conn[f] = "closed"
               PROVE  conn'[f] = "closed"
    BY <1>1
  <2>1. server = "drop_lock" /\ f # 0
    BY <1>1 DEF IInv, WritingInv, ClientFd
  <2>2. conn \in [ClientFd -> ConnState]
    BY <1>1 DEF IInv, ServerTypeOK
  <2>3. CASE Peers
    BY <2>2, <2>3 DEF Peers, Connect, PeerSends, PeerCloses
  <2>4. CASE Server
    BY <2>1, <2>4
    DEF Server, ServerAt, Select, Accept, AcceptFails, AddClient, TakeMutex, SetSlot,
        CheckClient, ReadClient, CloseClient, ClearSlot, net
  <2>5. CASE Sender \/ QueuePacket
    BY <2>5
    DEF Sender, QueuePacket, ReceivePacket, NextClient, StartWrite, EndWrite, EndDelay, net
  <2>6. QED
    BY <2>3, <2>4, <2>5 DEF Next
<1>2. QED
  BY <1>1, Invariance, PTL DEF Spec, NoReuseWhileWriting

-----------------------------------------------------------------------------
(* Each client is sent each packet once.  The loop of sender_ethernet has   *)
(* been at the slots it has passed; a descriptor enters the table with no   *)
(* write behind it, and a slot is overwritten only when it is free, or its  *)
(* connection closed.                                                       *)
InLoop == sender \in {"each", "lock", "write"}
Passed(i) == i < pos \/ (i = pos /\ sender = "write") \/ sender = "delay"
Open(f) == conn[f] # "closed"

SlotInv ==
  /\ server \in {"add_lock", "add_set"} => clients[slot] = 0
  /\ server \in {"drop_lock", "drop_set"} => conn[clientfd] = "closed"
  /\ server \in {"add", "add_lock", "add_set"} => writes[clientfd] = 0

PresentInv == \A f \in present : Open(f) /\ f \in Table

SentInv ==
  /\ \A f \in ClientFd : Open(f) => writes[f] <= 1
  /\ \A i \in Slot : clients[i] # 0 =>
       /\ InLoop /\ Open(clients[i]) /\ ~Passed(i) => writes[clients[i]] = 0
       /\ sender # "receive" /\ clients[i] \in present /\ Passed(i) => writes[clients[i]] = 1

OnceInv == SlotInv /\ PresentInv /\ SentInv

LEMMA InitOnce == Init => OnceInv
  BY DEF Init, OnceInv, SlotInv, PresentInv, SentInv, InLoop, Open

LEMMA StepOnce == IInv /\ IInv' /\ OnceInv /\ [Next]_vars => OnceInv'
<1> SUFFICES ASSUME IInv, IInv', OnceInv, [Next]_vars PROVE OnceInv'
  OBVIOUS
<1> USE DEF OnceInv
<1>0. /\ ServerTypeOK /\ OneSlotEach /\ AddingInv /\ DroppingInv /\ MutexInv /\ ServerTypeOK'
      /\ MaxClients \in Nat
  BY ServerAssumption DEF IInv
<1>1. CASE Peers
  <2>1. /\ UNCHANGED <<clients, server, slot, clientfd, sender, pos, writes, present>>
        /\ \A f \in ClientFd : Open(f)' <=> Open(f)
    BY <1>0, <1>1 DEF Peers, Connect, PeerSends, PeerCloses, serverVars, senderVars, history, Open, ServerTypeOK
  <2>2. SlotInv'
    <3>1. server \in {"drop_lock", "drop_set"} => clientfd \in ClientFd
      BY <1>0 DEF DroppingInv, ServerTypeOK, ClientFd, Fd
    <3>2. QED
      BY <2>1, <3>1 DEF SlotInv, Open
  <2>3. PresentInv'
    BY <1>0, <2>1 DEF PresentInv, Table, ServerTypeOK
  <2>4. SentInv'
    BY <1>0, <2>1 DEF SentInv, InLoop, Passed, ServerTypeOK, ClientFd, Fd
  <2>5. QED
    BY <2>2, <2>3, <2>4
<1>2. CASE Server
  <2> USE DEF net, serverVars, senderVars, history, ServerAt
  <2>1. CASE Select \/ AcceptFails \/ TakeMutex \/ CheckClient
    BY <1>0, <2>1
    DEF Select, AcceptFails, TakeMutex, CheckClient, SlotInv, PresentInv, SentInv, InLoop, Passed, Open, Table
  <2>2. CASE Accept
    BY <1>0, <2>2 
    DEF Accept, SlotInv, PresentInv, SentInv, InLoop, Passed, Open, Table, ServerTypeOK, ClientFd, Fd, ConnState
  <2>3. CASE AddClient
    BY <1>0, <2>3
    DEF AddClient, SlotInv, PresentInv, SentInv, InLoop, Passed, Open, Table, ServerTypeOK
  <2>4. CASE SetSlot
    BY <1>0, <2>4
    DEF SetSlot, SlotInv, PresentInv, SentInv, InLoop, Passed, Open, Table, ServerTypeOK, AddingInv
  <2>5. CASE ReadClient
    BY <1>0, <2>5
    DEF ReadClient, SlotInv, PresentInv, SentInv, InLoop, Passed, Open, Table, ServerTypeOK, DroppingInv, ClientFd, Fd
  <2>6. CASE CloseClient
    BY <1>0, <2>6
    DEF CloseClient, SlotInv, PresentInv, SentInv, InLoop, Passed, Open, Table, ServerTypeOK, DroppingInv, ClientFd, Fd
  <2>7. CASE ClearSlot
    BY <1>0, <2>7
    DEF ClearSlot, SlotInv, PresentInv, SentInv, InLoop, Passed, Open, Table, ServerTypeOK, DroppingInv, ClientFd, Fd
  <2>8. QED
    BY <1>2, <2>1, <2>2, <2>3, <2>4, <2>5, <2>6, <2>7 DEF Server
<1>3. CASE Sender
  <2> USE DEF net, serverVars, senderVars, history
  <2>1. CASE ReceivePacket
    <3>1. /\ UNCHANGED <<conn, clients, server, slot, clientfd>>
          /\ sender' = "each" /\ pos' = 0
          /\ \A f \in ClientFd : writes'[f] = 0
          /\ present' = {f \in Table : conn[f] # "closed"}
      BY <2>1 DEF ReceivePacket
    <3>2. server \in {"add", "add_lock", "add_set"} => clientfd \in ClientFd
      BY <1>0 DEF AddingInv, ServerTypeOK, ClientFd, Fd
    <3>3. SlotInv' /\ PresentInv'
      BY <3>1, <3>2 DEF SlotInv, PresentInv, Open, Table
    <3>4. \A i \in Slot : clients[i] # 0 => clients[i] \in ClientFd
      BY <1>0 DEF ServerTypeOK, ClientFd, Fd
    <3>5. \A i \in Slot : ~Passed(i)'
      BY <3>1 DEF Passed, Slot
    <3>6. QED
      BY <3>1, <3>3, <3>4, <3>5 DEF SentInv
  <2>2. CASE NextClient
    BY <1>0, <2>2
    DEF NextClient, SlotInv, PresentInv, SentInv, InLoop, Passed, Open, Table, ServerTypeOK, Slot
  <2>3. CASE StartWrite
    BY <1>0, <2>3
    DEF StartWrite, SlotInv, PresentInv, SentInv, InLoop, Passed, Open, Table, ServerTypeOK, Slot, ClientFd, Fd,
        AddingInv, MutexInv, OneSlotEach
  <2>4. CASE EndWrite
    BY <1>0, <2>4
    DEF EndWrite, SlotInv, PresentInv, SentInv, InLoop, Passed, Open, Table, ServerTypeOK, Slot, MutexInv
  <2>5. CASE EndDelay
    BY <1>0, <2>5
    DEF EndDelay, SlotInv, PresentInv, SentInv, InLoop, Passed, Open, Table, ServerTypeOK, Slot
  <2>6. QED
    BY <1>3, <2>1, <2>2, <2>3, <2>4, <2>5 DEF Sender
<1>4. CASE QueuePacket \/ UNCHANGED vars
  BY <1>4
  DEF QueuePacket, vars, net, serverVars, senderVars, history,
      SlotInv, PresentInv, SentInv, InLoop, Passed, Open, Table
<1>5. QED
  BY <1>1, <1>2, <1>3, <1>4 DEF Next

(* eth_sender.c: a client that was in the table when the loop began and was *)
(* not dropped meanwhile has been sent the packet once when it ends, and no *)
(* connection is ever sent it twice, although the loop looks at the table   *)
(* without the mutex and the server changes it meanwhile.                   *)
THEOREM PacketOncePerClient == Spec => []EachOnce
<1>1. IInv /\ OnceInv => EachOnce
  <2> SUFFICES ASSUME IInv, OnceInv PROVE EachOnce
    OBVIOUS
  <2>1. \A f \in present : f # 0 /\ \E i \in Slot : clients[i] = f
    BY DEF OnceInv, PresentInv, Table
  <2>2. QED
    BY <2>1 DEF OnceInv, SentInv, Passed, Open, EachOnce
<1>2. QED
  BY <1>1, InitInv, StepInv, InitOnce, StepOnce, PTL DEF Spec

-----------------------------------------------------------------------------
(* The connections that found no free slot are never more than the          *)
(* descriptors the table cannot hold.                                       *)

(* With no free slot, the table holds MaxClients different descriptors, and *)
(* what it does not hold fits into the rest.                                *)
LEMMA FullTable ==
  ASSUME ServerTypeOK, OneSlotEach, \A i \in Slot : clients[i] # 0,
         NEW S \in SUBSET ClientFd, S \intersect Table = {}
  PROVE  MaxClients + Cardinality(S) < NumSockets
<1>1. /\ IsFiniteSet(ClientFd) /\ Cardinality(ClientFd) = NumSockets - 1
      /\ IsFiniteSet(Slot) /\ Cardinality(Slot) = MaxClients
  <2>1. /\ 0 \in Int /\ 1 \in Int /\ MaxClients - 1 \in Int /\ NumSockets - 1 \in Int
        /\ ~(0 > MaxClients - 1) /\ (1 > NumSockets - 1 => NumSockets - 1 = 0)
    BY ServerAssumption
  <2>2. IsFiniteSet(ClientFd) /\ Cardinality(ClientFd) = NumSockets - 1
    <3>1. /\ IsFiniteSet(1..(NumSockets - 1))
          /\ Cardinality(1..(NumSockets - 1))
               = IF 1 > NumSockets - 1 THEN 0 ELSE (NumSockets - 1) - 1 + 1
      BY <2>1, FS_Interval
    <3>2. QED
      BY <2>1, <3>1 DEF ClientFd
  <2>3. IsFiniteSet(Slot) /\ Cardinality(Slot) = MaxClients
    <3>1. /\ IsFiniteSet(0..(MaxClients - 1))
          /\ Cardinality(0..(MaxClients - 1))
               = IF 0 > MaxClients - 1 THEN 0 ELSE (MaxClients - 1) - 0 + 1
      BY <2>1, FS_Interval
    <3>2. QED
      BY <2>1, <3>1, ServerAssumption DEF Slot
  <2>4. QED
    BY <2>2, <2>3
<1>2. Table \subseteq ClientFd /\ clients \in [Slot -> Table]
  BY DEF ServerTypeOK, Table, ClientFd, Fd
<1>3. clients \in Injection(Slot, Table)
  BY <1>2 DEF OneSlotEach, Injection, IsInjective
<1>4. IsFiniteSet(Table) /\ IsFiniteSet(S)
  BY <1>1, <1>2, FS_Subset
<1>5. Cardinality(Slot) <= Cardinality(Table)
  BY <1>3, <1>4, FS_Injection
<1>6. Cardinality(S \union Table) = Cardinality(S) + Cardinality(Table)
  <2>1. Cardinality(S \intersect Table) = 0
    BY FS_EmptySet
  <2>2. Cardinality(S \union Table)
          = Cardinality(S) + Cardinality(Table) - Cardinality(S \intersect Table)
    BY <1>4, FS_Union
  <2>3. Cardinality(S) \in Nat /\ Cardinality(Table) \in Nat
    BY <1>4, FS_CardinalityType
  <2>4. QED
    BY <2>1, <2>2, <2>3
<1>7. Cardinality(S \union Table) <= Cardinality(ClientFd)
  BY <1>1, <1>2, FS_Subset
<1>8. Cardinality(S) \in Nat /\ Cardinality(Table) \in Nat
  BY <1>4, FS_CardinalityType
<1>9. QED
  BY <1>1, <1>5, <1>6, <1>7, <1>8, ServerAssumption

LEMMA FewerUntracked ==
  ASSUME Tracked, Untracked' \subseteq Untracked
  PROVE  Tracked'
<1>1. Untracked \subseteq ClientFd
  BY DEF Untracked
<1>2. IsFiniteSet(ClientFd)
  BY FS_Interval, ServerAssumption DEF ClientFd
<1>3. IsFiniteSet(Untracked)
  BY <1>1, <1>2, FS_Subset
<1>4. Cardinality(Untracked') <= Cardinality(Untracked) /\ IsFiniteSet(Untracked')
  BY <1>3, FS_Subset
<1>5. Cardinality(Untracked') \in Nat /\ Cardinality(Untracked) \in Nat
  BY <1>3, <1>4, FS_CardinalityType
<1>6. QED
  BY <1>4, <1>5, ServerAssumption DEF Tracked

LEMMA InitTracked == Init => Tracked
  BY DEF Init, Tracked, Untracked

LEMMA StepTracked == IInv /\ IInv' /\ OnceInv /\ Tracked /\ [Next]_vars => Tracked'
<1> SUFFICES ASSUME IInv, IInv', OnceInv, Tracked, [Next]_vars PROVE Tracked'
  OBVIOUS
<1>0. /\ ServerTypeOK /\ OneSlotEach /\ AddingInv /\ DroppingInv /\ SlotInv
      /\ ServerTypeOK' /\ OneSlotEach' /\ AddingInv'
  BY DEF IInv, OnceInv
<1>1. CASE AddClient /\ server' = "check"
  <2>1. (\A i \in Slot : clients[i] # 0) /\ Table' = Table
    BY <1>1, <1>0 DEF AddClient, ServerAt, Table
  <2>2. Untracked' \in SUBSET ClientFd /\ Untracked' \intersect Table = {}
    BY <2>1 DEF Untracked
  <2>3. MaxClients + Cardinality(Untracked') < NumSockets
    BY <1>0, <2>1, <2>2, FullTable
  <2>4. QED
    BY <2>3 DEF Tracked
<1>2. CASE Accept
  <2>1. \A f \in ClientFd : f # clientfd' => conn'[f] = conn[f]
    BY <1>0, <1>2 DEF Accept, ServerTypeOK
  <2>2. server' = "add" /\ server = "accept" /\ clients' = clients
    BY <1>2 DEF Accept, ServerAt
  <2>3. Untracked' \subseteq Untracked
    BY <2>1, <2>2 DEF Untracked, Adding, Table
  <2>4. QED
    BY <2>3, FewerUntracked
<1>3. CASE SetSlot
  <2>1. /\ conn' = conn /\ slot \in Slot /\ clients[slot] = 0 /\ server' = "check"
        /\ clients' = [clients EXCEPT ![slot] = clientfd] /\ server = "add_set"
    BY <1>0, <1>3 DEF SetSlot, ServerAt, net, AddingInv, SlotInv
  <2>2. Table' = Table \union {clientfd} /\ clientfd # 0
    BY <1>0, <2>1 DEF Table, ServerTypeOK, AddingInv
  <2>3. Untracked' \subseteq Untracked
    BY <2>1, <2>2 DEF Untracked, Adding
  <2>4. QED
    BY <2>3, FewerUntracked
<1>4. CASE ClearSlot
  <2>1. /\ conn' = conn /\ slot \in Slot /\ conn[clients[slot]] = "closed"
        /\ clients' = [clients EXCEPT ![slot] = 0] /\ server = "drop_set" /\ server' = "check"
    BY <1>0, <1>4 DEF ClearSlot, ServerAt, net, DroppingInv, SlotInv
  <2>2. \A f \in Table : f \in Table' \/ conn'[f] = "closed"
    BY <1>0, <2>1 DEF Table, ServerTypeOK
  <2>3. Untracked' \subseteq Untracked
    BY <2>1, <2>2 DEF Untracked, Adding
  <2>4. QED
    BY <2>3, FewerUntracked
<1>5. CASE \/ Peers \/ Select \/ AcceptFails \/ (AddClient /\ server' # "check") \/ TakeMutex
           \/ CheckClient \/ ReadClient \/ CloseClient \/ Sender \/ QueuePacket \/ UNCHANGED vars
  <2>1. clients' = clients
    BY <1>5
    DEF Peers, Connect, PeerSends, PeerCloses, Select, AcceptFails, AddClient, TakeMutex, CheckClient,
        ReadClient, CloseClient, Sender, ReceivePacket, NextClient, StartWrite, EndWrite, EndDelay,
        QueuePacket, vars
  <2>2. \A f \in ClientFd : conn'[f] # "closed" => conn[f] # "closed"
    <3>1. CASE Peers \/ ReadClient \/ CloseClient
      BY <1>0, <3>1 DEF Peers, Connect, PeerSends, PeerCloses, ReadClient, CloseClient, ServerTypeOK
    <3>2. CASE ~(Peers \/ ReadClient \/ CloseClient)
      BY <1>5, <3>2
      DEF Select, AcceptFails, AddClient, TakeMutex, CheckClient, Sender, ReceivePacket, NextClient,
          StartWrite, EndWrite, EndDelay, QueuePacket, vars, net
    <3>3. QED
      BY <3>1, <3>2
  <2>3. \A f \in ClientFd : Adding(f) => Adding(f)'
    BY <1>5
    DEF Adding, Peers, Connect, PeerSends, PeerCloses, Select, AcceptFails, AddClient, TakeMutex,
        CheckClient, ReadClient, CloseClient, Sender, ReceivePacket, NextClient, StartWrite, EndWrite,
        EndDelay, QueuePacket, vars, serverVars, ServerAt
  <2>4. Untracked' \subseteq Untracked
    BY <2>1, <2>2, <2>3 DEF Untracked, Table
  <2>5. QED
    BY <2>4, FewerUntracked
<1>6. QED
  BY <1>1, <1>2, <1>3, <1>4, <1>5 DEF Next, Server

(* eth_server.c: whatever peers do, every open connection is in the table   *)
(* or on its way there, but for those that found all slots taken; and these *)
(* are at most the descriptors lwIP has beyond MAX_CLIENTS + 1.             *)
THEOREM LeakIsBounded == Spec => []Tracked
  BY InitInv, StepInv, InitOnce, StepOnce, InitTracked, StepTracked, PTL DEF Spec
=============================================================================

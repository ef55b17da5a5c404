------------------------------ MODULE EthServer ------------------------------
(***************************************************************************)
(* eth_server.c and eth_sender.c: the task eth_server accepts TCP clients  *)
(* into the table clients and drops the ones that hang up; the task        *)
(* eth_sender writes each packet data_collector queues to every client.    *)
(*                                                                         *)
(* eth_sender has priority 3 and the other two have 1, so it is preempted  *)
(* by neither: they run only while it is blocked -- on its queue, in its   *)
(* delay, on clients_mut, or inside lwip_write, which waits for the TCP/IP *)
(* thread and for the peer.  It may become ready between any two of their  *)
(* steps.                                                                  *)
(*                                                                         *)
(* lwIP is outside the repository.  Its sockets are the descriptors        *)
(* 0..NumSockets-1; 0 is the listening socket, the first one created.      *)
(***************************************************************************)
EXTENDS Integers, FiniteSets

CONSTANTS
  MaxClients,  \* MAX_CLIENTS
  NumSockets,  \* descriptors lwIP can give out, the listening one included
  MaxPending   \* bound: connections waiting to be accepted

ASSUME ServerAssumption ==
  /\ MaxClients \in Nat \ {0}
  /\ NumSockets \in Nat \ {0}
  /\ MaxPending \in Nat \ {0}

VARIABLES
  conn,       \* each client descriptor: closed, or what its peer has done
  pending,    \* connections lwip_accept has not returned yet
  clients,    \* the table: a descriptor, or 0 for a free slot
  mutex,      \* who holds clients_mut
  queue,      \* packets in QueueTransmitEthernet, whose length is 1
  server,     \* where eth_server is
  slot,       \* its loop index, here and in add_client
  readfds,    \* what select left in the set
  clientfd,   \* its local clientfd
  sender,     \* where eth_sender is
  pos,        \* its loop index
  writefd,    \* the descriptor lwip_write is working on
  writes,     \* history: writes of this packet to each open connection
  present     \* history: connections in the table since this packet was taken

net == <<conn, pending>>
serverVars == <<server, slot, readfds, clientfd>>
senderVars == <<sender, pos, writefd>>
history == <<writes, present>>
vars == <<net, clients, mutex, queue, serverVars, senderVars, history>>

Slot == 0..(MaxClients - 1)
ClientFd == 1..(NumSockets - 1)
Fd == 0..(NumSockets - 1)

(* "quiet": open, nothing to read; "data": bytes to read; "gone": the peer  *)
(* has closed or reset the connection and lwip_read returns 0 or an error.  *)
ConnState == {"closed", "quiet", "data", "gone"}
Readable(f) == conn[f] \in {"data", "gone"}

ServerTypeOK ==
  /\ conn \in [ClientFd -> ConnState]
  /\ pending \in 0..MaxPending
  /\ clients \in [Slot -> Fd]
  /\ mutex \in {"free", "server", "sender"}
  /\ queue \in 0..1
  /\ server \in {"select", "accept", "add", "add_lock", "add_set", "check", "read",
                 "close", "drop_lock", "drop_set"}
  /\ slot \in 0..MaxClients
  /\ readfds \subseteq Fd
  /\ clientfd \in Fd
  /\ sender \in {"receive", "each", "lock", "write", "delay"}
  /\ pos \in 0..MaxClients
  /\ writefd \in Fd
  /\ writes \in [ClientFd -> Nat]
  /\ present \subseteq ClientFd

(* Both tasks have made their handles and the server listens. *)
Init ==
  /\ conn = [f \in ClientFd |-> "closed"]
  /\ pending = 0
  /\ clients = [i \in Slot |-> 0]
  /\ mutex = "free"
  /\ queue = 0
  /\ server = "select" /\ slot = 0 /\ readfds = {} /\ clientfd = 0
  /\ sender = "receive" /\ pos = 0 /\ writefd = 0
  /\ writes = [f \in ClientFd |-> 0]
  /\ present = {}

Table == {clients[i] : i \in Slot} \ {0}

(* The sender runs until it blocks; nobody of lower priority runs before.   *)
SenderReady ==
  \/ sender = "receive" /\ queue = 1
  \/ sender = "each"
  \/ sender = "lock" /\ mutex = "free"

ServerAt(l) == ~SenderReady /\ server = l

-----------------------------------------------------------------------------
(* The peers *)

Connect ==
  /\ pending < MaxPending
  /\ pending' = pending + 1
  /\ UNCHANGED <<conn, clients, mutex, queue, serverVars, senderVars, history>>

PeerSends(f) ==
  /\ conn[f] = "quiet"
  /\ conn' = [conn EXCEPT ![f] = "data"]
  /\ UNCHANGED <<pending, clients, mutex, queue, serverVars, senderVars, history>>

PeerCloses(f) ==
  /\ conn[f] \in {"quiet", "data"}
  /\ conn' = [conn EXCEPT ![f] = "gone"]
  /\ UNCHANGED <<pending, clients, mutex, queue, serverVars, senderVars, history>>

-----------------------------------------------------------------------------
(* eth_server *)

(* select over the listening socket and the table; with a closed descriptor *)
(* in the set it fails, and the loop repeats it with nothing changed.       *)
Select ==
  /\ ServerAt("select")
  /\ \A f \in Table : conn[f] # "closed"
  /\ readfds' = {f \in Table : Readable(f)} \union (IF pending > 0 THEN {0} ELSE {})
  /\ readfds' # {}
  /\ IF 0 \in readfds'
     THEN server' = "accept" /\ UNCHANGED slot
     ELSE server' = "check" /\ slot' = 0
  /\ UNCHANGED <<net, clients, mutex, queue, clientfd, senderVars, history>>

(* lwip_accept takes a connection and gives it the first free descriptor.   *)
Accept ==
  /\ ServerAt("accept")
  /\ \E f \in ClientFd :
       /\ conn[f] = "closed"
       /\ \A g \in ClientFd : conn[g] = "closed" => f <= g
       /\ conn' = [conn EXCEPT ![f] = "quiet"]
       /\ clientfd' = f
       /\ writes' = [writes EXCEPT ![f] = 0]
  /\ pending' = pending - 1
  /\ server' = "add"
  /\ UNCHANGED <<clients, mutex, queue, slot, readfds, senderVars, present>>

(* It fails when no descriptor is free or the peer gave up; the loop starts *)
(* over, without looking at the connected clients.                          *)
AcceptFails ==
  /\ ServerAt("accept")
  /\ pending' = pending - 1
  /\ server' = "select"
  /\ UNCHANGED <<conn, clients, mutex, queue, slot, readfds, clientfd, senderVars, history>>

AddClientBug ==
  /\ ServerAt("add")
  /\ \/ \E i \in Slot \ {MaxClients - 1} :
          /\ clients[i] = 0
          /\ \A j \in Slot : clients[j] = 0 => i <= j
          /\ slot' = i
          /\ server' = "add_lock"
     \/ /\ \A i \in Slot \ {MaxClients - 1} : clients[i] # 0
        /\ slot' = 0
        /\ server' = "check"
  /\ UNCHANGED <<net, clients, mutex, queue, readfds, clientfd, senderVars, history>>

(* add_client: the first free slot; with none the connection is forgotten.  *)
AddClient ==
  /\ ServerAt("add")
  /\ \/ \E i \in Slot :
          /\ clients[i] = 0
          /\ \A j \in Slot : clients[j] = 0 => i <= j
          /\ slot' = i
          /\ server' = "add_lock"
     \/ /\ \A i \in Slot : clients[i] # 0
        /\ slot' = 0
        /\ server' = "check"
  /\ UNCHANGED <<net, clients, mutex, queue, readfds, clientfd, senderVars, history>>

TakeMutex ==
  /\ \/ ServerAt("add_lock") /\ server' = "add_set"
     \/ ServerAt("drop_lock") /\ server' = "drop_set"
  /\ mutex = "free"
  /\ mutex' = "server"
  /\ UNCHANGED <<net, clients, queue, slot, readfds, clientfd, senderVars, history>>

SetSlotNoBreak ==
  /\ ServerAt("add_set")
  /\ clients' = [i \in Slot |-> IF clients[i] = 0 THEN clientfd ELSE clients[i]]
  /\ mutex' = "free"
  /\ server' = "check"
  /\ slot' = 0
  /\ UNCHANGED <<net, queue, readfds, clientfd, senderVars, history>>

SetSlotNoGive ==
  /\ ServerAt("add_set")
  /\ clients' = [clients EXCEPT ![slot] = clientfd]
  /\ server' = "check"
  /\ slot' = 0
  /\ UNCHANGED <<net, mutex, queue, readfds, clientfd, senderVars, history>>

SetSlot ==
  /\ ServerAt("add_set")
  /\ clients' = [clients EXCEPT ![slot] = clientfd]
  /\ mutex' = "free"
  /\ server' = "check"
  /\ slot' = 0
  /\ UNCHANGED <<net, queue, readfds, clientfd, senderVars, history>>

(* The loop over the connected clients *)
CheckClient ==
  /\ ServerAt("check")
  /\ IF slot = MaxClients
     THEN server' = "select" /\ UNCHANGED <<slot, clientfd>>
     ELSE /\ clientfd' = clients[slot]
          /\ IF clients[slot] > 0 /\ clients[slot] \in readfds
             THEN server' = "read" /\ UNCHANGED slot
             ELSE slot' = slot + 1 /\ UNCHANGED server
  /\ UNCHANGED <<net, clients, mutex, queue, readfds, senderVars, history>>

ReadClientBug ==
  /\ ServerAt("read")
  /\ conn' = [conn EXCEPT ![clientfd] = IF @ = "data" THEN "quiet" ELSE @]
  /\ slot' = slot + 1
  /\ server' = "check"
  /\ UNCHANGED <<pending, clients, mutex, queue, readfds, clientfd, senderVars, history>>

(* read_len <= 0 means that the client is gone *)
ReadClient ==
  /\ ServerAt("read")
  /\ \/ /\ conn[clientfd] = "data"
        /\ conn' = [conn EXCEPT ![clientfd] = "quiet"]
        /\ slot' = slot + 1
        /\ server' = "check"
     \/ /\ conn[clientfd] = "gone"
        /\ server' = "close"
        /\ UNCHANGED <<conn, slot>>
  /\ UNCHANGED <<pending, clients, mutex, queue, readfds, clientfd, senderVars, history>>

CloseClientBug ==
  /\ ServerAt("close")
  /\ conn' = [conn EXCEPT ![clientfd] = "closed"]
  /\ present' = present \ {clientfd}
  /\ clients' = [clients EXCEPT ![slot] = 0]
  /\ slot' = slot + 1
  /\ server' = "check"
  /\ UNCHANGED <<pending, mutex, queue, readfds, clientfd, senderVars, writes>>

(* lwip_close, before clients_mut is taken *)
CloseClient ==
  /\ ServerAt("close")
  /\ conn' = [conn EXCEPT ![clientfd] = "closed"]
  /\ present' = present \ {clientfd}
  /\ server' = "drop_lock"
  /\ UNCHANGED <<pending, clients, mutex, queue, slot, readfds, clientfd, senderVars, writes>>

ClearSlotBug ==
  /\ ServerAt("drop_set")
  /\ clients' = [clients EXCEPT ![slot] = -1]
  /\ mutex' = "free"
  /\ slot' = slot + 1
  /\ server' = "check"
  /\ UNCHANGED <<net, queue, readfds, clientfd, senderVars, history>>

ClearSlot ==
  /\ ServerAt("drop_set")
  /\ clients' = [clients EXCEPT ![slot] = 0]
  /\ mutex' = "free"
  /\ slot' = slot + 1
  /\ server' = "check"
  /\ UNCHANGED <<net, queue, readfds, clientfd, senderVars, history>>

-----------------------------------------------------------------------------
(* data_collector sends one packet; eth_sender passes it on. *)

QueuePacket ==
  /\ ~SenderReady
  /\ queue = 0
  /\ queue' = 1
  /\ UNCHANGED <<net, clients, mutex, serverVars, senderVars, history>>

ReceivePacket ==
  /\ sender = "receive"
  /\ queue = 1
  /\ queue' = 0
  /\ sender' = "each"
  /\ pos' = 0
  /\ writes' = [f \in ClientFd |-> 0]
  /\ present' = {f \in Table : conn[f] # "closed"}
  /\ UNCHANGED <<net, clients, mutex, serverVars, writefd>>

NextClientBug ==
  /\ sender = "each"
  /\ IF pos = MaxClients - 1
     THEN sender' = "delay" /\ UNCHANGED pos
     ELSE IF clients[pos] # 0
          THEN sender' = "lock" /\ UNCHANGED pos
          ELSE pos' = pos + 1 /\ UNCHANGED sender
  /\ UNCHANGED <<net, clients, mutex, queue, serverVars, writefd, history>>

(* clients[i] != 0 is looked at without the mutex *)
NextClient ==
  /\ sender = "each"
  /\ IF pos = MaxClients
     THEN sender' = "delay" /\ UNCHANGED pos
     ELSE IF clients[pos] # 0
          THEN sender' = "lock" /\ UNCHANGED pos
          ELSE pos' = pos + 1 /\ UNCHANGED sender
  /\ UNCHANGED <<net, clients, mutex, queue, serverVars, writefd, history>>

(* and read again with it: lwip_write(clients[i], data, size) *)
StartWrite ==
  /\ sender = "lock"
  /\ mutex = "free"
  /\ mutex' = "sender"
  /\ writefd' = clients[pos]
  /\ writes' = [f \in ClientFd |-> IF f = clients[pos] THEN writes[f] + 1 ELSE writes[f]]
  /\ sender' = "write"
  /\ UNCHANGED <<net, clients, queue, serverVars, pos, present>>

(* lwip_write returns; an error sets a bit of a result nobody reads.        *)
EndWrite ==
  /\ sender = "write"
  /\ mutex' = "free"
  /\ sender' = "each"
  /\ pos' = pos + 1
  /\ UNCHANGED <<net, clients, queue, serverVars, writefd, history>>

(* vTaskDelay(10) ends *)
EndDelay ==
  /\ sender = "delay"
  /\ sender' = "receive"
  /\ UNCHANGED <<net, clients, mutex, queue, serverVars, pos, writefd, history>>

-----------------------------------------------------------------------------

Peers == Connect \/ \E f \in ClientFd : PeerSends(f) \/ PeerCloses(f)

Server ==
  \/ Select \/ Accept \/ AcceptFails \/ AddClient \/ TakeMutex \/ SetSlot
  \/ CheckClient \/ ReadClient \/ CloseClient \/ ClearSlot

Sender == ReceivePacket \/ NextClient \/ StartWrite \/ EndWrite \/ EndDelay

Next == Peers \/ Server \/ Sender \/ QueuePacket

Spec == Init /\ [][Next]_vars

(* The sender runs when it is ready, its delay ends, and -- the one         *)
(* assumption on the peers -- every lwip_write returns.  The server shares  *)
(* the time the sender leaves it; it may be preempted over and over, but it *)
(* gets to run again: strong fairness.  Peers and the collector owe nothing.*)
FairSpec == Spec /\ WF_vars(Sender) /\ SF_vars(Server)

-----------------------------------------------------------------------------

(* A descriptor is in one slot at most, so no client gets a packet twice;   *)
(* the server's drop loop and the sender's write loop rest on it.           *)
OneSlotEach == \A i, j \in Slot : clients[i] = clients[j] /\ clients[i] # 0 => i = j

(* An open connection is in the table or on its way there, or it is one of  *)
(* those that found no free slot: nobody reads, writes or closes these, and *)
(* they are never more than the descriptors the table cannot hold.  With    *)
(* MAX_CLIENTS + 1 descriptors none is lost.                                *)
Adding(f) == server \in {"add", "add_lock", "add_set"} /\ f = clientfd
Untracked == {f \in ClientFd : conn[f] # "closed" /\ f \notin Table /\ ~Adding(f)}
Tracked == Untracked = {} \/ MaxClients + Cardinality(Untracked) < NumSockets

(* eth_server.c: "no free slots for new connection client is rejected": a   *)
(* connection that found no free slot does not stay open.                   *)
RejectedClosed == Untracked = {}

(* sender_ethernet over its whole loop: a client that was in the table when *)
(* it started and was not dropped meanwhile has been sent the packet once;  *)
(* and no connection ever more than once.                                   *)
EachOnce ==
  /\ \A f \in ClientFd : conn[f] # "closed" => writes[f] <= 1
  /\ sender = "delay" => \A f \in present : writes[f] = 1

(* What clients_mut is for, given that a client is closed without it: the   *)
(* descriptor lwip_write works on is not handed to a new connection before  *)
(* lwip_write returns.                                                      *)
NoReuseWhileWriting ==
  [][\A f \in ClientFd :
       sender = "write" /\ sender' = "write" /\ writefd = f /\ conn[f] = "closed"
         => conn'[f] = "closed"]_vars

(* As long as writes return, eth_sender gets to every packet: the collector *)
(* is not held up in xQueueSendToBack for ever.                             *)
PacketTaken == queue = 1 ~> queue = 0

(* A client of the table that hangs up is dropped, unless connections keep  *)
(* arriving: an accept that fails restarts the loop before the clients are  *)
(* looked at.                                                               *)
GoneDropped ==
  \A f \in ClientFd :
    []<>(conn[f] # "gone") \/ []<>(f \in Untracked) \/ []<>(pending > 0)
=============================================================================

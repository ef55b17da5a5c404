------------------------------- MODULE LinkDhcp -------------------------------
(***************************************************************************)
(* ethernetif.c, ksz8081rnd.c and the network part of init_task (main.c):  *)
(* the PHY reports link changes by interrupt, the task link_state turns    *)
(* them into netif flags and requests to the DHCP state machine, and the   *)
(* task dhcp_fsm looks at that state every DHCP_FSM_DELAY_MS.              *)
(*                                                                         *)
(* Priorities: link_state 2, dhcp_fsm and the TCP/IP thread 1, init_task   *)
(* 0.  link_state does not block inside its handler, so the others only    *)
(* run while it waits for its semaphore; init_task also waits for dhcp_fsm *)
(* to be in its delay.  The PHY never waits.                               *)
(*                                                                         *)
(* dhcp_set_state is one step: dhcp_state_mut covers nothing else.  The    *)
(* look at dhcp_state that decides what is set is outside the mutex.       *)
(***************************************************************************)
EXTENDS Integers

CONSTANT MaxTries  \* DHCP_MAX_TRIES

ASSUME LinkAssumption == MaxTries \in Nat

VARIABLES
  cable,       \* the PHY has a link
  misr,        \* link interrupts the PHY holds until its status register is read
  irqEnabled,  \* the PHY is configured to interrupt on link changes
  linkSem,     \* link_irq_sem: "null", "empty" or "given"
  netLink,     \* NETIF_FLAG_LINK_UP
  netUp,       \* NETIF_FLAG_UP
  link,        \* where link_state is
  dhcp_state,
  dhcpMutex,   \* dhcp_state_mut exists
  fsm,         \* where dhcp_fsm is
  init,        \* where init_task is
  client,      \* lwIP's DHCP client: "none" until the first dhcp_start
  tries,       \* its count of unanswered requests
  addr,        \* the interface's address
  stale,       \* history: who looked at the state before its latest change
  overtaken,   \* history: a request was overwritten by such a one
  missed       \* history: an interrupt came before link_irq_sem existed

phy == <<cable, misr, irqEnabled>>
netif == <<netLink, netUp>>
lwipDhcp == <<client, tries, addr>>
history == <<stale, overtaken>>
linkVars == <<phy, linkSem, netif, link, dhcp_state, dhcpMutex, fsm, init, lwipDhcp, history, missed>>

DhcpStates == {"OFF", "START", "WAIT_ADDRESS", "ADDRESS_ASSIGNED", "TIMEOUT", "LINK_DOWN"}

LinkTypeOK ==
  /\ cable \in BOOLEAN
  /\ misr \subseteq {"up", "down"}
  /\ irqEnabled \in BOOLEAN
  /\ linkSem \in {"null", "empty", "given"}
  /\ netLink \in BOOLEAN
  /\ netUp \in BOOLEAN
  /\ link \in {"none", "wait", "read", "up", "down"}
  /\ dhcp_state \in DhcpStates
  /\ dhcpMutex \in BOOLEAN
  /\ fsm \in {"none", "delay", "start", "started", "wait", "tries", "assign", "expire",
              "stop_static", "static", "stop", "off"}
  /\ init \in {"phy", "irq", "netif", "link_task", "dhcp_task", "check", "start", "done"}
  /\ client \in {"none", "off", "trying", "bound"}
  /\ tries \in 0..(MaxTries + 1)
  /\ addr \in {"zero", "dhcp", "static"}
  /\ stale \subseteq {"link", "fsm", "init"}
  /\ overtaken \in BOOLEAN
  /\ missed \in BOOLEAN
  /\ link # "none" <=> linkSem # "null"
  /\ fsm # "none" <=> dhcpMutex

LinkInit ==
  /\ cable \in BOOLEAN /\ misr = {} /\ irqEnabled = FALSE
  /\ linkSem = "null" /\ netLink = FALSE /\ netUp = FALSE /\ link = "none"
  /\ dhcp_state = "OFF" /\ dhcpMutex = FALSE /\ fsm = "none"
  /\ init = "phy"
  /\ client = "none" /\ tries = 0 /\ addr = "zero"
  /\ stale = {} /\ overtaken = FALSE /\ missed = FALSE

LinkBlocked == link = "none" \/ (link = "wait" /\ linkSem # "given")
FsmAt(l) == LinkBlocked /\ fsm = l
InitAt(l) == LinkBlocked /\ fsm \in {"none", "delay"} /\ init = l

(* dhcp_set_state by task a: nothing happens before the mutex exists. *)
dhcp_set_state(a, new) ==
  IF dhcpMutex
  THEN /\ dhcp_state' = new
       /\ overtaken' = (overtaken \/ a \in stale)
       /\ stale' = {"link", "fsm", "init"} \ {a}
  ELSE UNCHANGED <<dhcp_state, history>>

Looks(a) == stale' = stale \ {a} /\ UNCHANGED overtaken

-----------------------------------------------------------------------------
(* The PHY and its interrupt *)

(* INTRP stays low until the status register is read, and the EXTI line is  *)
(* triggered by the falling edge: only the first change interrupts.         *)
PhyChange ==
  /\ init # "phy"
  /\ cable' = ~cable
  /\ misr' = misr \union {IF cable THEN "down" ELSE "up"}
  /\ IF irqEnabled /\ misr = {}
     THEN /\ linkSem' = IF linkSem = "null" THEN "null" ELSE "given"
          /\ missed' = (missed \/ linkSem = "null")
     ELSE UNCHANGED <<linkSem, missed>>
  /\ UNCHANGED <<irqEnabled, netif, link, dhcp_state, dhcpMutex, fsm, init, lwipDhcp, history>>

-----------------------------------------------------------------------------
(* link_state *)

TakeLinkSemaphore ==
  /\ link = "wait" /\ linkSem = "given"
  /\ linkSem' = "empty"
  /\ link' = "read"
  /\ UNCHANGED <<phy, netif, dhcp_state, dhcpMutex, fsm, init, lwipDhcp, history, missed>>

(* Reading the status register clears it.  "Up" is looked for first;        *)
(* netif_set_link_up and _down call back only when the flag changes.        *)
ReadMisr ==
  /\ link = "read"
  /\ misr' = {}
  /\ netLink' = IF "up" \in misr THEN TRUE ELSE IF "down" \in misr THEN FALSE ELSE netLink
  /\ link' = IF netLink' = netLink THEN "wait" ELSE IF netLink' THEN "up" ELSE "down"
  /\ UNCHANGED <<cable, irqEnabled, linkSem, netUp, dhcp_state, dhcpMutex, fsm, init, lwipDhcp, history, missed>>

NotifyConnChangedBug ==
  /\ \/ link = "up" /\ netUp' = TRUE /\ UNCHANGED <<dhcp_state, history>>
     \/ link = "down" /\ netUp' = FALSE /\ dhcp_set_state("link", "LINK_DOWN")
  /\ link' = "wait"
  /\ UNCHANGED <<phy, linkSem, netLink, dhcpMutex, fsm, init, lwipDhcp, missed>>

(* ethernetif_link_update -- which restarts the negotiation, so the link    *)
(* may change again meanwhile -- and ethernetif_notify_conn_changed         *)
NotifyConnChanged ==
  /\ \/ link = "up" /\ netUp' = TRUE /\ dhcp_set_state("link", "START")
     \/ link = "down" /\ netUp' = FALSE /\ dhcp_set_state("link", "LINK_DOWN")
  /\ link' = "wait"
  /\ UNCHANGED <<phy, linkSem, netLink, dhcpMutex, fsm, init, lwipDhcp, missed>>

-----------------------------------------------------------------------------
(* dhcp_fsm: dhcp_process on the state it sees *)

DhcpProcess ==
  /\ FsmAt("delay")
  /\ fsm' = CASE dhcp_state = "START"        -> "start"
              [] dhcp_state = "WAIT_ADDRESS" -> "wait"
              [] dhcp_state = "LINK_DOWN"    -> "stop"
              [] OTHER                       -> "delay"
  /\ Looks("fsm")
  /\ UNCHANGED <<phy, linkSem, netif, link, dhcp_state, dhcpMutex, init, lwipDhcp, missed>>

(* The address is cleared; dhcp_start refuses an interface that is down.    *)
DhcpStart ==
  /\ FsmAt("start")
  /\ IF netUp
     THEN client' = "trying" /\ tries' = 0
     ELSE UNCHANGED <<client, tries>>
  /\ addr' = "zero"
  /\ fsm' = "started"
  /\ UNCHANGED <<phy, linkSem, netif, link, dhcp_state, dhcpMutex, init, history, missed>>

SetStateBug ==
  /\ \/ FsmAt("started") /\ dhcp_set_state("fsm", "WAIT_ADDRESS") /\ fsm' = "delay"
     \/ FsmAt("assign") /\ dhcp_set_state("fsm", "ADDRESS_ASSIGNED") /\ fsm' = "delay"
     \/ FsmAt("expire") /\ dhcp_set_state("fsm", "TIMEOUT") /\ fsm' = "static"
     \/ FsmAt("off") /\ dhcp_set_state("fsm", "OFF") /\ fsm' = "delay"
  /\ UNCHANGED <<phy, linkSem, netif, link, dhcpMutex, init, lwipDhcp, missed>>

SetState ==
  /\ \/ FsmAt("started") /\ dhcp_set_state("fsm", "WAIT_ADDRESS") /\ fsm' = "delay"
     \/ FsmAt("assign") /\ dhcp_set_state("fsm", "ADDRESS_ASSIGNED") /\ fsm' = "delay"
     \/ FsmAt("expire") /\ dhcp_set_state("fsm", "TIMEOUT") /\ fsm' = "stop_static"
     \/ FsmAt("off") /\ dhcp_set_state("fsm", "OFF") /\ fsm' = "delay"
  /\ UNCHANGED <<phy, linkSem, netif, link, dhcpMutex, init, lwipDhcp, missed>>

CheckSupplied ==
  /\ FsmAt("wait")
  /\ fsm' = IF client = "bound" THEN "assign" ELSE "tries"
  /\ UNCHANGED <<phy, linkSem, netif, link, dhcp_state, dhcpMutex, init, lwipDhcp, history, missed>>

(* dhcp->tries; before the first dhcp_start dhcp is NULL and any value may  *)
(* be read.                                                                 *)
CheckTries ==
  /\ FsmAt("tries")
  /\ \/ (client = "none" \/ tries > MaxTries) /\ fsm' = "expire"
     \/ (client = "none" \/ tries <= MaxTries) /\ fsm' = "delay"
  /\ UNCHANGED <<phy, linkSem, netif, link, dhcp_state, dhcpMutex, init, lwipDhcp, history, missed>>

(* dhcp_stop gives a leased address up. *)
DhcpStop ==
  /\ \/ FsmAt("stop_static") /\ fsm' = "static"
     \/ FsmAt("stop") /\ fsm' = "off"
  /\ client' = IF client = "none" THEN "none" ELSE "off"
  /\ addr' = IF client = "bound" THEN "zero" ELSE addr
  /\ UNCHANGED <<phy, linkSem, netif, link, dhcp_state, dhcpMutex, init, tries, history, missed>>

StaticAddress ==
  /\ FsmAt("static")
  /\ addr' = "static"
  /\ fsm' = "delay"
  /\ UNCHANGED <<phy, linkSem, netif, link, dhcp_state, dhcpMutex, init, client, tries, history, missed>>

-----------------------------------------------------------------------------
(* lwIP's client, in the TCP/IP thread: a request is answered or tried again. *)

Answered ==
  /\ LinkBlocked
  /\ client = "trying"
  /\ cable /\ netUp
  /\ client' = "bound"
  /\ addr' = "dhcp"
  /\ UNCHANGED <<phy, linkSem, netif, link, dhcp_state, dhcpMutex, fsm, init, tries, history, missed>>

TryAgain ==
  /\ LinkBlocked
  /\ client = "trying"
  /\ tries <= MaxTries
  /\ tries' = tries + 1
  /\ UNCHANGED <<phy, linkSem, netif, link, dhcp_state, dhcpMutex, fsm, init, client, addr, history, missed>>

-----------------------------------------------------------------------------
(* init_task *)

(* HAL_ETH_Init in ksz8081_init finds the link as it is ... *)
PhyInit ==
  /\ init = "phy"
  /\ netLink' = cable
  /\ init' = "irq"
  /\ UNCHANGED <<phy, linkSem, netUp, link, dhcp_state, dhcpMutex, fsm, lwipDhcp, history, missed>>

(* ... and then link interrupts are enabled: a change already recorded      *)
(* pulls INTRP low at once.                                                 *)
PhyEnableIrq ==
  /\ init = "irq"
  /\ irqEnabled' = TRUE
  /\ missed' = (misr # {})
  /\ init' = "netif"
  /\ UNCHANGED <<cable, misr, linkSem, netif, link, dhcp_state, dhcpMutex, fsm, lwipDhcp, history>>

NetifSetup ==
  /\ init = "netif"
  /\ netUp' = netLink
  /\ init' = "link_task"
  /\ UNCHANGED <<phy, linkSem, netLink, link, dhcp_state, dhcpMutex, fsm, lwipDhcp, history, missed>>

CreateLinkState ==
  /\ init = "link_task"
  /\ linkSem' = "empty"
  /\ link' = "wait"
  /\ init' = "dhcp_task"
  /\ UNCHANGED <<phy, netif, dhcp_state, dhcpMutex, fsm, lwipDhcp, history, missed>>

CreateDhcpFsm ==
  /\ InitAt("dhcp_task")
  /\ dhcpMutex' = TRUE
  /\ fsm' = "delay"
  /\ init' = "check"
  /\ UNCHANGED <<phy, linkSem, netif, link, dhcp_state, lwipDhcp, history, missed>>

CheckNetifUpBug ==
  /\ InitAt("check")
  /\ init' = "start"
  /\ Looks("init")
  /\ UNCHANGED <<phy, linkSem, netif, link, dhcp_state, dhcpMutex, fsm, lwipDhcp, missed>>

(* Once all tasks have started: if netif_is_up, start DHCP. *)
CheckNetifUp ==
  /\ InitAt("check")
  /\ init' = IF netUp THEN "start" ELSE "done"
  /\ Looks("init")
  /\ UNCHANGED <<phy, linkSem, netif, link, dhcp_state, dhcpMutex, fsm, lwipDhcp, missed>>

EthernetifDhcpStart ==
  /\ InitAt("start")
  /\ dhcp_set_state("init", "START")
  /\ init' = "done"
  /\ UNCHANGED <<phy, linkSem, netif, link, dhcpMutex, fsm, lwipDhcp, missed>>

-----------------------------------------------------------------------------

LinkState == TakeLinkSemaphore \/ ReadMisr \/ NotifyConnChanged
DhcpFsm ==
  \/ DhcpProcess \/ DhcpStart \/ SetState \/ CheckSupplied \/ CheckTries
  \/ DhcpStop \/ StaticAddress
Lwip == Answered \/ TryAgain
InitTask ==
  \/ PhyInit \/ PhyEnableIrq \/ NetifSetup \/ CreateLinkState \/ CreateDhcpFsm
  \/ CheckNetifUp \/ EthernetifDhcpStart

LinkNext == PhyChange \/ LinkState \/ DhcpFsm \/ Lwip \/ InitTask

LinkSpec == LinkInit /\ [][LinkNext]_linkVars

(* Every task runs when it is ready and no higher one is; the link, and a   *)
(* DHCP server, owe nothing.  Strong fairness for those that a flapping     *)
(* link may preempt over and over.                                          *)
LinkFairSpec ==
  /\ LinkSpec
  /\ WF_linkVars(LinkState)
  /\ SF_linkVars(DhcpFsm)
  /\ SF_linkVars(TryAgain)
  /\ SF_linkVars(InitTask)

-----------------------------------------------------------------------------

(* What dhcp_state says is what lwIP does, whenever dhcp_process is over    *)
(* and no request of another task was overwritten: an assigned address is   *)
(* in force, the static one after a timeout, no client runs when it is off. *)
AddressInForce ==
  fsm = "delay" /\ ~overtaken =>
    CASE dhcp_state = "ADDRESS_ASSIGNED" -> addr = "dhcp" /\ client = "bound"
      [] dhcp_state = "TIMEOUT"          -> addr = "static" /\ client = "off"
      [] dhcp_state = "OFF"              -> client \notin {"trying", "bound"}
      [] OTHER                           -> TRUE

(* dhcp_process reads dhcp->tries without a NULL check: the pointer is      *)
(* valid unless a request was overwritten or the link went down after the   *)
(* look.                                                                    *)
TriesReadable == fsm = "tries" /\ client = "none" => overtaken

(* A link that comes up and stays is taken up, however often it bounced     *)
(* before, and the interface gets an address, from DHCP or the static one   *)
(* -- unless the interrupt came before link_irq_sem existed, or dhcp_fsm or *)
(* init_task overwrote a request of link_state.                             *)
AddressEventually == []<>~cable \/ <>missed \/ <>overtaken \/ <>[](addr # "zero")

(* ksz8081rnd.c enables the "Interrupt on change of link status", and the   *)
(* link callback is "called on change of link status": a link that goes     *)
(* down and stays down is taken down.                                       *)
LinkDownNoticed == []<>cable \/ <>missed \/ <>[]~netLink
=============================================================================

------------------------------ MODULE HttpProofs ------------------------------
(***************************************************************************)
(* Proofs about the requests, for any networks, settings and requests, and *)
(* about what the settings page saves.                                     *)
(***************************************************************************)
EXTENDS HttpRouting, NumberProofs

Messages == {"none", "status", "HTML_SETTINGS", "list", "ERROR", "settings", "OK"}
Lists == {"none", "list", "ERROR"}
Statuses == {0, 200, 404, 405, 415, 500}
Found == ALLOWED_ROUTES \union {NoRoute}
Responses == [status : Statuses, route : Found, message : Messages, fresh : BOOLEAN]

(* A configuration with the name of a network in it, whatever its settings  *)
HasNetwork(c) ==
  c = [wifi_ssid |-> c.wifi_ssid, settings |-> c.settings] /\ c.wifi_ssid \in Networks

Typed ==
  /\ http_response \in Responses
  /\ networks_list_buffer \in Lists
  /\ HasNetwork(device_config) /\ HasNetwork(stored)
  /\ esp_module \in [sta_ssid : {"NULL", "wifi_ssid", "tcp_buffer"}, size : Nat]

(* A request in hand is one a client sends, or the page's own.              *)
InHand ==
  \/ request \in Requests
  \/ request.method = "POST" /\ request.name = "device-conf"

(* The route that was found is the request's.                               *)
Routed ==
  /\ http_response.status = 200
  /\ http_response.route \in ALLOWED_ROUTES
  /\ http_response.route.name = request.name
  /\ http_response.route.method = request.method

Joining == pc \in {"join", "address", "finish"}

Placed ==
  /\ pc = "start" => request = NoRequest
  /\ pc \in {"check", "build", "finish", "answer"} => request # NoRequest
  /\ request # NoRequest => InHand
  /\ pc \in {"check", "build"} => ~http_response.fresh
  /\ pc = "build" /\ http_response.status = 200 => Routed
  /\ Joining /\ request # NoRequest =>
       Routed /\ http_response.route.handler \in {"connect_wifi", "wifi_mode"}

(* Credentials point into the buffer only while the network in it is joined.*)
Pointed ==
  /\ pc # "start" => esp_module.sta_ssid # "NULL"
  /\ esp_module.sta_ssid = "tcp_buffer" =>
       /\ Joining /\ request # NoRequest
       /\ http_response.route.handler = "connect_wifi"
       /\ request.body \in Networks

HInv == Typed /\ Placed /\ Pointed /\ AnswersThisRequest

-----------------------------------------------------------------------------
(* Facts about the table of routes                                          *)

Changing == {"connect_wifi", "wifi_mode", "conf_mode", "set_device_conf"}

LEMMA Routes ==
  ASSUME NEW route \in ALLOWED_ROUTES
  PROVE  /\ route.method \in {"GET", "POST"}
         /\ route.data \in {"none", "HTML_SETTINGS"}
         /\ route.handler \in Changing => route.method = "POST"
         /\ route.handler = "connect_wifi" => route.name = "network"
         /\ route.handler = "void" /\ route.data = "none" <=>
              route.method = "GET" /\ route.name = "network"
BY DEF ALLOWED_ROUTES, Route, Changing

LEMMA NotARoute == NoRoute \notin ALLOWED_ROUTES
BY DEF ALLOWED_ROUTES, NoRoute, Route

(* A request is told from none by its method.                               *)
LEMMA Received ==
  ASSUME NEW r \in Requests \union {Repost}
  PROVE  r # NoRequest /\ (r \in Requests \/ (r.method = "POST" /\ r.name = "device-conf"))
BY HttpAssumption DEF Repost, NoRequest, HttpAssumption

LEMMA SaidInTime ==
  ASSUME NEW message \in Messages, Typed, Say(message)
  PROVE  /\ http_response' \in Responses
         /\ http_response'.fresh
         /\ http_response'.route = http_response.route
         /\ http_response'.status = http_response.status
BY DEF Say, Typed, Responses

(* Only of one route there is nothing to say.                               *)
LEMMA SomethingToSay ==
  ASSUME Routed, http_response.route.handler # "void" \/ http_response.route.data # "none"
  PROVE  ~NothingToSay
BY Routes DEF Routed, NothingToSay

(* While the module is joined for a request, there will be something to say.*)
LEMMA JoiningSays ==
  ASSUME HInv, pc = "finish"
  PROVE  ~NothingToSay
BY SomethingToSay DEF HInv, Placed, Joining

(* The network whose name is sent to the module                             *)
LEMMA NameInPlace ==
  ASSUME Typed, Pointed, pc # "start"
  PROVE  Name \in Networks
<1>1. CASE esp_module.sta_ssid = "wifi_ssid"
  BY <1>1 DEF Name, Typed, HasNetwork
<1>2. CASE esp_module.sta_ssid = "tcp_buffer"
  BY <1>2 DEF Name, Handler, Pointed
<1> QED BY <1>1, <1>2 DEF Typed, Pointed
-----------------------------------------------------------------------------
(* The invariant, action by action                                          *)

Modules == [sta_ssid : {"NULL", "wifi_ssid", "tcp_buffer"}, size : Nat]

(* Whatever says something and answers keeps the invariant, if it leaves no *)
(* pointer into the buffer.                                                 *)
LEMMA Answered ==
  ASSUME HInv, pc \in {"build", "finish"}, pc' = "answer", request' = request,
         ~NothingToSay, NEW message \in Messages, Say(message), networks_list_buffer' = networks_list_buffer,
         HasNetwork(device_config)', HasNetwork(stored)',
         esp_module' \in Modules, esp_module'.sta_ssid = "wifi_ssid"
  PROVE  HInv'
<1>1. Typed'
  BY SaidInTime DEF HInv, Typed, Modules
<1>2. Placed'
  BY DEF HInv, Placed, InHand, Joining
<1>3. Pointed'
  BY DEF HInv, Pointed
<1>4. AnswersThisRequest'
  BY SaidInTime DEF HInv, AnswersThisRequest, NothingToSay
<1> QED BY <1>1, <1>2, <1>3, <1>4 DEF HInv

LEMMA ToldWhenBuilt ==
  ASSUME HInv, pc = "build"
  PROVE  esp_module \in Modules /\ esp_module.sta_ssid = "wifi_ssid"
BY DEF HInv, Typed, Pointed, Joining, Modules

LEMMA Inits == Init => HInv
<1> SUFFICES ASSUME Init PROVE HInv
  OBVIOUS
<1>1. Typed
  <2>1. stored = [wifi_ssid |-> stored.wifi_ssid, settings |-> stored.settings]
        /\ stored.wifi_ssid \in Networks
    BY DEF Init
  <2>2. http_response \in Responses
    BY DEF Init, Responses, Statuses, Found, Messages
  <2> QED BY <2>1, <2>2 DEF Init, Typed, HasNetwork, Lists
<1>2. Placed /\ Pointed /\ AnswersThisRequest
  BY DEF Init, Placed, Pointed, AnswersThisRequest, Joining, NoRequest
<1> QED BY <1>1, <1>2 DEF HInv

LEMMA StartStep ==
  ASSUME HInv, Start
  PROVE  HInv'
<1>1. /\ pc = "start" /\ pc' \in {"wait", "join"}
      /\ request = NoRequest /\ request' = request /\ http_response' = http_response
      /\ device_config' = stored /\ stored' = stored
      /\ esp_module' = [sta_ssid |-> "wifi_ssid", size |-> Length[stored.wifi_ssid]]
      /\ networks_list_buffer' \in Lists
  BY DEF HInv, Placed, Start, Lists
<1>2. Length[stored.wifi_ssid] \in Nat
  BY HttpAssumption DEF HttpAssumption, HInv, Typed, HasNetwork
<1>3. Typed'
  BY <1>1, <1>2 DEF HInv, Typed, HasNetwork
<1>4. Placed' /\ Pointed' /\ AnswersThisRequest'
  BY <1>1 DEF Placed, Pointed, AnswersThisRequest, Joining
<1> QED BY <1>3, <1>4 DEF HInv

LEMMA JoinStep ==
  ASSUME HInv, Join
  PROVE  HInv'
BY DEF HInv, Typed, Placed, Pointed, AnswersThisRequest, Join, config, Joining, InHand, Routed,
       HasNetwork

LEMMA AskAddressStep ==
  ASSUME HInv, AskAddress
  PROVE  HInv'
BY DEF HInv, Typed, Placed, Pointed, AnswersThisRequest, AskAddress, config, Joining, InHand, Routed,
       HasNetwork

LEMMA ReceiveStep ==
  ASSUME HInv, NEW r \in Requests \union {Repost}, Receive(r)
  PROVE  HInv'
<1>1. /\ pc = "wait" /\ pc' = "check" /\ request' = r
      /\ http_response' = [http_response EXCEPT !.fresh = FALSE]
      /\ UNCHANGED <<esp_module, config, networks_list_buffer>>
  BY DEF Receive
<1>2. http_response' \in Responses
  BY <1>1 DEF HInv, Typed, Responses
<1>3. Typed'
  BY <1>1, <1>2 DEF HInv, Typed, config, HasNetwork
<1>4. Placed'
  BY <1>1, Received DEF Placed, InHand, Joining
<1>5. Pointed' /\ AnswersThisRequest'
  BY <1>1 DEF HInv, Pointed, Joining, AnswersThisRequest
<1> QED BY <1>3, <1>4, <1>5 DEF HInv

LEMMA AnswerAndEraseStep ==
  ASSUME HInv, AnswerAndErase
  PROVE  HInv'
BY DEF HInv, Typed, Placed, Pointed, AnswersThisRequest, AnswerAndErase, config, Joining,
       HasNetwork, NoRequest

LEMMA CheckStep ==
  ASSUME HInv, Check
  PROVE  HInv'
<1> DEFINE route == CASE CheckedStatus = 200 -> CHOOSE r \in Matching : TRUE
                      [] CheckedStatus = 404 -> NoRoute
                      [] OTHER -> http_response.route
<1>1. /\ pc = "check" /\ pc' = "build" /\ request' = request
      /\ http_response' = [http_response EXCEPT !.status = CheckedStatus, !.route = route]
      /\ UNCHANGED <<esp_module, config, networks_list_buffer>>
  BY DEF Check
<1>2. CheckedStatus \in Statuses
  BY DEF CheckedStatus, Statuses
<1>3. CheckedStatus = 200 => route \in Matching
  <2>1. CheckedStatus = 200 => Matching # {}
    BY DEF CheckedStatus
  <2> QED BY <2>1
<1>4. route \in Found
  BY <1>3 DEF Matching, Found, HInv, Typed, Responses
<1>5. http_response' \in Responses /\ http_response'.status = CheckedStatus
      /\ http_response'.route = route
  <2> HIDE DEF route
  <2> QED BY <1>1, <1>2, <1>4 DEF HInv, Typed, Responses
<1>6. Typed'
  BY <1>1, <1>5 DEF HInv, Typed, config, HasNetwork
<1>7. Placed'
  <2>1. http_response'.status = 200 => Routed'
    BY <1>1, <1>3, <1>5 DEF Matching, Routed
  <2> QED BY <1>1, <2>1 DEF HInv, Placed, InHand, Joining
<1>8. Pointed' /\ AnswersThisRequest'
  BY <1>1 DEF HInv, Pointed, Joining, AnswersThisRequest
<1> QED BY <1>6, <1>7, <1>8 DEF HInv

LEMMA BuildRefusalStep ==
  ASSUME HInv, BuildRefusal
  PROVE  HInv'
<1>1. pc = "build" /\ pc' = "answer" /\ request' = request /\ Say("status")
      /\ UNCHANGED <<esp_module, config, networks_list_buffer>>
  BY DEF BuildRefusal
<1>2. HasNetwork(device_config)' /\ HasNetwork(stored)'
  BY <1>1 DEF HInv, Typed, HasNetwork, config
<1>3. ~NothingToSay
  BY DEF BuildRefusal, NothingToSay
<1> QED BY <1>1, <1>2, <1>3, ToldWhenBuilt, Answered DEF Messages

LEMMA BuildPageStep ==
  ASSUME HInv, BuildPage
  PROVE  HInv'
<1>1. /\ pc = "build" /\ pc' = "answer" /\ request' = request
      /\ http_response.status = 200 /\ http_response.route.handler = "void"
      /\ UNCHANGED <<esp_module, config, networks_list_buffer>>
  BY DEF BuildPage, Handling
<1>2. Routed
  BY <1>1 DEF HInv, Placed
<1>3. HasNetwork(device_config)' /\ HasNetwork(stored)'
  BY <1>1 DEF HInv, Typed, HasNetwork, config
<1>4. CASE http_response.route.data = "none"
  <2>1. request.method = "GET" /\ request.name = "network"
    BY <1>1, <1>2, <1>4, Routes DEF Routed
  <2>2. http_response' = http_response
    BY <1>4 DEF BuildPage
  <2>3. Typed'
    BY <1>1, <1>3, <2>2 DEF HInv, Typed
  <2>4. NothingToSay' /\ ~http_response'.fresh
    BY <1>1, <2>1, <2>2 DEF NothingToSay, HInv, Placed
  <2> QED BY <1>1, <2>2, <2>3, <2>4 DEF HInv, Placed, Pointed, Joining, InHand, AnswersThisRequest
<1>5. CASE http_response.route.data # "none"
  <2>1. http_response.route.data \in Messages /\ Say(http_response.route.data)
    BY <1>2, <1>5, Routes DEF Routed, BuildPage, Messages
  <2>2. ~NothingToSay
    BY <1>2, <1>5, SomethingToSay
  <2> QED BY <1>1, <1>3, <2>1, <2>2, ToldWhenBuilt, Answered
<1> QED BY <1>4, <1>5

(* The handlers that answer at once                                         *)
LEMMA HandlerStep ==
  ASSUME HInv, GetWifiList \/ GetDeviceConf \/ WifiOff \/ ConfMode \/ RejectBody
  PROVE  HInv'
<1>1. pc = "build" /\ pc' = "answer" /\ request' = request
      /\ UNCHANGED <<esp_module, networks_list_buffer>>
  BY DEF GetWifiList, GetDeviceConf, WifiOff, ConfMode, RejectBody, Handling
<1>2. stored' = stored /\ device_config' \in {device_config, stored}
  BY DEF GetWifiList, GetDeviceConf, WifiOff, ConfMode, RejectBody, config
<1>3. HasNetwork(device_config)' /\ HasNetwork(stored)'
  BY <1>2 DEF HInv, Typed, HasNetwork
<1>4. PICK message \in Messages : Say(message)
  <2>1. networks_list_buffer \in Messages
    BY DEF HInv, Typed, Lists, Messages
  <2> QED BY <2>1 DEF GetWifiList, GetDeviceConf, WifiOff, ConfMode, RejectBody, Messages
<1>5. ~NothingToSay
  <2>1. http_response.status = 200 /\ http_response.route.handler # "void"
    BY DEF GetWifiList, GetDeviceConf, WifiOff, ConfMode, RejectBody, Handling
  <2> QED BY <1>1, <2>1, SomethingToSay DEF HInv, Placed
<1> QED BY <1>1, <1>3, <1>4, <1>5, ToldWhenBuilt, Answered

LEMMA SetDeviceConfStep ==
  ASSUME HInv, SetDeviceConf
  PROVE  HInv'
<1> DEFINE settings == Filled(number_buf, Body(request.form))
<1>1. pc = "build" /\ pc' = "answer" /\ request' = request /\ Say("OK")
      /\ UNCHANGED <<esp_module, networks_list_buffer>>
      /\ device_config' = [device_config EXCEPT !.settings = settings]
      /\ stored' = device_config'
  BY DEF SetDeviceConf, Handling
<1>2. device_config' = [wifi_ssid |-> device_config.wifi_ssid, settings |-> settings]
  <2> HIDE DEF settings
  <2> QED BY <1>1 DEF HInv, Typed, HasNetwork
<1>3. HasNetwork(device_config)' /\ HasNetwork(stored)'
  <2> HIDE DEF settings
  <2> QED BY <1>1, <1>2 DEF HInv, Typed, HasNetwork
<1>4. ~NothingToSay
  BY <1>1, SomethingToSay DEF SetDeviceConf, Handling, HInv, Placed
<1> QED BY <1>1, <1>3, <1>4, ToldWhenBuilt, Answered DEF Messages

(* The network of the request is joined from the request's buffer.          *)
LEMMA ConnectWifiStep ==
  ASSUME HInv, ConnectWifi
  PROVE  HInv'
<1>1. /\ pc = "build" /\ pc' = "join" /\ request' = request /\ http_response' = http_response
      /\ http_response.status = 200 /\ http_response.route.handler = "connect_wifi"
      /\ request.body # "none"
      /\ esp_module' = [sta_ssid |-> "tcp_buffer", size |-> Length[request.body]]
      /\ UNCHANGED <<config, networks_list_buffer>>
  BY DEF ConnectWifi, Handling
<1>2. Routed /\ request # NoRequest /\ InHand
  BY <1>1 DEF HInv, Placed
<1>3. request.method = "POST" /\ request.name = "network"
  BY <1>1, <1>2, Routes DEF Routed, Changing
<1>4. request.body \in Networks
  BY <1>1, <1>2, <1>3, HttpAssumption DEF InHand, HttpAssumption
<1>5. Typed'
  BY <1>1, <1>4, HttpAssumption DEF HInv, Typed, HttpAssumption, HasNetwork, config
<1>6. Placed' /\ Pointed' /\ AnswersThisRequest'
  BY <1>1, <1>2, <1>4 DEF HInv, Placed, Pointed, AnswersThisRequest, Joining, InHand, Routed
<1> QED BY <1>5, <1>6 DEF HInv

LEMMA WifiOnStep ==
  ASSUME HInv, WifiOn
  PROVE  HInv'
<1>1. /\ pc = "build" /\ pc' = "join" /\ request' = request /\ http_response' = http_response
      /\ http_response.status = 200 /\ http_response.route.handler = "wifi_mode"
      /\ UNCHANGED <<esp_module, config, networks_list_buffer>>
  BY DEF WifiOn, Handling
<1>2. Typed'
  BY <1>1 DEF HInv, Typed, HasNetwork, config
<1>3. Placed' /\ Pointed' /\ AnswersThisRequest'
  BY <1>1 DEF HInv, Placed, Pointed, AnswersThisRequest, Joining, InHand, Routed
<1> QED BY <1>2, <1>3 DEF HInv

LEMMA FinishConnectStep ==
  ASSUME HInv, FinishConnect
  PROVE  HInv'
<1>1. /\ pc = "finish" /\ pc' = "answer" /\ request' = request /\ Say("OK")
      /\ networks_list_buffer' = networks_list_buffer
      /\ device_config' = [device_config EXCEPT !.wifi_ssid = Name]
      /\ stored' = device_config'
      /\ esp_module' = [esp_module EXCEPT !.sta_ssid = "wifi_ssid"]
  BY DEF FinishConnect
<1>2. Name \in Networks
  BY <1>1, NameInPlace DEF HInv
<1>3. device_config' = [wifi_ssid |-> Name, settings |-> device_config.settings]
  BY <1>1 DEF HInv, Typed, HasNetwork
<1>4. HasNetwork(device_config)' /\ HasNetwork(stored)'
  BY <1>1, <1>2, <1>3 DEF HasNetwork
<1>5. esp_module' \in Modules /\ esp_module'.sta_ssid = "wifi_ssid"
  BY <1>1 DEF HInv, Typed, Modules
<1> QED BY <1>1, <1>4, <1>5, JoiningSays, Answered DEF Messages

LEMMA FailConnectStep ==
  ASSUME HInv, FailConnect
  PROVE  HInv'
<1>1. /\ pc = "finish" /\ pc' = "answer" /\ request' = request /\ Say("ERROR")
      /\ UNCHANGED <<config, networks_list_buffer>>
      /\ esp_module' = [esp_module EXCEPT !.sta_ssid = "wifi_ssid"]
  BY DEF FailConnect
<1>2. HasNetwork(device_config)' /\ HasNetwork(stored)'
  BY <1>1 DEF HInv, Typed, HasNetwork, config
<1>3. esp_module' \in Modules /\ esp_module'.sta_ssid = "wifi_ssid"
  BY <1>1 DEF HInv, Typed, Modules
<1> QED BY <1>1, <1>2, <1>3, JoiningSays, Answered DEF Messages

LEMMA FinishWifiOnStep ==
  ASSUME HInv, FinishWifiOn
  PROVE  HInv'
<1>1. /\ pc = "finish" /\ pc' = "answer" /\ request' = request
      /\ http_response.route.handler = "wifi_mode"
      /\ UNCHANGED <<esp_module, config, networks_list_buffer>>
  BY DEF FinishWifiOn
<1>2. HasNetwork(device_config)' /\ HasNetwork(stored)'
  BY <1>1 DEF HInv, Typed, HasNetwork, config
<1>3. esp_module' \in Modules /\ esp_module'.sta_ssid = "wifi_ssid"
  BY <1>1 DEF HInv, Typed, Pointed, Modules
<1>4. CASE connected
  BY <1>1, <1>2, <1>3, <1>4, JoiningSays, Answered DEF FinishWifiOn, Messages
<1>5. CASE ~connected
  BY <1>1, <1>2, <1>3, <1>5, JoiningSays, Answered DEF FinishWifiOn, Messages
<1> QED BY <1>4, <1>5

LEMMA HInvStep ==
  ASSUME HInv, [Next]_vars
  PROVE  HInv'
<1>1. CASE UNCHANGED vars
  BY <1>1 DEF vars, config, HInv, Typed, Placed, Pointed, AnswersThisRequest, NothingToSay, Joining,
              InHand, Routed, HasNetwork
<1>2. CASE BuildAnswer
  BY <1>2, BuildRefusalStep, BuildPageStep, HandlerStep, SetDeviceConfStep, ConnectWifiStep,
     WifiOnStep, FinishConnectStep, FailConnectStep, FinishWifiOnStep DEF BuildAnswer
<1>3. CASE Repost.form.desc # <<>> /\ Receive(Repost)
  BY <1>3, ReceiveStep
<1> QED BY <1>1, <1>2, <1>3, StartStep, JoinStep, AskAddressStep, CheckStep, AnswerAndEraseStep, ReceiveStep
        DEF Next, WifiTask

-----------------------------------------------------------------------------

(* What a request in hand means for what is changed                         *)
LEMMA GetChangesNothing ==
  ASSUME HInv, [Next]_vars, request # NoRequest, request.method = "GET"
  PROVE  UNCHANGED <<stored, esp_module, joined, esp_server_mode>>
<1>1. Routed => http_response.route.handler \notin Changing
  BY Routes DEF Routed
<1>2. ~Start
  BY DEF Start, HInv, Placed
<1>3. ~Join /\ ~FinishConnect /\ ~FailConnect
  BY <1>1 DEF Join, FinishConnect, FailConnect, HInv, Placed, Joining, Changing
<1>4. ~SetDeviceConf /\ ~ConnectWifi /\ ~WifiOff /\ ~ConfMode
  BY <1>1 DEF SetDeviceConf, ConnectWifi, WifiOff, ConfMode, Handling, HInv, Placed, Changing
<1>5. CASE UNCHANGED vars
  BY <1>5 DEF vars, config
<1>6. CASE BuildAnswer
  BY <1>6, <1>3, <1>4
     DEF BuildAnswer, BuildRefusal, BuildPage, GetWifiList, GetDeviceConf, WifiOn, RejectBody,
         FinishWifiOn, config
<1>7. CASE AskAddress \/ Check \/ AnswerAndErase
  BY <1>7 DEF AskAddress, Check, AnswerAndErase, config
<1>8. CASE (\E r \in Requests : Receive(r)) \/ Receive(Repost)
  BY <1>8 DEF Receive, config
<1> QED BY <1>2, <1>3, <1>5, <1>6, <1>7, <1>8 DEF Next, WifiTask

(* The invariant from which the others follow.                              *)
THEOREM HInvHolds == Spec => []HInv
<1> QED BY Inits, HInvStep, PTL DEF Spec

(* The answers to a GET of "network" carry the message of an earlier        *)
(* request, and no other answer does, whatever is asked in which order.     *)
THEOREM AnswersItsRequest == Spec => []AnswersThisRequest
<1>1. HInv => AnswersThisRequest
  BY DEF HInv
<1> QED BY HInvHolds, <1>1, PTL

(* Whatever the module is told to join, its name has not been erased: the   *)
(* pointer into the request's buffer is taken back before the buffer is     *)
(* cleared, on each way out.                                                *)
THEOREM CredentialsStayInPlace == Spec => []CredentialsInPlace
<1>1. HInv => CredentialsInPlace
  BY NameInPlace, HttpAssumption DEF HInv, CredentialsInPlace, HttpAssumption
<1> QED BY HInvHolds, <1>1, PTL

(* A GET changes nothing that outlives it, whatever requests came before.   *)
THEOREM GettingIsSafe == Spec => GetIsSafe
<1>1. HInv /\ [Next]_vars =>
        [request # NoRequest /\ request.method = "GET"
           => UNCHANGED <<stored, esp_module, joined, esp_server_mode>>]_vars
  BY GetChangesNothing
<1> QED BY HInvHolds, <1>1, PTL DEF Spec, GetIsSafe

-----------------------------------------------------------------------------
(* The body of a form, and where its fields are found. *)

(* A text that begins as another.                                           *)
Starts(s, data) == Len(s) <= Len(data) /\ \A i \in 1..Len(s) : data[i] = s[i]

(* A text that ends in the first hit for a name.                            *)
Leads(s, sought) ==
  /\ s \in Seq(Nat) /\ s # <<>> /\ EndsWith(s[Len(s)], sought)
  /\ \A i \in 1 .. Len(s) - 1 : ~EndsWith(s[i], sought)

(* A text goes on with "&" or ends.                                         *)
EndsField(data, n) == Len(data) = n \/ (Len(data) > n /\ data[n + 1] = Amp)

(* A set of numbers has a least one.                                        *)
LEMMA Least ==
  ASSUME NEW S, S \subseteq Nat, S # {}
  PROVE  \E i \in S : \A j \in S : i <= j
<1> DEFINE R == OpToRel(<, Nat)
<1>1. \E x \in S : \A y \in S : ~(<<y, x>> \in R)
  BY NatLessThanWellFounded, WFMin, Zenon
<1>2. \A x, y \in Nat : x < y => <<x, y>> \in R
  BY Zenon DEF OpToRel
<1> HIDE DEF R
<1>3. PICK x \in S : \A y \in S : ~(<<y, x>> \in R)
  BY <1>1
<1>4. \A y \in S : ~(y < x)
  BY <1>2, <1>3
<1>5. \A y \in S : x <= y
  BY <1>4
<1> QED BY <1>5

(* The value of a field is what stands between its name and the next "&".   *)
LEMMA FieldIs ==
  ASSUME NEW data \in Seq(Nat), NEW sought, NEW s, Leads(s, sought), NEW value \in Seq(Nat),
         Starts(s \o value, data), EndsField(data, Len(s) + Len(value)), ~Holds(value, Amp)
  PROVE  FirstHit(data, sought) = Len(s) /\ http_get_form_field(data, sought) = value
<1> DEFINE p == Len(s)
           q == Len(s) + Len(value) + 1
           hits == {i \in DOMAIN data : EndsWith(data[i], sought)}
           Stops == {i \in p + 1 .. Len(data) + 1 : i > Len(data) \/ data[i] = Amp}
<1>1. /\ p \in Nat \ {0} /\ q \in Nat /\ q <= Len(data) + 1 /\ q > p
      /\ \A i \in 1..p : data[i] = s[i]
      /\ \A i \in 1..Len(value) : data[p + i] = value[i]
  <2>1. /\ Len(s \o value) = p + Len(value) /\ \A i \in 1..p : (s \o value)[i] = s[i]
        /\ \A i \in 1..Len(value) : (s \o value)[p + i] = value[i]
    BY DEF Leads
  <2>2. p \in Nat \ {0} /\ Len(value) \in Nat /\ Len(data) \in Nat
    BY DEF Leads
  <2> DEFINE t == s \o value
  <2>3. /\ Len(t) = p + Len(value) /\ \A i \in 1..p : t[i] = s[i]
        /\ \A i \in 1..Len(value) : t[p + i] = value[i]
    BY <2>1
  <2>4. Len(t) <= Len(data) /\ \A i \in 1..Len(t) : data[i] = t[i]
    BY DEF Starts
  <2> HIDE DEF t, p
  <2>5. q = p + Len(value) + 1
    BY DEF p
  <2> HIDE DEF q
  <2>6. \A i \in 1..p : data[i] = s[i]
    BY <2>2, <2>3, <2>4
  <2>7. \A i \in 1..Len(value) : data[p + i] = value[i]
    <3> SUFFICES ASSUME NEW i \in 1..Len(value) PROVE data[p + i] = value[i]
      OBVIOUS
    <3>1. p + i \in 1..Len(t)
      BY <2>2, <2>3
    <3> QED BY <2>3, <2>4, <3>1
  <2>8. Len(t) \in Nat /\ Len(t) = p + Len(value) /\ Len(t) <= Len(data)
    BY <2>2, <2>3, <2>4
  <2>9. q \in Nat /\ q <= Len(data) + 1 /\ q > p
    BY <2>2, <2>5, <2>8
  <2> QED BY <2>2, <2>6, <2>7, <2>9
<1>2. p \in hits /\ \A j \in hits : p <= j
  <2>1. EndsWith(data[p], sought) /\ \A i \in 1 .. p - 1 : ~EndsWith(data[i], sought)
    <3>1. EndsWith(s[p], sought) /\ \A i \in 1 .. p - 1 : ~EndsWith(s[i], sought)
      BY DEF Leads
    <3> HIDE DEF p
    <3>2. p \in 1..p /\ \A i \in 1 .. p - 1 : i \in 1..p
      BY <1>1
    <3>3. data[p] = s[p] /\ \A i \in 1 .. p - 1 : data[i] = s[i]
      BY <1>1, <3>2
    <3> QED BY <3>1, <3>3
  <2>2. DOMAIN data = 1..Len(data) /\ p \in 1..Len(data) /\ Len(data) \in Nat
    <3>1. Len(value) \in Nat /\ Len(data) \in Nat /\ DOMAIN data = 1..Len(data)
      OBVIOUS
    <3>2. p <= Len(data)
      <4> HIDE DEF p
      <4>1. q = p + Len(value) + 1 /\ q <= Len(data) + 1
        BY <1>1 DEF p
      <4> HIDE DEF q
      <4> QED BY <1>1, <3>1, <4>1
    <3> HIDE DEF p
    <3> QED BY <1>1, <3>1, <3>2
  <2> HIDE DEF p
  <2>3. p \in hits
    BY <2>1, <2>2
  <2>4. ASSUME NEW j \in hits PROVE p <= j
    <3>1. j \in 1..Len(data) /\ EndsWith(data[j], sought)
      BY <2>2
    <3> QED BY <2>1, <2>2, <3>1
  <2> QED BY <2>3, <2>4
<1>3. FirstHit(data, sought) = CHOOSE i \in hits : \A j \in hits : i <= j
  BY DEF FirstHit
<1>4. FirstHit(data, sought) = p
  <2>1. \A i \in hits : i \in Nat
    OBVIOUS
  <2> HIDE DEF hits, p
  <2> QED BY <1>2, <1>3, <2>1
<1>5. http_get_form_field(data, sought)
        = SubSeq(data, p + 1, (CHOOSE i \in Stops : \A j \in Stops : i <= j) - 1)
  BY <1>4 DEF http_get_form_field
<1>6. q \in Stops /\ \A j \in Stops : q <= j
  <2>1. q \in Stops
    BY <1>1 DEF EndsField
  <2>2. ASSUME NEW j \in Stops, j < q PROVE FALSE
    <3>1. j \in p + 1 .. Len(data) + 1 /\ (j > Len(data) \/ data[j] = Amp)
      OBVIOUS
    <3>2. Len(value) \in Nat /\ Len(data) \in Nat
      OBVIOUS
    <3> HIDE DEF p, Stops
    <3>3. q = p + Len(value) + 1
      BY DEF p
    <3> HIDE DEF q
    <3>4. p \in Nat /\ q \in Nat /\ q <= Len(data) + 1
      BY <1>1
    <3>5. j \in Nat /\ p + 1 <= j /\ j <= p + Len(value) /\ j <= Len(data)
      <4> DEFINE l == Len(value)
                 m == Len(data)
      <4>1. l \in Nat /\ m \in Nat /\ j \in p + 1 .. m + 1 /\ q = p + l + 1 /\ q <= m + 1
        BY <3>1, <3>2, <3>3, <3>4
      <4> HIDE DEF l, m
      <4>2. j \in Nat /\ p + 1 <= j /\ j <= p + l /\ j <= m
        BY <2>2, <3>4, <4>1
      <4> QED BY <4>2 DEF l, m
    <3>6. j - p \in 1..Len(value) /\ p + (j - p) = j /\ data[j] = Amp
      BY <3>1, <3>2, <3>4, <3>5
    <3>7. value[j - p] = Amp
      BY <1>1, <3>6
    <3>8. DOMAIN value = 1..Len(value)
      OBVIOUS
    <3> QED BY <3>6, <3>7, <3>8 DEF Holds
  <2>3. q \in Int /\ \A j \in Stops : j \in Int
    BY <1>1
  <2> HIDE DEF q, Stops
  <2> QED BY <2>1, <2>2, <2>3
<1>7. (CHOOSE i \in Stops : \A j \in Stops : i <= j) = q
  <2>1. \A i \in Stops : i \in Int
    BY <1>1
  <2> HIDE DEF Stops, q
  <2>2. \A i \in Stops : (\A j \in Stops : i <= j) => i = q
    BY <1>6, <2>1
  <2> QED BY <1>6, <2>2
<1> HIDE DEF Stops
<1>8. SubSeq(data, p + 1, q - 1) = value
  BY <1>1
<1> QED BY <1>4, <1>5, <1>7, <1>8

(* Wherever a name is found, up to the place where it stands, a text        *)
(* follows.                                                                 *)
LEMMA FieldTyped ==
  ASSUME NEW data \in Seq(Nat), NEW sought, NEW p \in 1..Len(data), EndsWith(data[p], sought)
  PROVE  FirstHit(data, sought) \in 1..p /\ http_get_form_field(data, sought) \in Seq(Nat)
<1> DEFINE hits == {i \in DOMAIN data : EndsWith(data[i], sought)}
           pos == FirstHit(data, sought)
           Stops == {i \in pos + 1 .. Len(data) + 1 : i > Len(data) \/ data[i] = Amp}
           stop == CHOOSE i \in Stops : \A j \in Stops : i <= j
<1>1. hits \subseteq Nat /\ p \in hits /\ hits \subseteq 1..Len(data)
  OBVIOUS
<1>2. pos = CHOOSE i \in hits : \A j \in hits : i <= j
  BY DEF FirstHit
<1>3. pos \in 1..p
  <2> HIDE DEF hits, pos
  <2>1. \E i \in hits : \A j \in hits : i <= j
    BY <1>1, Least
  <2>2. pos \in hits /\ pos <= p
    BY <1>1, <1>2, <2>1
  <2> QED BY <1>1, <2>2
<1>4. http_get_form_field(data, sought) = SubSeq(data, pos + 1, stop - 1)
  BY DEF http_get_form_field
<1> HIDE DEF pos
<1>5. Stops \subseteq Nat /\ Len(data) + 1 \in Stops /\ Stops \subseteq pos + 1 .. Len(data) + 1
  BY <1>3
<1>6. stop \in pos + 1 .. Len(data) + 1
  <2> HIDE DEF Stops
  <2>1. \E i \in Stops : \A j \in Stops : i <= j
    BY <1>5, Least
  <2> QED BY <1>5, <2>1
<1> HIDE DEF stop
<1>7. SubSeq(data, pos + 1, stop - 1) \in Seq(Nat)
  BY <1>3, <1>6
<1> QED BY <1>3, <1>4, <1>7 DEF pos

(* Two texts, one behind the other.                                         *)
LEMMA Joined ==
  ASSUME NEW s \in Seq(Nat), NEW v \in Seq(Nat)
  PROVE  /\ s \o v \in Seq(Nat) /\ Len(s \o v) = Len(s) + Len(v)
         /\ \A i \in 1..Len(s) : (s \o v)[i] = s[i]
         /\ \A i \in 1..Len(v) : (s \o v)[Len(s) + i] = v[i]
OBVIOUS

(* A text with a field more: "&", its name and its value.                   *)
With(s, symbol, v) == s \o <<Amp, symbol>> \o v

(* Its name stands behind what comes before,                                *)
HeadOf(head, s, symbol) ==
  /\ head \in Seq(Nat) /\ Len(head) = Len(s) + 2
  /\ \A i \in 1..Len(s) : head[i] = s[i]
  /\ head[Len(s) + 1] = Amp /\ head[Len(s) + 2] = symbol

(* and its value behind that.                                               *)
PieceOf(t, s, symbol, v) ==
  /\ t \in Seq(Nat) /\ Len(t) = Len(s) + 2 + Len(v)
  /\ \A i \in 1..Len(s) : t[i] = s[i]
  /\ t[Len(s) + 1] = Amp /\ t[Len(s) + 2] = symbol
  /\ \A i \in 1..Len(v) : t[Len(s) + 2 + i] = v[i]

(* It is so.                                                                *)
LEMMA Piece ==
  ASSUME NEW s \in Seq(Nat), NEW symbol \in Nat, NEW v \in Seq(Nat)
  PROVE  HeadOf(s \o <<Amp, symbol>>, s, symbol) /\ PieceOf(With(s, symbol, v), s, symbol, v)
<1> DEFINE head == s \o <<Amp, symbol>>
           t == head \o v
<1>1. HeadOf(head, s, symbol)
  <2>1. <<Amp, symbol>> \in Seq(Nat) /\ Len(<<Amp, symbol>>) = 2
        /\ <<Amp, symbol>>[1] = Amp /\ <<Amp, symbol>>[2] = symbol
    BY DEF Amp
  <2> QED BY <2>1 DEF HeadOf
<1>2. With(s, symbol, v) = t
  BY DEF With
<1> HIDE DEF head
<1>3. /\ t \in Seq(Nat) /\ Len(t) = Len(head) + Len(v)
      /\ \A i \in 1..Len(head) : t[i] = head[i]
      /\ \A i \in 1..Len(v) : t[Len(head) + i] = v[i]
  BY <1>1, Joined, Zenon DEF HeadOf
<1> HIDE DEF t
<1>4. Len(s) \in Nat /\ Len(v) \in Nat
  OBVIOUS
<1>5. PieceOf(t, s, symbol, v)
  <2>1. Len(head) = Len(s) + 2 /\ \A i \in 1 .. Len(s) + 2 : t[i] = head[i]
    BY <1>1, <1>3 DEF HeadOf
  <2>2. \A i \in 1..Len(s) : t[i] = s[i]
    BY <1>1, <1>4, <2>1 DEF HeadOf
  <2>3. t[Len(s) + 1] = Amp /\ t[Len(s) + 2] = symbol
    BY <1>1, <1>4, <2>1 DEF HeadOf
  <2>4. \A i \in 1..Len(v) : t[Len(s) + 2 + i] = v[i]
    BY <1>3, <2>1
  <2>5. t \in Seq(Nat) /\ Len(t) = Len(s) + 2 + Len(v)
    BY <1>3, <2>1
  <2> QED BY <2>2, <2>3, <2>4, <2>5 DEF PieceOf
<1> QED BY <1>1, <1>2, <1>5 DEF head

(* What it begins with, ends with and holds.                                *)
LEMMA Longer ==
  ASSUME NEW s \in Seq(Nat), NEW symbol \in Nat, NEW v \in Seq(Nat)
  PROVE  /\ With(s, symbol, v) \in Seq(Nat) /\ Starts(s, With(s, symbol, v))
         /\ EndsField(With(s, symbol, v), Len(s)) /\ Len(With(s, symbol, v)) > Len(s)
         /\ \A x : Holds(With(s, symbol, v), x) => x \in {Amp, symbol} \/ Holds(s, x) \/ Holds(v, x)
<1> DEFINE t == With(s, symbol, v)
<1>1. PieceOf(t, s, symbol, v)
  BY Piece
<1> HIDE DEF t
<1> USE DEF PieceOf
<1>2. Len(s) \in Nat /\ Len(v) \in Nat /\ DOMAIN s = 1..Len(s) /\ DOMAIN v = 1..Len(v)
  OBVIOUS
<1>3. DOMAIN t = 1..Len(t)
  BY <1>1
<1>4. ASSUME NEW x, Holds(t, x) PROVE x \in {Amp, symbol} \/ Holds(s, x) \/ Holds(v, x)
  <2>1. PICK i \in 1..Len(t) : t[i] = x
    BY <1>3, <1>4 DEF Holds
  <2>2. CASE i \in 1..Len(s)
    BY <1>1, <1>2, <2>1, <2>2 DEF Holds
  <2>3. CASE i \in {Len(s) + 1, Len(s) + 2}
    BY <1>1, <2>1, <2>3
  <2>4. CASE i > Len(s) + 2
    <3>1. i - (Len(s) + 2) \in 1..Len(v) /\ Len(s) + 2 + (i - (Len(s) + 2)) = i
      BY <1>1, <1>2, <2>1, <2>4
    <3>2. v[i - (Len(s) + 2)] = x
      BY <1>1, <2>1, <3>1
    <3> QED BY <1>2, <3>1, <3>2 DEF Holds
  <2>5. i \in 1..Len(s) \/ i \in {Len(s) + 1, Len(s) + 2} \/ i > Len(s) + 2
    BY <1>1, <1>2, <2>1
  <2> QED BY <2>2, <2>3, <2>4, <2>5
<1>5. Starts(s, t) /\ EndsField(t, Len(s)) /\ Len(t) > Len(s)
  <2>1. Len(s) <= Len(t) /\ Len(t) > Len(s)
    BY <1>1, <1>2
  <2> QED BY <1>1, <2>1 DEF Starts, EndsField
<1> QED BY <1>1, <1>4, <1>5 DEF t

(* What a text begins with, what goes on after it begins with.              *)
LEMMA StartsOn ==
  ASSUME NEW s \in Seq(Nat), NEW t \in Seq(Nat), NEW u \in Seq(Nat), Starts(s, t), Starts(t, u)
  PROVE  Starts(s, u) /\ (EndsField(t, Len(s)) /\ Len(t) > Len(s) => EndsField(u, Len(s)))
<1>1. Len(s) \in Nat /\ Len(t) \in Nat /\ Len(u) \in Nat
  OBVIOUS
<1>2. /\ Len(s) <= Len(t) /\ \A i \in 1..Len(s) : t[i] = s[i]
      /\ Len(t) <= Len(u) /\ \A i \in 1..Len(t) : u[i] = t[i]
  BY DEF Starts
<1>3. Starts(s, u)
  BY <1>1, <1>2 DEF Starts
<1>4. ASSUME EndsField(t, Len(s)), Len(t) > Len(s) PROVE EndsField(u, Len(s))
  <2>1. t[Len(s) + 1] = Amp /\ Len(s) + 1 \in 1..Len(t)
    BY <1>1, <1>4 DEF EndsField
  <2>2. u[Len(s) + 1] = Amp /\ Len(u) > Len(s)
    BY <1>1, <1>2, <1>4, <2>1
  <2> QED BY <2>2 DEF EndsField
<1> QED BY <1>3, <1>4

(* A field of a text: found, if neither what comes before holds its name nor*)
(* its value "&", and in any case something is.                             *)
LEMMA FieldOf ==
  ASSUME NEW s \in Seq(Nat), NEW symbol \in {Desc, Alt, Mode, So2Id}, NEW v \in Seq(Nat),
         NEW data \in Seq(Nat), Starts(With(s, symbol, v), data),
         EndsField(data, Len(With(s, symbol, v)))
  PROVE  /\ FirstHit(data, symbol) \in 1 .. Len(s) + 2
         /\ Len(s) + 2 <= Len(data)
         /\ http_get_form_field(data, symbol) \in Seq(Nat)
         /\ ~Holds(s, symbol) /\ ~Holds(v, Amp) =>
              /\ FirstHit(data, symbol) = Len(s) + 2
              /\ http_get_form_field(data, symbol) = v
<1>1. symbol \in Nat /\ symbol # Amp /\ \A x : EndsWith(x, symbol) <=> x = symbol
  BY DEF Amp, Id, Desc, Alt, Mode, So2Id, EndsWith
<1> DEFINE head == s \o <<Amp, symbol>>
           t == With(s, symbol, v)
<1>2. HeadOf(head, s, symbol) /\ PieceOf(t, s, symbol, v)
  BY <1>1, Piece
<1>3. t = head \o v /\ \A i \in 1..Len(head) : t[i] = head[i]
  <2>1. t = head \o v
    BY DEF With
  <2> HIDE DEF head, t
  <2> QED BY <1>2, <2>1, Joined DEF HeadOf
<1> HIDE DEF head, t
<1> USE DEF HeadOf, PieceOf
<1>4. Len(s) \in Nat /\ Len(v) \in Nat /\ DOMAIN s = 1..Len(s) /\ Len(data) \in Nat
  OBVIOUS
<1>5. Len(s) + 2 \in 1..Len(data) /\ data[Len(s) + 2] = symbol
  <2>1. Len(t) <= Len(data) /\ \A i \in 1..Len(t) : data[i] = t[i]
    BY DEF Starts, t
  <2>2. Len(s) + 2 \in 1..Len(t) /\ Len(t) \in Nat
    BY <1>2, <1>4
  <2>3. t[Len(s) + 2] = symbol
    BY <1>2
  <2> HIDE DEF HeadOf, PieceOf
  <2> QED BY <1>4, <2>1, <2>2, <2>3
<1>6. FirstHit(data, symbol) \in 1 .. Len(s) + 2 /\ http_get_form_field(data, symbol) \in Seq(Nat)
  BY <1>1, <1>5, FieldTyped
<1>7. ASSUME ~Holds(s, symbol), ~Holds(v, Amp)
      PROVE  FirstHit(data, symbol) = Len(s) + 2 /\ http_get_form_field(data, symbol) = v
  <2>1. Leads(head, symbol)
    <3>1. \A i \in 1 .. Len(s) + 1 : head[i] # symbol
      <4> SUFFICES ASSUME NEW i \in 1 .. Len(s) + 1 PROVE head[i] # symbol
        OBVIOUS
      <4>1. i \in 1..Len(s) \/ i = Len(s) + 1
        BY <1>4
      <4>2. i \in 1..Len(s) => s[i] # symbol
        BY <1>4, <1>7 DEF Holds
      <4>3. i \in 1..Len(head)
        BY <1>2, <1>4
      <4> QED BY <1>1, <1>2, <1>3, <4>1, <4>2, <4>3
    <3>2. head # <<>> /\ head[Len(head)] = symbol
      BY <1>2, <1>3, <1>4
    <3>3. Len(head) - 1 = Len(s) + 1
      BY <1>2, <1>4
    <3> QED BY <1>1, <1>2, <3>1, <3>2, <3>3 DEF Leads
  <2>2. Starts(head \o v, data) /\ EndsField(data, Len(head) + Len(v))
    BY <1>2, <1>3 DEF t
  <2>3. FirstHit(data, symbol) = Len(head) /\ http_get_form_field(data, symbol) = v
    BY <1>7, <2>1, <2>2, FieldIs
  <2> QED BY <1>2, <2>3
<1> QED BY <1>4, <1>5, <1>6, <1>7

-----------------------------------------------------------------------------
(* What the fields of a form hold when it is posted. *)

Names == {Id, Desc, Alt, Mode, So2Id}

(* The page wants digits for the id, up to 255, and for the serial numbers, *)
(* and a number for the altitude; and posts 0 or 1 for the mode.            *)
Posted(form) ==
  /\ form.id \in Seq(Digits) /\ form.id # <<>> /\ atoull(form.id) \in 0..255
  /\ form.desc \in Seq(Nat)
  /\ form.alt \in Seq(Nat) /\ Unambiguous(form.alt)
  /\ form.mode \in {<<Zero>>, <<Zero + 1>>}
  /\ form.so2_id \in Seq(Digits) /\ form.so2_id # <<>> /\ atoull(form.so2_id) \in 0 .. ULL - 1

(* Symbols are numbers, and different ones.                                 *)
LEMMA SymbolsDiffer ==
  /\ Amp \in Nat /\ Names \subseteq Nat /\ Amp \notin Names
  /\ Id # Desc /\ Id # Alt /\ Id # Mode /\ Id # So2Id /\ Desc # Alt /\ Desc # Mode
  /\ Desc # So2Id /\ Alt # Mode /\ Alt # So2Id /\ Mode # So2Id
  /\ Digits \subseteq Nat /\ Digits \intersect ({Amp} \union Names) = {}
  /\ Minus \notin {Amp} \union Names /\ Point \notin {Amp} \union Names
BY DEF Names, Amp, Id, Desc, Alt, Mode, So2Id, Digits, Zero, Minus, Point

(* Numbers have no symbols in them.                                         *)
LEMMA OnlyDigits ==
  ASSUME NEW s \in Seq(Digits)
  PROVE  s \in Seq(Nat) /\ Unambiguous(s)
<1>1. s \in Seq(Nat) /\ \A i \in DOMAIN s : s[i] \in Digits
  <2>1. Digits \subseteq Nat
    BY SymbolsDiffer
  <2>2. Seq(Digits) \subseteq Seq(Nat)
    BY <2>1, WiderSeq, Zenon
  <2> QED BY <2>2
<1> QED BY <1>1, SymbolsDiffer DEF Unambiguous, Holds, Names

(* The body, field by field: what is found, and when it is what was posted. *)
LEMMA FieldsOf ==
  ASSUME NEW form, Posted(form), NEW data, data = Body(form)
  PROVE  /\ http_get_form_field(data, Id) = form.id
         /\ http_get_form_field(data, Desc) \in Seq(Nat)
         /\ ~Holds(form.desc, Amp) => http_get_form_field(data, Desc) = form.desc
         /\ http_get_form_field(data, Alt) \in Seq(Nat)
         /\ ~Holds(form.desc, Alt) => http_get_form_field(data, Alt) = form.alt
         /\ data[FirstHit(data, Mode) + 1] \in Nat
         /\ ~Holds(form.desc, Mode) => data[FirstHit(data, Mode) + 1] = form.mode[1]
         /\ http_get_form_field(data, So2Id) \in Seq(Nat)
         /\ ~Holds(form.desc, So2Id) => http_get_form_field(data, So2Id) = form.so2_id
<1> DEFINE upto1 == <<Id>> \o form.id
           upto2 == With(upto1, Desc, form.desc)
           upto3 == With(upto2, Alt, form.alt)
           upto4 == With(upto3, Mode, form.mode)
           upto5 == With(upto4, So2Id, form.so2_id)
<1>1. data = upto5
  BY DEF Body, With
<1>2. /\ form.id \in Seq(Nat) /\ form.desc \in Seq(Nat) /\ form.alt \in Seq(Nat)
      /\ form.mode \in Seq(Nat) /\ form.so2_id \in Seq(Nat)
      /\ Unambiguous(form.id) /\ Unambiguous(form.alt) /\ Unambiguous(form.mode)
      /\ Unambiguous(form.so2_id) /\ Len(form.mode) = 1
  <2>1. form.mode \in Seq(Digits) /\ Len(form.mode) = 1
    <3>1. Zero \in Digits /\ Zero + 1 \in Digits
      BY DEF Digits, Zero
    <3>2. CASE form.mode = <<Zero>>
      BY <3>1, <3>2
    <3>3. CASE form.mode = <<Zero + 1>>
      BY <3>1, <3>3
    <3> QED BY <3>2, <3>3 DEF Posted
  <2> QED BY <2>1, OnlyDigits DEF Posted
<1>3. /\ upto1 \in Seq(Nat) /\ Len(upto1) >= 1
      /\ \A x : Holds(upto1, x) => x = Id \/ Holds(form.id, x)
  <2>1. <<Id>> \in Seq(Nat) /\ Len(<<Id>>) = 1 /\ <<Id>>[1] = Id
    BY SymbolsDiffer DEF Names
  <2>2. /\ upto1 \in Seq(Nat) /\ Len(upto1) = 1 + Len(form.id) /\ upto1[1] = Id
        /\ \A i \in 1..Len(form.id) : upto1[1 + i] = form.id[i]
    BY <1>2, <2>1
  <2> HIDE DEF upto1
  <2>3. DOMAIN upto1 = 1..Len(upto1) /\ DOMAIN form.id = 1..Len(form.id) /\ Len(form.id) \in Nat
    BY <1>2, <2>2
  <2>4. ASSUME NEW i \in DOMAIN upto1, i # 1
        PROVE  i - 1 \in DOMAIN form.id /\ upto1[i] = form.id[i - 1]
    <3>1. i - 1 \in 1..Len(form.id) /\ 1 + (i - 1) = i
      BY <2>2, <2>3, <2>4
    <3> QED BY <2>2, <2>3, <3>1
  <2>5. ASSUME NEW x, Holds(upto1, x) PROVE x = Id \/ Holds(form.id, x)
    <3>1. PICK i \in DOMAIN upto1 : upto1[i] = x
      BY <2>5 DEF Holds
    <3>2. CASE i = 1
      BY <2>2, <3>1, <3>2
    <3>3. CASE i # 1
      BY <2>4, <3>1, <3>3 DEF Holds
    <3> QED BY <3>2, <3>3
  <2> QED BY <2>2, <2>3, <2>5
<1> DEFINE Follows(s, symbol, v, t) ==
             /\ t \in Seq(Nat) /\ Starts(s, t) /\ EndsField(t, Len(s)) /\ Len(t) > Len(s)
             /\ \A x : Holds(t, x) => x \in {Amp, symbol} \/ Holds(s, x) \/ Holds(v, x)
<1>4. /\ Follows(upto1, Desc, form.desc, upto2) /\ Follows(upto2, Alt, form.alt, upto3)
      /\ Follows(upto3, Mode, form.mode, upto4) /\ Follows(upto4, So2Id, form.so2_id, upto5)
  <2>1. ASSUME NEW s \in Seq(Nat), NEW symbol \in Names, NEW v \in Seq(Nat)
        PROVE  /\ With(s, symbol, v) \in Seq(Nat)
               /\ Follows(s, symbol, v, With(s, symbol, v))
    BY Longer, SymbolsDiffer
  <2>2. Desc \in Names /\ Alt \in Names /\ Mode \in Names /\ So2Id \in Names
    BY DEF Names
  <2> HIDE DEF Follows, upto1
  <2>3. upto2 \in Seq(Nat) /\ Follows(upto1, Desc, form.desc, upto2)
    BY <1>2, <1>3, <2>1, <2>2
  <2> HIDE DEF upto2
  <2>4. upto3 \in Seq(Nat) /\ Follows(upto2, Alt, form.alt, upto3)
    BY <1>2, <2>1, <2>2, <2>3
  <2> HIDE DEF upto3
  <2>5. upto4 \in Seq(Nat) /\ Follows(upto3, Mode, form.mode, upto4)
    BY <1>2, <2>1, <2>2, <2>4
  <2> HIDE DEF upto4
  <2>6. Follows(upto4, So2Id, form.so2_id, upto5)
    BY <1>2, <2>1, <2>2, <2>5
  <2> QED BY <2>3, <2>4, <2>5, <2>6
<1>5. upto3 \in Seq(Nat) /\ Len(upto4) = Len(upto3) + 3 /\ upto4[Len(upto3) + 3] = form.mode[1]
  <2>1. upto3 \in Seq(Nat) /\ Mode \in Nat /\ form.mode \in Seq(Nat)
    BY <1>2, <1>4, SymbolsDiffer DEF Names
  <2> HIDE DEF upto3
  <2>2. PieceOf(upto4, upto3, Mode, form.mode)
    BY <2>1, Piece
  <2> HIDE DEF upto4
  <2> QED BY <1>2, <2>1, <2>2 DEF PieceOf
<1> HIDE DEF upto1, upto2, upto3, upto4, upto5
<1>6. /\ Starts(upto1, data) /\ EndsField(data, Len(upto1))
      /\ Starts(upto2, data) /\ EndsField(data, Len(upto2))
      /\ Starts(upto3, data) /\ EndsField(data, Len(upto3))
      /\ Starts(upto4, data) /\ EndsField(data, Len(upto4))
      /\ Starts(upto5, data) /\ EndsField(data, Len(upto5))
  <2>1. Starts(upto5, data) /\ EndsField(data, Len(upto5))
    BY <1>1, <1>4 DEF Starts, EndsField
  <2>2. Starts(upto4, data) /\ EndsField(data, Len(upto4))
    BY <1>1, <1>4
  <2>3. Starts(upto3, data) /\ EndsField(data, Len(upto3))
    BY <1>1, <1>4, <2>2, StartsOn
  <2>4. Starts(upto2, data) /\ EndsField(data, Len(upto2))
    BY <1>1, <1>4, <2>3, StartsOn
  <2>5. Starts(upto1, data) /\ EndsField(data, Len(upto1))
    BY <1>1, <1>3, <1>4, <2>4, StartsOn
  <2> QED BY <2>1, <2>2, <2>3, <2>4, <2>5
<1>7. /\ ~Holds(upto1, Desc)
      /\ ~Holds(form.desc, Alt) => ~Holds(upto2, Alt)
      /\ ~Holds(form.desc, Mode) => ~Holds(upto3, Mode)
      /\ ~Holds(form.desc, So2Id) => ~Holds(upto4, So2Id)
  <2>1. \A symbol \in {Amp, Desc, Alt, Mode, So2Id} :
          /\ ~Holds(form.id, symbol) /\ ~Holds(form.alt, symbol) /\ ~Holds(form.mode, symbol)
    BY <1>2 DEF Unambiguous
  <2>2. \A symbol \in {Desc, Alt, Mode, So2Id} : ~Holds(upto1, symbol)
    BY <1>3, <2>1, SymbolsDiffer
  <2>3. \A symbol \in {Alt, Mode, So2Id} : Holds(upto2, symbol) => Holds(form.desc, symbol)
    BY <1>4, <2>2, SymbolsDiffer DEF Names
  <2>4. \A symbol \in {Mode, So2Id} : Holds(upto3, symbol) => Holds(form.desc, symbol)
    BY <1>4, <2>1, <2>3, SymbolsDiffer DEF Names
  <2>5. Holds(upto4, So2Id) => Holds(form.desc, So2Id)
    BY <1>4, <2>1, <2>4, SymbolsDiffer DEF Names
  <2> QED BY <2>2, <2>3, <2>4, <2>5
<1>8. data \in Seq(Nat)
  BY <1>1, <1>4
<1>9. /\ ~Holds(form.id, Amp) /\ ~Holds(form.alt, Amp) /\ ~Holds(form.mode, Amp)
      /\ ~Holds(form.so2_id, Amp)
  BY <1>2 DEF Unambiguous
<1> DEFINE Found1(symbol, s, v) ==
             /\ FirstHit(data, symbol) \in 1 .. Len(s) + 2
             /\ http_get_form_field(data, symbol) \in Seq(Nat)
             /\ ~Holds(s, symbol) /\ ~Holds(v, Amp) =>
                  /\ FirstHit(data, symbol) = Len(s) + 2
                  /\ http_get_form_field(data, symbol) = v
<1>10. /\ Found1(Desc, upto1, form.desc)
       /\ Found1(Alt, upto2, form.alt)
       /\ Found1(Mode, upto3, form.mode)
       /\ Found1(So2Id, upto4, form.so2_id)
  <2>1. ASSUME NEW s \in Seq(Nat), NEW symbol \in {Desc, Alt, Mode, So2Id}, NEW v \in Seq(Nat),
               Starts(With(s, symbol, v), data), EndsField(data, Len(With(s, symbol, v)))
        PROVE  Found1(symbol, s, v)
    BY <1>8, <2>1, FieldOf
  <2> HIDE DEF Found1
  <2>2. Found1(Desc, upto1, form.desc)
    BY <1>2, <1>3, <1>6, <2>1 DEF upto2
  <2>3. Found1(Alt, upto2, form.alt)
    BY <1>2, <1>4, <1>6, <2>1 DEF upto3
  <2>4. Found1(Mode, upto3, form.mode)
    BY <1>2, <1>4, <1>6, <2>1 DEF upto4
  <2>5. Found1(So2Id, upto4, form.so2_id)
    BY <1>2, <1>4, <1>6, <2>1 DEF upto5
  <2> QED BY <2>2, <2>3, <2>4, <2>5
<1>11. http_get_form_field(data, Id) = form.id
  <2>1. Leads(<<Id>>, Id) /\ Len(<<Id>>) = 1
    BY SymbolsDiffer DEF Leads, EndsWith, Names
  <2>2. Starts(<<Id>> \o form.id, data) /\ EndsField(data, Len(<<Id>>) + Len(form.id))
    <3>1. upto1 = <<Id>> \o form.id
      BY DEF upto1
    <3>2. Len(upto1) = Len(<<Id>>) + Len(form.id)
      BY <1>2, <2>1, <3>1, Joined DEF Leads
    <3> QED BY <1>6, <3>1, <3>2
  <2> QED BY <1>2, <1>8, <1>9, <2>1, <2>2, FieldIs
<1>12. /\ http_get_form_field(data, Desc) \in Seq(Nat)
       /\ ~Holds(form.desc, Amp) => http_get_form_field(data, Desc) = form.desc
  BY <1>7, <1>10
<1>13. /\ http_get_form_field(data, Alt) \in Seq(Nat)
       /\ ~Holds(form.desc, Alt) => http_get_form_field(data, Alt) = form.alt
  BY <1>7, <1>9, <1>10
<1>14. /\ http_get_form_field(data, So2Id) \in Seq(Nat)
       /\ ~Holds(form.desc, So2Id) => http_get_form_field(data, So2Id) = form.so2_id
  BY <1>7, <1>9, <1>10
<1>15. /\ data[FirstHit(data, Mode) + 1] \in Nat
       /\ ~Holds(form.desc, Mode) => data[FirstHit(data, Mode) + 1] = form.mode[1]
  <2>1. /\ FirstHit(data, Mode) \in 1 .. Len(upto3) + 2
        /\ ~Holds(form.desc, Mode) => FirstHit(data, Mode) = Len(upto3) + 2
    BY <1>7, <1>9, <1>10
  <2>2. Len(upto3) + 3 <= Len(data) /\ data[Len(upto3) + 3] = form.mode[1]
    <3>1. Len(upto3) \in Nat
      BY <1>4
    <3>2. Len(upto4) <= Len(data) /\ \A i \in 1..Len(upto4) : data[i] = upto4[i]
      BY <1>6 DEF Starts
    <3>3. Len(upto3) + 3 \in 1..Len(upto4)
      BY <1>5, <3>1
    <3> QED BY <1>5, <3>2, <3>3
  <2>3. FirstHit(data, Mode) + 1 \in 1..Len(data)
    <3>1. Len(upto3) \in Nat /\ Len(data) \in Nat
      BY <1>4, <1>8
    <3> QED BY <2>1, <2>2, <3>1
  <2>4. data[FirstHit(data, Mode) + 1] \in Nat
    BY <1>8, <2>3
  <2>5. Len(upto3) + 2 + 1 = Len(upto3) + 3
    <3>1. Len(upto3) \in Nat
      BY <1>4
    <3> QED BY <3>1
  <2> QED BY <2>1, <2>2, <2>4, <2>5
<1> QED BY <1>11, <1>12, <1>13, <1>14, <1>15

-----------------------------------------------------------------------------
(* What is stored of a form. *)

StoredSettings ==
  [id : 0..255, working_status : 0..255, desc : Seq(Nat), altitude : Int, SO2_specSN : 0 .. ULL - 1]

(* Digits are read as a number; without a zero in front it is written as    *)
(* they are.                                                                *)
LEMMA PlainNumber ==
  ASSUME NEW s \in Seq(Digits)
  PROVE  /\ atoull(s) \in Int /\ atoi(s) = atoull(s)
         /\ s # <<>> /\ ~ZeroInFront(s) => atoull(s) \in Nat /\ Decimal[atoull(s)] = s
<1>1. atoull(s) \in Int
  <2>1. s \in Seq(Int) /\ 0 \in Int
    BY DigitsAreNumbers
  <2> QED BY <2>1, AtoullMore
<1>2. atoi(s) = atoull(s)
  BY AtoiIs
<1>3. ASSUME s # <<>>, ~ZeroInFront(s)
      PROVE  atoull(s) \in Nat /\ Decimal[atoull(s)] = s
  <2>1. CASE s[1] # Zero
    BY <1>3, <2>1, NumeralIsDecimal DEF Numeral
  <2>2. CASE s[1] = Zero
    <3>1. s = <<Zero>>
      <4> DEFINE n == Len(s)
      <4>1. n \in Nat /\ n # 0 /\ ~(n > 1 /\ s[1] = Zero)
        BY <1>3 DEF ZeroInFront
      <4>2. n = 1
        <5> HIDE DEF n
        <5> QED BY <2>2, <4>1
      <4> QED BY <2>2, <4>2
    <3>2. Decimal[0] = <<Zero>> /\ 0 \in Nat
      BY DecimalShort DEF Zero
    <3> QED BY <3>1, <3>2, AtoullReadsDecimal
  <2> QED BY <2>1, <2>2
<1> QED BY <1>1, <1>2, <1>3

(* Digits over digits.                                                      *)
LEMMA OverlaidIs ==
  ASSUME NEW buf \in Seq(Digits), NEW text \in Seq(Digits), text # <<>>
  PROVE  /\ Overlaid(buf, text) \in Seq(Digits) /\ Overlaid(buf, text) # <<>>
         /\ Len(buf) <= Len(text) => Overlaid(buf, text) = text
<1> DEFINE rest == SubSeq(buf, Len(text) + 1, Len(buf))
<1>1. rest \in Seq(Digits) /\ (Len(buf) <= Len(text) => rest = <<>>)
  OBVIOUS
<1> HIDE DEF rest
<1>2. text \o rest \in Seq(Digits) /\ text \o rest # <<>> /\ text \o <<>> = text
  BY <1>1
<1> QED BY <1>1, <1>2 DEF Overlaid, rest

(* What is left of a number where it is stored.                             *)
LEMMA Wrapped ==
  ASSUME NEW n \in Int, NEW m \in Nat \ {0}
  PROVE  n % m \in 0 .. m - 1 /\ (n \in 0 .. m - 1 => n % m = n)
OBVIOUS

(* Whatever is posted, settings are stored: the fields that were posted,    *)
(* but for the id, which goes over the digits in number_buf, and for those  *)
(* whose name or whose end is found elsewhere.                              *)
LEMMA FilledIs ==
  ASSUME NEW form, Posted(form), NEW buf \in Seq(Digits), NEW new, new = Filled(buf, Body(form))
  PROVE  /\ new \in StoredSettings
         /\ http_get_form_field(Body(form), Id) = form.id
         /\ new.id = atoull(Overlaid(buf, form.id)) % 256
         /\ ~Holds(form.desc, Amp) => new.desc = form.desc
         /\ ~Holds(form.desc, Alt) => new.altitude = atof(form.alt)
         /\ ~Holds(form.desc, Mode) => new.working_status = form.mode[1] - Zero
         /\ ~Holds(form.desc, So2Id) => new.SO2_specSN = atoull(form.so2_id)
<1> DEFINE data == Body(form)
           mode == data[FirstHit(data, Mode) + 1]
<1>1. /\ http_get_form_field(data, Id) = form.id
      /\ http_get_form_field(data, Desc) \in Seq(Nat)
      /\ ~Holds(form.desc, Amp) => http_get_form_field(data, Desc) = form.desc
      /\ http_get_form_field(data, Alt) \in Seq(Nat)
      /\ ~Holds(form.desc, Alt) => http_get_form_field(data, Alt) = form.alt
      /\ mode \in Nat
      /\ ~Holds(form.desc, Mode) => mode = form.mode[1]
      /\ http_get_form_field(data, So2Id) \in Seq(Nat)
      /\ ~Holds(form.desc, So2Id) => http_get_form_field(data, So2Id) = form.so2_id
  BY FieldsOf
<1>2. new = [id |-> atoi(Overlaid(buf, http_get_form_field(data, Id))) % 256,
             working_status |-> (mode - Zero) % 256,
             desc |-> http_get_form_field(data, Desc),
             altitude |-> atof(http_get_form_field(data, Alt)),
             SO2_specSN |-> atoull(http_get_form_field(data, So2Id)) % ULL]
  BY DEF Filled
<1> HIDE DEF mode, data
<1>3. /\ new.id = atoi(Overlaid(buf, form.id)) % 256
      /\ new.working_status = (mode - Zero) % 256
      /\ new.desc = http_get_form_field(data, Desc)
      /\ new.altitude = atof(http_get_form_field(data, Alt))
      /\ new.SO2_specSN = atoull(http_get_form_field(data, So2Id)) % ULL
  BY <1>1, <1>2
<1>4. \A s \in Seq(Nat) : s \in Seq(Int)
  <2>1. Nat \subseteq Int
    OBVIOUS
  <2> QED BY <2>1, WiderSeq, Zenon
<1>5. new.id = atoull(Overlaid(buf, form.id)) % 256 /\ new.id \in 0..255
  <2>1. form.id \in Seq(Digits) /\ form.id # <<>>
    BY DEF Posted
  <2>2. Overlaid(buf, form.id) \in Seq(Digits)
    BY <2>1, OverlaidIs
  <2>3. atoull(Overlaid(buf, form.id)) \in Int
        /\ atoi(Overlaid(buf, form.id)) = atoull(Overlaid(buf, form.id))
    BY <2>2, PlainNumber
  <2> DEFINE n == atoull(Overlaid(buf, form.id))
  <2>4. new.id = n % 256 /\ n \in Int
    BY <1>3, <2>3
  <2> HIDE DEF n
  <2>5. new.id = n % 256 /\ new.id \in 0..255
    BY <2>4
  <2> QED BY <2>5 DEF n
<1>6. /\ new.working_status \in 0..255
      /\ ~Holds(form.desc, Mode) => new.working_status = form.mode[1] - Zero
  <2>1. form.mode[1] \in {Zero, Zero + 1}
    BY DEF Posted
  <2>2. (mode - Zero) % 256 \in 0..255
    BY <1>1 DEF Zero
  <2>3. ~Holds(form.desc, Mode) => (mode - Zero) % 256 = form.mode[1] - Zero
    <3>1. \A k \in {0, 1} : k % 256 = k
      OBVIOUS
    <3>2. ASSUME ~Holds(form.desc, Mode) PROVE mode - Zero \in {0, 1} /\ mode = form.mode[1]
      BY <1>1, <2>1, <3>2 DEF Zero
    <3> QED BY <3>1, <3>2
  <2> QED BY <1>3, <2>2, <2>3
<1>7. /\ new.altitude \in Int
      /\ ~Holds(form.desc, Alt) => new.altitude = atof(form.alt)
  BY <1>1, <1>3, <1>4, AtofInt
<1>8. /\ new.SO2_specSN \in 0 .. ULL - 1
      /\ ~Holds(form.desc, So2Id) => new.SO2_specSN = atoull(form.so2_id)
  <2> DEFINE sn == atoull(http_get_form_field(data, So2Id))
  <2>1. sn \in Int
    <3>1. http_get_form_field(data, So2Id) \in Seq(Int) /\ 0 \in Int
      BY <1>1, <1>4
    <3> QED BY <3>1, AtoullMore
  <2>2. atoull(form.so2_id) \in 0 .. ULL - 1
    BY ULLAssumption DEF Posted, ULLAssumption
  <2>3. new.SO2_specSN = sn % ULL /\ (~Holds(form.desc, So2Id) => sn = atoull(form.so2_id))
    BY <1>1, <1>3
  <2>4. ULL \in Nat \ {0}
    BY ULLAssumption DEF ULLAssumption
  <2> HIDE DEF sn
  <2>5. sn % ULL \in 0 .. ULL - 1
    BY <2>1, <2>4, Wrapped
  <2>6. sn \in 0 .. ULL - 1 => sn % ULL = sn
    BY <2>1, <2>4, Wrapped
  <2> QED BY <2>2, <2>3, <2>5, <2>6
<1>9. new \in StoredSettings
  BY <1>1, <1>2, <1>3, <1>5, <1>6, <1>7, <1>8 DEF StoredSettings
<1> QED BY <1>1, <1>3, <1>5, <1>6, <1>7, <1>8, <1>9 DEF data

-----------------------------------------------------------------------------
(* What the page shows, and posts as it is. *)

Marks == Digits \union {Minus, Point}

(* What ftoa writes is made of digits, a minus and a point.                 *)
LEMMA WrittenIn ==
  ASSUME NEW x \in Int
  PROVE  WholePart(x) \in Seq(Marks) /\ Tenths(x) \in Seq(Marks) /\ ftoa(x, 2) \in Seq(Marks)
<1>1. Minus \in Marks /\ Point \in Marks /\ \A k \in 0..9 : Zero + k \in Marks
  BY DEF Marks, Digits, Zero
<1>2. Ones(x) \in Nat /\ Tenth(x) \in 0..9 /\ LastPlace(x) \in 0..9
      /\ ftoa(x, 2) = Append(Tenths(x), Zero + LastPlace(x))
  BY PartsOf
<1>3. WholePart(x) \in Seq(Marks)
  <2>1. Digits \subseteq Marks
    BY DEF Marks
  <2>2. Decimal[Ones(x)] \in Seq(Marks)
    BY <1>2, <2>1, DecimalInDigits, WiderSeq
  <2>3. Sign(x) \in Seq(Marks)
    BY <1>1 DEF Sign
  <2> QED BY <2>2, <2>3 DEF WholePart
<1>4. WithPoint(x) \in Seq(Marks)
  BY <1>1, <1>3 DEF WithPoint
<1>5. Zero + Tenth(x) \in Marks /\ Zero + LastPlace(x) \in Marks
  BY <1>1, <1>2
<1>6. Tenths(x) \in Seq(Marks)
  BY <1>4, <1>5 DEF Tenths
<1>7. Append(Tenths(x), Zero + LastPlace(x)) \in Seq(Marks)
  BY <1>5, <1>6
<1> QED BY <1>2, <1>3, <1>6, <1>7

(* The page leaves nothing out, the last place, or all places.              *)
LEMMA ShorterIs ==
  ASSUME NEW x \in Int
  PROVE  \E short \in Seq(Marks) :
           /\ short # <<>>
           /\ \/ short = ftoa(x, 2)
              \/ short = Tenths(x) /\ LastPlace(x) = 0
              \/ short = WholePart(x) /\ LastPlace(x) = 0 /\ Tenth(x) = 0
           /\ WithoutZeros(ftoa(x, 2)) = IF short = <<Minus, Zero>> THEN <<Zero>> ELSE short
<1> DEFINE text == ftoa(x, 2)
           n == Len(text)
           a == WholePart(x)
           b == Tenths(x)
           p == Zero + Tenth(x)
           q == Zero + LastPlace(x)
           short == CASE text[n] # Zero -> text
                      [] text[n] = Zero /\ text[n - 1] # Zero -> SubSeq(text, 1, n - 1)
                      [] OTHER -> SubSeq(text, 1, n - 3)
<1>1. /\ a \in Seq(Marks) /\ b \in Seq(Marks) /\ text \in Seq(Marks) /\ a # <<>>
      /\ b = Append(Append(a, Point), p) /\ text = Append(b, q)
      /\ Tenth(x) \in 0..9 /\ LastPlace(x) \in 0..9
  BY WrittenIn, PartsOf DEF Tenths, WithPoint
<1>2. WithoutZeros(text) = IF short = <<Minus, Zero>> THEN <<Zero>> ELSE short
  BY DEF WithoutZeros
<1> HIDE DEF a, b, text
<1>3. Point \in Marks /\ p \in Marks /\ q \in Marks
  BY <1>1 DEF Marks, Digits, Zero, Point
<1>4. p = Zero <=> Tenth(x) = 0
  BY <1>1 DEF Zero
<1>5. q = Zero <=> LastPlace(x) = 0
  BY <1>1 DEF Zero
<1> HIDE DEF p, q
<1>6. /\ Len(b) = Len(a) + 2 /\ b[Len(b)] = p /\ SubSeq(b, 1, Len(a)) = a /\ b # <<>>
      /\ Len(a) \in Nat
  BY <1>1, <1>3
<1>7. /\ n = Len(b) + 1 /\ text[n] = q /\ text[n - 1] = b[Len(b)]
      /\ SubSeq(text, 1, n - 1) = b /\ text # <<>>
  <2>1. Len(b) \in Nat \ {0} /\ n = Len(b) + 1 /\ text[n] = q /\ text # <<>>
    BY <1>1, <1>3, <1>6
  <2>2. n - 1 = Len(b) /\ text[Len(b)] = b[Len(b)]
    BY <1>1, <1>3, <2>1
  <2>3. SubSeq(text, 1, Len(b)) = b
    BY <1>1, <1>3
  <2> QED BY <2>1, <2>2, <2>3
<1>8. SubSeq(text, 1, n - 3) = a
  <2>1. n - 3 = Len(a)
    BY <1>6, <1>7
  <2>2. SubSeq(text, 1, Len(a)) = SubSeq(b, 1, Len(a))
    <3>1. Len(a) \in 0..Len(b)
      BY <1>6
    <3> QED BY <1>1, <1>3, <3>1
  <2> QED BY <1>6, <2>1, <2>2
<1>9. CASE text[n] # Zero
  <2>1. short = text
    BY <1>9
  <2> HIDE DEF short
  <2> QED BY <1>1, <1>2, <1>7, <2>1 DEF text
<1>10. CASE text[n] = Zero /\ text[n - 1] # Zero
  <2>1. short = b
    BY <1>7, <1>10
  <2>2. LastPlace(x) = 0
    BY <1>5, <1>7, <1>10
  <2> HIDE DEF short
  <2> QED BY <1>1, <1>2, <1>6, <2>1, <2>2 DEF text, b
<1>11. CASE text[n] = Zero /\ text[n - 1] = Zero
  <2>1. short = a
    BY <1>8, <1>11
  <2>2. LastPlace(x) = 0 /\ Tenth(x) = 0
    BY <1>4, <1>5, <1>6, <1>7, <1>11
  <2> HIDE DEF short
  <2> QED BY <1>1, <1>2, <2>1, <2>2 DEF text, a
<1> QED BY <1>9, <1>10, <1>11

(* A zero is read as one, with a minus too.                                 *)
LEMMA ZerosRead == atof(<<Zero>>) = 0 /\ atof(<<Minus, Zero>>) = 0
<1>1. Decimal[0] = <<Zero>>
  BY DecimalShort DEF Zero
<1>2. <<>> \o <<Zero>> = <<Zero>> /\ <<Minus>> \o <<Zero>> = <<Minus, Zero>>
  <2>1. \A s \in Seq(Nat) : <<>> \o s = s
    OBVIOUS
  <2>2. Zero \in Nat /\ Minus \in Nat /\ <<Zero>> \in Seq(Nat) /\ <<Minus>> \in Seq(Nat)
    BY DEF Zero, Minus
  <2> DEFINE both == <<Minus>> \o <<Zero>>
  <2>3. both \in Seq(Nat) /\ Len(both) = 2 /\ both[1] = Minus /\ both[2] = Zero
    BY <2>2
  <2> HIDE DEF both
  <2>4. both = <<Minus, Zero>>
    BY <2>3
  <2> QED BY <2>1, <2>2, <2>4 DEF both
<1>3. Number(<<Zero>>) = Have(0, 0, FALSE) /\ Number(<<Minus, Zero>>) = Have(0, 0, FALSE)
  <2>1. 0 \in Nat
    OBVIOUS
  <2>2. Number(<<>> \o Decimal[0]) = Have(0, 0, FALSE)
    BY <2>1, ReadsWhole
  <2>3. Number(<<Minus>> \o Decimal[0]) = Have(0, 0, FALSE)
    BY <2>1, ReadsWhole
  <2> QED BY <1>1, <1>2, <2>2, <2>3, Zenon
<1>4. Units(Have(0, 0, FALSE)) = 0
  BY Powers DEF Units, Have, Scale
<1>5. ASSUME NEW text, Number(text) = Have(0, 0, FALSE) PROVE atof(text) = 0
  <2>1. atof(text) = (IF text # <<>> /\ Head(text) = Minus THEN -1 ELSE 1) * 0
    BY <1>4, <1>5, AtofIs, Zenon
  <2> QED BY <2>1
<1> QED BY <1>3, <1>5

(* What is left out makes no difference to atof.                            *)
LEMMA ShorterReads ==
  ASSUME NEW x \in Int
  PROVE  /\ WithoutZeros(ftoa(x, 2)) \in Seq(Marks)
         /\ atof(WithoutZeros(ftoa(x, 2))) = atof(ftoa(x, 2))
<1> DEFINE sign == IF x < 0 THEN -1 ELSE 1
           all == atof(ftoa(x, 2))
<1>1. /\ Ones(x) \in Nat /\ Tenth(x) \in 0..9 /\ LastPlace(x) \in 0..9
      /\ 10 * (10 * Ones(x) + Tenth(x)) + LastPlace(x) = Hundredths(x)
  BY PartsOf
<1>2. /\ WholePart(x) \in Seq(Int) /\ WithPoint(x) \in Seq(Int)
      /\ WholePart(x) # <<>> /\ (WholePart(x)[1] = Minus <=> x < 0)
      /\ Number(WholePart(x)) = Have(Ones(x), 0, FALSE)
      /\ Number(Tenths(x)) = Have(10 * Ones(x) + Tenth(x), 1, TRUE)
  BY PartsOf
<1>3. all = sign * (100 * Hundredths(x))
  BY AtofReadsFtoa
<1>4. Ten[4] = 10000 /\ Ten[3] = 1000
  BY Powers
<1>5. LastPlace(x) = 0 => atof(Tenths(x)) = all
  <2> SUFFICES ASSUME LastPlace(x) = 0 PROVE atof(Tenths(x)) = all
    OBVIOUS
  <2> DEFINE r == 10 * Ones(x) + Tenth(x)
  <2>1. r \in Nat /\ Hundredths(x) = 10 * r
    BY <1>1
  <2>2. Tenths(x) # <<>> /\ Head(Tenths(x)) = WholePart(x)[1]
    <3>1. Point \in Int /\ Zero + Tenth(x) \in Int
      BY <1>1 DEF Point, Zero
    <3>2. WithPoint(x) # <<>> /\ WithPoint(x)[1] = WholePart(x)[1]
      BY <1>2, <3>1, SignedAs DEF WithPoint
    <3> QED BY <1>2, <3>1, <3>2, SignedAs DEF Tenths
  <2>3. Number(Tenths(x)).rez = r /\ Number(Tenths(x)).places = 1
    BY <1>2 DEF Have
  <2> HIDE DEF r
  <2>4. atof(Tenths(x)) = sign * (r * Ten[3])
    <3>1. Scale - 1 = 3
      BY DEF Scale
    <3>2. Tenths(x) # <<>> /\ (Head(Tenths(x)) = Minus <=> x < 0)
      BY <1>2, <2>2
    <3>3. Number(Tenths(x)).rez \in Nat /\ Number(Tenths(x)).places \in 0..4
      BY <2>1, <2>3
    <3>4. atof(Tenths(x)) =
            sign * (Number(Tenths(x)).rez * Ten[Scale - Number(Tenths(x)).places])
      BY <3>2, <3>3, ReadsOf
    <3> QED BY <2>3, <3>1, <3>4
  <2> QED BY <1>3, <1>4, <2>1, <2>4
<1>6. LastPlace(x) = 0 /\ Tenth(x) = 0 => atof(WholePart(x)) = all
  <2> SUFFICES ASSUME LastPlace(x) = 0, Tenth(x) = 0 PROVE atof(WholePart(x)) = all
    OBVIOUS
  <2> DEFINE r == Ones(x)
  <2>1. r \in Nat /\ Hundredths(x) = 100 * r
    BY <1>1
  <2>2. Head(WholePart(x)) = WholePart(x)[1]
    BY <1>2
  <2>3. Number(WholePart(x)).rez = r /\ Number(WholePart(x)).places = 0
    BY <1>2 DEF Have
  <2> HIDE DEF r
  <2>4. atof(WholePart(x)) = sign * (r * Ten[4])
    <3>1. Scale - 0 = 4
      BY DEF Scale
    <3>2. WholePart(x) # <<>> /\ (Head(WholePart(x)) = Minus <=> x < 0)
      BY <1>2, <2>2
    <3>3. Number(WholePart(x)).rez \in Nat /\ Number(WholePart(x)).places \in 0..4
      BY <2>1, <2>3
    <3>4. atof(WholePart(x)) =
            sign * (Number(WholePart(x)).rez * Ten[Scale - Number(WholePart(x)).places])
      BY <3>2, <3>3, ReadsOf
    <3> QED BY <2>3, <3>1, <3>4
  <2> QED BY <1>3, <1>4, <2>1, <2>4
<1> HIDE DEF all
<1>7. PICK short \in Seq(Marks) :
        /\ \/ short = ftoa(x, 2)
           \/ short = Tenths(x) /\ LastPlace(x) = 0
           \/ short = WholePart(x) /\ LastPlace(x) = 0 /\ Tenth(x) = 0
        /\ WithoutZeros(ftoa(x, 2)) = IF short = <<Minus, Zero>> THEN <<Zero>> ELSE short
  BY ShorterIs
<1>8. atof(short) = all
  BY <1>5, <1>6, <1>7 DEF all
<1>9. <<Zero>> \in Seq(Marks)
  BY DEF Marks, Digits, Zero
<1>10. CASE short = <<Minus, Zero>>
  BY <1>7, <1>8, <1>9, <1>10, ZerosRead DEF all
<1>11. CASE short # <<Minus, Zero>>
  BY <1>7, <1>8, <1>11 DEF all
<1> QED BY <1>10, <1>11

(* Nothing of it is taken for a symbol.                                     *)
LEMMA MarksOnly ==
  ASSUME NEW s \in Seq(Marks)
  PROVE  s \in Seq(Nat) /\ Unambiguous(s)
<1>1. Marks \subseteq Nat /\ Marks \intersect ({Amp} \union Names) = {}
  BY SymbolsDiffer DEF Marks, Minus, Point
<1>2. s \in Seq(Nat) /\ \A i \in DOMAIN s : s[i] \in Marks
  <2>1. s \in Seq(Nat)
    BY <1>1, WiderSeq
  <2> QED BY <2>1
<1> QED BY <1>1, <1>2 DEF Unambiguous, Holds, Names

(* The page as it is shown can be posted.                                   *)
LEMMA ShownIsPosted ==
  ASSUME NEW s \in StoredSettings
  PROVE  Posted(Shown(s))
<1> DEFINE read == IF JsonReads(s.desc) THEN s ELSE Defaults
<1>1. read \in StoredSettings
  <2>1. Defaults \in StoredSettings
    <3>1. ULL - 1 \in Nat /\ 0 \in 0 .. ULL - 1 /\ 0 \in 0..255 /\ <<>> \in Seq(Nat) /\ 0 \in Int
      BY ULLAssumption DEF ULLAssumption
    <3> QED BY <3>1 DEF Defaults, StoredSettings
  <2> QED BY <2>1
<1>2. Shown(s) = [ id |-> Decimal[read.id], desc |-> read.desc,
                   alt |-> WithoutZeros(ftoa(read.altitude, 2)),
                   mode |-> <<IF read.working_status = 1 THEN Zero + 1 ELSE Zero>>,
                   so2_id |-> ulltoa(read.SO2_specSN) ]
  BY DEF Shown
<1> HIDE DEF read
<1>3. /\ read.id \in 0..255 /\ read.desc \in Seq(Nat) /\ read.altitude \in Int
      /\ read.SO2_specSN \in 0 .. ULL - 1
  BY <1>1 DEF StoredSettings
<1>4. \A n \in Nat : /\ Decimal[n] \in Seq(Digits) /\ Decimal[n] # <<>> /\ atoull(Decimal[n]) = n
  BY DecimalInDigits, AtoullReadsDecimal
<1>5. /\ Shown(s).id \in Seq(Digits) /\ Shown(s).id # <<>> /\ atoull(Shown(s).id) \in 0..255
      /\ Shown(s).so2_id \in Seq(Digits) /\ Shown(s).so2_id # <<>>
      /\ atoull(Shown(s).so2_id) \in 0 .. ULL - 1
  <2>1. Shown(s).id = Decimal[read.id] /\ Shown(s).so2_id = Decimal[read.SO2_specSN]
    BY <1>2 DEF ulltoa
  <2>2. read.id \in Nat /\ read.SO2_specSN \in Nat
    <3>1. \A k \in 0 .. ULL - 1 : k \in Nat
      BY ULLAssumption DEF ULLAssumption
    <3>2. \A k \in 0..255 : k \in Nat
      OBVIOUS
    <3> QED BY <1>3, <3>1, <3>2, Zenon
  <2> QED BY <1>3, <1>4, <2>1, <2>2
<1>6. Shown(s).alt \in Seq(Nat) /\ Unambiguous(Shown(s).alt)
  <2>1. Shown(s).alt = WithoutZeros(ftoa(read.altitude, 2))
    BY <1>2
  <2>2. Shown(s).alt \in Seq(Marks)
    BY <1>3, <2>1, ShorterReads
  <2> QED BY <2>2, MarksOnly
<1>7. Shown(s).desc \in Seq(Nat) /\ Shown(s).mode \in {<<Zero>>, <<Zero + 1>>}
  BY <1>2, <1>3
<1> QED BY <1>5, <1>6, <1>7 DEF Posted

-----------------------------------------------------------------------------
(* What is stored while forms come and go. *)

(* What the devices have been given and what is posted.                     *)
Pages ==
  /\ Settings \subseteq StoredSettings
  /\ \A r \in Requests : r.body = "form" => Posted(r.form)

(* number_buf holds the number whose last byte is the id that is stored,    *)
(* once a form has been saved.                                              *)
StoredInv ==
  /\ device_config = stored
  /\ stored.settings \in StoredSettings
  /\ number_buf \in Seq(Digits)
  /\ number_buf = <<>> \/ stored.settings.id = atoull(number_buf) % 256
  /\ request # NoRequest => request \in Requests \/ request.body = "form"
  /\ request # NoRequest /\ request.body = "form" => Posted(request.form)

(* Nothing has been posted at first.                                        *)
LEMMA StoredStarts == Pages /\ Init => StoredInv
<1> SUFFICES ASSUME Pages, Init PROVE StoredInv
  OBVIOUS
<1>1. stored.settings \in Settings
  BY DEF Init
<1>2. device_config = stored /\ number_buf = <<>> /\ request = NoRequest
  BY DEF Init
<1>3. <<>> \in Seq(Digits)
  OBVIOUS
<1> QED BY <1>1, <1>2, <1>3 DEF StoredInv, Pages

(* Whoever saves settings has been posted a form.                           *)
LEMMA FormPosted ==
  ASSUME HInv, StoredInv, pc = "build", http_response.status = 200,
         http_response.route.handler = "set_device_conf", request.body # "none"
  PROVE  request # NoRequest /\ request.body = "form" /\ Posted(request.form)
<1>1. Routed /\ request # NoRequest
  BY DEF HInv, Placed
<1>2. request.method = "POST" /\ request.name = "device-conf"
  <2>1. \A route \in ALLOWED_ROUTES : route.handler = "set_device_conf" =>
          route.method = "POST" /\ route.name = "device-conf"
    BY DEF ALLOWED_ROUTES, Route
  <2> QED BY <1>1, <2>1 DEF Routed
<1>3. request \in Requests => request.body = "form"
  BY <1>2, HttpAssumption DEF HttpAssumption
<1> QED BY <1>1, <1>3 DEF StoredInv

(* What saving a form does.                                                 *)
LEMMA Saving ==
  ASSUME HInv, StoredInv, SetDeviceConf,
         NEW form, form = request.form, NEW new, new = stored'.settings
  PROVE  /\ Posted(form) /\ device_config' = stored' /\ request' = request
         /\ number_buf' = Overlaid(number_buf, form.id) /\ number_buf' \in Seq(Digits)
         /\ number_buf' # <<>> /\ new.id = atoull(number_buf') % 256
         /\ new \in StoredSettings
         /\ ~Holds(form.desc, Amp) => new.desc = form.desc
         /\ ~Holds(form.desc, Alt) => new.altitude = atof(form.alt)
         /\ ~Holds(form.desc, Mode) => new.working_status = form.mode[1] - Zero
         /\ ~Holds(form.desc, So2Id) => new.SO2_specSN = atoull(form.so2_id)
<1> DEFINE filled == Filled(number_buf, Body(form))
<1>1. /\ request' = request /\ pc = "build" /\ http_response.status = 200
      /\ http_response.route.handler = "set_device_conf" /\ request.body # "none"
      /\ device_config' = [device_config EXCEPT !.settings = filled] /\ stored' = device_config'
      /\ number_buf' = Overlaid(number_buf, http_get_form_field(Body(form), Id))
  BY DEF SetDeviceConf, Handling
<1>2. Posted(form)
  BY <1>1, FormPosted
<1>3. new = filled
  <2> HIDE DEF filled
  <2> QED BY <1>1 DEF HInv, Typed, HasNetwork
<1>4. number_buf \in Seq(Digits)
  BY DEF StoredInv
<1>5. /\ new \in StoredSettings
      /\ http_get_form_field(Body(form), Id) = form.id
      /\ new.id = atoull(Overlaid(number_buf, form.id)) % 256
      /\ ~Holds(form.desc, Amp) => new.desc = form.desc
      /\ ~Holds(form.desc, Alt) => new.altitude = atof(form.alt)
      /\ ~Holds(form.desc, Mode) => new.working_status = form.mode[1] - Zero
      /\ ~Holds(form.desc, So2Id) => new.SO2_specSN = atoull(form.so2_id)
  BY <1>2, <1>3, <1>4, FilledIs
<1>6. number_buf' = Overlaid(number_buf, form.id)
  BY <1>1, <1>5
<1>7. Overlaid(number_buf, form.id) \in Seq(Digits) /\ Overlaid(number_buf, form.id) # <<>>
  BY <1>2, <1>4, OverlaidIs DEF Posted
<1> HIDE DEF filled
<1> QED BY <1>1, <1>2, <1>5, <1>6, <1>7

(* After it number_buf still tells the id,                                  *)
LEMMA SavingKeeps ==
  ASSUME HInv, StoredInv, SetDeviceConf
  PROVE  StoredInv'
<1>1. /\ device_config' = stored' /\ request' = request
      /\ number_buf' \in Seq(Digits) /\ stored'.settings.id = atoull(number_buf') % 256
      /\ stored'.settings \in StoredSettings
  BY Saving
<1> QED BY <1>1 DEF StoredInv

(* No other step changes the settings; the page is posted as it is stored.  *)
LEMMA OthersKeep ==
  ASSUME HInv, StoredInv, [Next]_vars, ~SetDeviceConf
  PROVE  /\ device_config' = stored' /\ stored'.settings = stored.settings
         /\ number_buf' = number_buf
         /\ request' \in {request, NoRequest} \union Requests \union {Repost}
<1> USE DEF config
<1>1. CASE Start
  BY <1>1 DEF Start
<1>2. CASE FinishConnect
  <2>1. device_config' = [device_config EXCEPT !.wifi_ssid = Name] /\ stored' = device_config'
        /\ UNCHANGED <<number_buf, request>>
    BY <1>2 DEF FinishConnect
  <2> QED BY <2>1 DEF HInv, Typed, HasNetwork, StoredInv
<1>3. CASE GetDeviceConf
  BY <1>3 DEF GetDeviceConf
<1>4. CASE \/ BuildRefusal \/ BuildPage \/ GetWifiList \/ ConnectWifi \/ WifiOn \/ WifiOff
           \/ ConfMode \/ RejectBody \/ FailConnect \/ FinishWifiOn
  BY <1>4 DEF BuildRefusal, BuildPage, GetWifiList, ConnectWifi, WifiOn, WifiOff, ConfMode,
              RejectBody, FailConnect, FinishWifiOn, StoredInv
<1>5. CASE Join \/ AskAddress \/ Check \/ AnswerAndErase \/ UNCHANGED vars
  BY <1>5 DEF Join, AskAddress, Check, AnswerAndErase, vars, StoredInv
<1>6. CASE \/ \E r \in Requests : Receive(r)
           \/ Repost.form.desc # <<>> /\ Receive(Repost)
  BY <1>6 DEF Receive, StoredInv
<1> QED BY <1>1, <1>2, <1>3, <1>4, <1>5, <1>6 DEF Next, WifiTask, BuildAnswer

(* so it does after every step.                                             *)
LEMMA StoredStep == Pages /\ HInv /\ StoredInv /\ [Next]_vars => StoredInv'
<1> SUFFICES ASSUME Pages, HInv, StoredInv, [Next]_vars PROVE StoredInv'
  OBVIOUS
<1>1. CASE SetDeviceConf
  BY <1>1, SavingKeeps
<1>2. CASE ~SetDeviceConf
  <2>1. /\ device_config' = stored' /\ stored'.settings = stored.settings
        /\ number_buf' = number_buf
        /\ request' \in {request, NoRequest} \union Requests \union {Repost}
    BY <1>2, OthersKeep
  <2>2. Repost.body = "form" /\ Posted(Repost.form)
    BY ShownIsPosted DEF Repost, StoredInv
  <2>3. request' # NoRequest => request' \in Requests \/ request'.body = "form"
    BY <2>1, <2>2 DEF StoredInv
  <2>4. request' # NoRequest /\ request'.body = "form" => Posted(request'.form)
    BY <2>1, <2>2 DEF StoredInv, Pages
  <2> QED BY <2>1, <2>3, <2>4 DEF StoredInv
<1> QED BY <1>1, <1>2

(* A form is stored by nothing else.                                        *)
LEMMA StoringSaves ==
  ASSUME Storing, Next
  PROVE  SetDeviceConf
<1>1. ~Start /\ ~Join /\ ~AskAddress /\ ~Check /\ ~AnswerAndErase /\ \A r : ~Receive(r)
  BY DEF Storing, Start, Join, AskAddress, Check, AnswerAndErase, Receive
<1>2. ~FinishConnect /\ ~FailConnect /\ ~FinishWifiOn /\ ~BuildRefusal
  BY DEF Storing, FinishConnect, FailConnect, FinishWifiOn, BuildRefusal
<1>3. ~BuildPage /\ ~GetWifiList /\ ~GetDeviceConf /\ ~ConnectWifi /\ ~WifiOn /\ ~WifiOff /\ ~ConfMode
  BY DEF Storing, BuildPage, GetWifiList, GetDeviceConf, ConnectWifi, WifiOn, WifiOff, ConfMode, Handling
<1>4. ~RejectBody
  BY DEF Storing, RejectBody
<1> QED BY <1>1, <1>2, <1>3, <1>4 DEF Next, WifiTask, BuildAnswer

(* An id, shown again while it is the number in number_buf, covers it.      *)
LEMMA IdAgain ==
  ASSUME StoredInv, IdFits, NEW id, id = stored.settings.id
  PROVE  /\ id \in 0..255 /\ atoull(Decimal[id]) % 256 = id
         /\ Overlaid(number_buf, Decimal[id]) = Decimal[id]
<1>1. id \in 0..255 /\ id \in Nat
  <2>1. id \in 0..255
    BY DEF StoredInv, StoredSettings
  <2>2. \A k \in 0..255 : k \in Nat
    OBVIOUS
  <2> QED BY <2>1, <2>2, Zenon
<1>2. Decimal[id] \in Seq(Digits) /\ Decimal[id] # <<>> /\ atoull(Decimal[id]) = id
  BY <1>1, DecimalInDigits, AtoullReadsDecimal
<1>3. id % 256 = id
  BY <1>1
<1>4. number_buf \in Seq(Digits)
  BY DEF StoredInv
<1>5. Len(number_buf) <= Len(Decimal[id])
  <2>1. CASE number_buf = <<>>
    BY <1>2, <2>1
  <2>2. CASE number_buf # <<>>
    <3> DEFINE n == atoull(number_buf)
    <3>1. n \in Nat /\ Decimal[n] = number_buf /\ atoi(number_buf) = n
      <4>1. ~ZeroInFront(number_buf)
        BY DEF IdFits, ZeroInFront
      <4> QED BY <1>4, <2>2, <4>1, PlainNumber
    <3>2. n < 256 /\ id = n % 256
      BY <2>2, <3>1 DEF IdFits, StoredInv
    <3> HIDE DEF n
    <3>3. id = n
      BY <3>1, <3>2
    <3> QED BY <1>2, <3>1, <3>3
  <2> QED BY <2>1, <2>2
<1> QED BY <1>1, <1>2, <1>3, <1>4, <1>5, OverlaidIs

(* What is left of a form that holds what is stored already.                *)
LEMMA SavedAgain ==
  ASSUME HInv, StoredInv, SetDeviceConf, request.form = Shown(stored.settings),
         JsonReads(stored.settings.desc), Unambiguous(stored.settings.desc),
         stored.settings.working_status \in {0, 1}, IdFits
  PROVE  /\ [stored'.settings EXCEPT !.altitude = 0] = [stored.settings EXCEPT !.altitude = 0]
         /\ 2 * Magnitude(stored'.settings.altitude - stored.settings.altitude) <= Ten[Scale - 2]
<1> DEFINE s == stored.settings
           new == stored'.settings
           form == request.form
<1>1. s \in StoredSettings
  BY DEF StoredInv
<1>2. /\ form.id = Decimal[s.id] /\ form.desc = s.desc
      /\ form.alt = WithoutZeros(ftoa(s.altitude, 2))
      /\ form.mode = <<IF s.working_status = 1 THEN Zero + 1 ELSE Zero>>
      /\ form.so2_id = Decimal[s.SO2_specSN]
  BY DEF Shown, ulltoa
<1>3. /\ number_buf' = Overlaid(number_buf, form.id) /\ new.id = atoull(number_buf') % 256
      /\ new \in StoredSettings
      /\ ~Holds(form.desc, Amp) => new.desc = form.desc
      /\ ~Holds(form.desc, Alt) => new.altitude = atof(form.alt)
      /\ ~Holds(form.desc, Mode) => new.working_status = form.mode[1] - Zero
      /\ ~Holds(form.desc, So2Id) => new.SO2_specSN = atoull(form.so2_id)
  BY Saving
<1> HIDE DEF s, new, form
<1>4. ~Holds(s.desc, Amp) /\ ~Holds(s.desc, Alt) /\ ~Holds(s.desc, Mode) /\ ~Holds(s.desc, So2Id)
  BY DEF Unambiguous, s
<1>5. new.id = s.id
  <2>1. atoull(Decimal[s.id]) % 256 = s.id /\ Overlaid(number_buf, Decimal[s.id]) = Decimal[s.id]
    BY IdAgain DEF s
  <2> QED BY <1>2, <1>3, <2>1
<1>6. new.working_status = s.working_status
  <2>1. s.working_status \in {0, 1}
    BY DEF s
  <2>2. form.mode[1] = IF s.working_status = 1 THEN Zero + 1 ELSE Zero
    BY <1>2
  <2>3. form.mode[1] - Zero = s.working_status
    BY <2>1, <2>2 DEF Zero
  <2> QED BY <1>2, <1>3, <1>4, <2>3
<1>7. new.SO2_specSN = s.SO2_specSN
  <2>1. s.SO2_specSN \in Nat
    <3>1. \A k \in 0 .. ULL - 1 : k \in Nat
      BY ULLAssumption DEF ULLAssumption
    <3> QED BY <1>1, <3>1 DEF StoredSettings
  <2>2. atoull(Decimal[s.SO2_specSN]) = s.SO2_specSN
    BY <2>1, AtoullReadsDecimal
  <2> QED BY <1>2, <1>3, <1>4, <2>2
<1>8. new.desc = s.desc
  BY <1>2, <1>3, <1>4
<1>9. 2 * Magnitude(new.altitude - s.altitude) <= Ten[Scale - 2]
  <2>1. s.altitude \in Int
    BY <1>1 DEF StoredSettings
  <2>2. new.altitude = atof(ftoa(s.altitude, 2))
    BY <1>2, <1>3, <1>4, <2>1, ShorterReads
  <2>3. Ten[Scale - 2] = 100
    BY Powers DEF Scale
  <2> QED BY <2>1, <2>2, <2>3, AtofIsNear
<1>10. [new EXCEPT !.altitude = 0] = [s EXCEPT !.altitude = 0]
  BY <1>1, <1>3, <1>5, <1>6, <1>7, <1>8 DEF StoredSettings
<1> QED BY <1>9, <1>10 DEF s, new

(* The page, saved as it was opened, changes no setting: not even the id,   *)
(* though it goes over the digits in number_buf; and the altitude by no     *)
(* more than half of the last place shown.  The exceptions are those of     *)
(* RepostKeeps: a description with a quote, a backslash or a control        *)
(* character, with "&" or with the name of a field in it, a mode that is    *)
(* neither 0 nor 1, and a number in number_buf with a zero in front or      *)
(* above 255.                                                               *)
THEOREM RepostingKeeps == Pages => (Spec => RepostKeeps)
<1> SUFFICES ASSUME Pages PROVE Spec => RepostKeeps
  OBVIOUS
<1>1. Init => StoredInv
  BY StoredStarts
<1>2. HInv /\ StoredInv /\ [Next]_vars => StoredInv'
  BY StoredStep
<1>3. HInv /\ StoredInv /\ [Next]_vars =>
        [Storing /\ request.form = Shown(stored.settings)
         /\ JsonReads(stored.settings.desc) /\ Unambiguous(stored.settings.desc)
         /\ stored.settings.working_status \in {0, 1} /\ IdFits
           => /\ [stored'.settings EXCEPT !.altitude = 0] = [stored.settings EXCEPT !.altitude = 0]
              /\ 2 * Magnitude(stored'.settings.altitude - stored.settings.altitude)
                   <= Ten[Scale - 2]]_vars
  BY StoringSaves, SavedAgain
<1> QED BY HInvHolds, <1>1, <1>2, <1>3, PTL DEF Spec, RepostKeeps

-----------------------------------------------------------------------------
(* What the page shows of a form that was saved. *)

(* Field by field, what was saved and what is shown of it.                  *)
LEMMA SavedIsShown ==
  ASSUME HInv, StoredInv, SetDeviceConf, JsonReads(stored'.settings.desc),
         NEW posted, posted = request.form, NEW shown, shown = Shown(stored'.settings)
  PROVE  /\ Len(number_buf) <= Len(posted.id) /\ ~ZeroInFront(posted.id) => shown.id = posted.id
         /\ ~Holds(posted.desc, Amp) => shown.desc = posted.desc
         /\ ~Holds(posted.desc, Alt) =>
              2 * Magnitude(atof(shown.alt) - atof(posted.alt)) <= Ten[Scale - 2]
         /\ ~Holds(posted.desc, Mode) => shown.mode = posted.mode
         /\ ~Holds(posted.desc, So2Id) /\ ~ZeroInFront(posted.so2_id)
              => shown.so2_id = posted.so2_id
<1> DEFINE new == stored'.settings
<1>1. /\ Posted(posted)
      /\ number_buf' = Overlaid(number_buf, posted.id) /\ new.id = atoull(number_buf') % 256
      /\ new \in StoredSettings
      /\ ~Holds(posted.desc, Amp) => new.desc = posted.desc
      /\ ~Holds(posted.desc, Alt) => new.altitude = atof(posted.alt)
      /\ ~Holds(posted.desc, Mode) => new.working_status = posted.mode[1] - Zero
      /\ ~Holds(posted.desc, So2Id) => new.SO2_specSN = atoull(posted.so2_id)
  BY Saving
<1>2. /\ shown.id = Decimal[new.id] /\ shown.desc = new.desc
      /\ shown.alt = WithoutZeros(ftoa(new.altitude, 2))
      /\ shown.mode = <<IF new.working_status = 1 THEN Zero + 1 ELSE Zero>>
      /\ shown.so2_id = Decimal[new.SO2_specSN]
  BY DEF Shown, ulltoa
<1> HIDE DEF new
<1>3. ASSUME Len(number_buf) <= Len(posted.id), ~ZeroInFront(posted.id)
      PROVE  shown.id = posted.id
  <2>1. number_buf' = posted.id
    <3>1. number_buf \in Seq(Digits) /\ posted.id \in Seq(Digits) /\ posted.id # <<>>
      BY <1>1 DEF StoredInv, Posted
    <3> QED BY <1>1, <1>3, <3>1, OverlaidIs
  <2>2. atoull(posted.id) % 256 = atoull(posted.id)
    <3>1. \A k \in 0..255 : k % 256 = k
      OBVIOUS
    <3> QED BY <1>1, <3>1 DEF Posted
  <2>3. Decimal[atoull(posted.id)] = posted.id
    BY <1>1, <1>3, PlainNumber DEF Posted
  <2> QED BY <1>1, <1>2, <2>1, <2>2, <2>3
<1>4. ASSUME ~Holds(posted.desc, Alt)
      PROVE  2 * Magnitude(atof(shown.alt) - atof(posted.alt)) <= Ten[Scale - 2]
  <2>1. new.altitude \in Int /\ new.altitude = atof(posted.alt)
    BY <1>1, <1>4 DEF StoredSettings
  <2>2. atof(shown.alt) = atof(ftoa(new.altitude, 2))
    BY <1>2, <2>1, ShorterReads
  <2>3. Ten[Scale - 2] = 100
    BY Powers DEF Scale
  <2> QED BY <2>1, <2>2, <2>3, AtofIsNear
<1>5. ASSUME ~Holds(posted.desc, Mode) PROVE shown.mode = posted.mode
  <2>1. CASE posted.mode = <<Zero>>
    <3>1. new.working_status = 0
      BY <1>1, <1>5, <2>1 DEF Zero
    <3> QED BY <1>2, <2>1, <3>1
  <2>2. CASE posted.mode = <<Zero + 1>>
    <3>1. new.working_status = 1
      BY <1>1, <1>5, <2>2 DEF Zero
    <3> QED BY <1>2, <2>2, <3>1
  <2> QED BY <1>1, <2>1, <2>2 DEF Posted
<1>6. ASSUME ~Holds(posted.desc, So2Id), ~ZeroInFront(posted.so2_id)
      PROVE  shown.so2_id = posted.so2_id
  <2>1. Decimal[atoull(posted.so2_id)] = posted.so2_id
    BY <1>1, <1>6, PlainNumber DEF Posted
  <2> QED BY <1>1, <1>2, <1>6, <2>1
<1> QED BY <1>1, <1>2, <1>3, <1>4, <1>5, <1>6

(* What was saved is what the page shows next, as it was posted: a text as  *)
(* it is, and what is read from a number is written as that number again.   *)
(* The exceptions are those of ShownAsPosted: a text that was cut at "&",   *)
(* a field whose name is found in the description, numbers with a zero in   *)
(* front, an id shorter than those before it, and a description that JSON   *)
(* cannot read.                                                             *)
THEOREM ShowsAsPosted == Pages => (Spec => ShownAsPosted)
<1> SUFFICES ASSUME Pages PROVE Spec => ShownAsPosted
  OBVIOUS
<1>1. Init => StoredInv
  BY StoredStarts
<1>2. HInv /\ StoredInv /\ [Next]_vars => StoredInv'
  BY StoredStep
<1>3. HInv /\ StoredInv /\ [Next]_vars =>
        [Storing /\ JsonReads(stored'.settings.desc) =>
           LET posted == request.form
               shown == Shown(stored'.settings)
           IN /\ Len(number_buf) <= Len(posted.id) /\ ~ZeroInFront(posted.id) => shown.id = posted.id
              /\ ~Holds(posted.desc, Amp) => shown.desc = posted.desc
              /\ ~Holds(posted.desc, Alt) =>
                   2 * Magnitude(atof(shown.alt) - atof(posted.alt)) <= Ten[Scale - 2]
              /\ ~Holds(posted.desc, Mode) => shown.mode = posted.mode
              /\ ~Holds(posted.desc, So2Id) /\ ~ZeroInFront(posted.so2_id)
                   => shown.so2_id = posted.so2_id]_vars
  BY StoringSaves, SavedIsShown
<1> QED BY HInvHolds, <1>1, <1>2, <1>3, PTL DEF Spec, ShownAsPosted
=============================================================================

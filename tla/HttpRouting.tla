------------------------------ MODULE HttpRouting ------------------------------
(***************************************************************************)
(* http_helper.c, and what wifi_task of esp8266_wifi.c does with a request *)
(* once esp_rx_task has put it into tcp_buffer (Esp8266 models that, and   *)
(* the commands and their answers): one request at a time, from the checks *)
(* to the answer.  http_response and esp_module are static and outlive the *)
(* request they were filled for.  (The reed switch also writes             *)
(* esp_server_mode: Leds.)                                                 *)
(*                                                                         *)
(* Of a network's form its name is kept, with its length; the password     *)
(* goes where the name goes.  The form of settings is SettingsForm's:      *)
(* form is what its fields hold when it is posted, Body what is sent.  Of  *)
(* the content type it matters whether the request accepts one that is     *)
(* served.                                                                 *)
(***************************************************************************)
EXTENDS SettingsForm

CONSTANTS
  Networks,   \* names of networks
  Length,     \* and their lengths
  Settings,   \* the settings a device may have been given
  Requests    \* the requests clients send

VARIABLES
  pc,               \* where wifi_task is
  request,          \* the request in tcp_buffer, or NoRequest once erased
  http_response,    \* what it holds of the answer
  connected,        \* what esp_connect_wifi returns
  esp_module,       \* sta_ssid, a pointer, and sta_ssid_size
  device_config,    \* the wifi_ssid and the settings in memory
  stored,           \* and in the flash
  networks_list_buffer,
  joined,           \* the network the module is in
  number_buf,       \* static, filled by each form of settings
  esp_server_mode

config == <<device_config, stored, number_buf>>
vars == <<pc, request, http_response, connected, esp_module, config,
          networks_list_buffer, joined, esp_server_mode>>

Route(method, name, data, handler) ==
  [method |-> method, name |-> name, data |-> data, handler |-> handler]

ALLOWED_ROUTES ==
  { Route("GET", "settings", "HTML_SETTINGS", "void"),
    Route("GET", "network", "none", "void"),
    Route("POST", "network", "none", "connect_wifi"),
    Route("GET", "networks", "none", "get_wifi_list"),
    Route("POST", "wifi-mode", "none", "wifi_mode"),
    Route("POST", "conf-mode", "none", "conf_mode"),
    Route("GET", "device-conf", "none", "get_device_conf"),
    Route("POST", "device-conf", "none", "set_device_conf") }

NoRequest == [method |-> "none"]
Fields == {"id", "desc", "alt", "mode", "so2_id"}
NoForm == [field \in Fields |-> <<>>]
NoRoute == Route("none", "none", "none", "none")

(* What a body can say: nothing, a mode (as "mode=on"), a network, a form   *)
(* of settings (kept in form).                                              *)
Modes == {"on", "off", "empty", "else"}

ASSUME HttpAssumption ==
  /\ Length \in [Networks -> Nat] /\ {"none", "erased"} \intersect Networks = {}
  /\ \A r \in Requests :
       /\ DOMAIN r = {"wellformed", "accepted", "method", "name", "body", "form"}
       /\ r.method # "none"
       /\ <<r.method, r.name>> = <<"POST", "network">> => r.body \in {"none"} \union Networks
       /\ <<r.method, r.name>> = <<"POST", "device-conf">> => r.body \in {"none", "form"}
       /\ DOMAIN r.form = Fields
       /\ r.method = "POST" /\ r.name \in {"wifi-mode", "conf-mode"} => r.body \in {"none"} \union Modes

(* fresh: the message was set for the request in hand. *)
Init ==
  /\ pc = "start" /\ request = NoRequest
  /\ http_response = [status |-> 0, route |-> NoRoute, message |-> "none", fresh |-> FALSE]
  /\ connected = FALSE
  /\ esp_module = [sta_ssid |-> "NULL", size |-> 0]
  /\ stored \in [wifi_ssid : Networks, settings : Settings]
  /\ device_config = stored
  /\ networks_list_buffer = "none"
  /\ joined = "none"
  /\ number_buf = <<>>
  /\ esp_server_mode = "off"

-----------------------------------------------------------------------------
(* esp_start and esp_connect_wifi *)

(* Any command that fails ends esp_start; wifi_task serves all the same. *)
Start ==
  /\ pc = "start" /\ pc' \in {"wait", "join"}
  /\ device_config' = stored
  /\ esp_module' = [sta_ssid |-> "wifi_ssid", size |-> Length[stored.wifi_ssid]]
  /\ networks_list_buffer' \in {"none", "list", "ERROR"}
  /\ pc' = "join" => networks_list_buffer' # "none"
  /\ UNCHANGED <<request, http_response, connected, stored, number_buf, joined, esp_server_mode>>

Handler == IF request = NoRequest THEN "none" ELSE http_response.route.handler

Name == CASE esp_module.sta_ssid = "wifi_ssid" -> device_config.wifi_ssid
          [] esp_module.sta_ssid = "tcp_buffer" /\ Handler = "connect_wifi" -> request.body
          [] OTHER -> "erased"

(* AT+CWJAP_DEF; with the length of another name the name is another name.  *)
(* Whatever comes back, AT+CIFSR is sent next,                              *)
Join ==
  /\ pc = "join" /\ pc' = "address"
  /\ joined' \in {"none"} \union {n \in Networks : n = Name /\ Length[n] = esp_module.size}
  /\ UNCHANGED <<request, http_response, connected, esp_module, config, networks_list_buffer, esp_server_mode>>

(* and what comes back on that is returned. *)
AskAddress ==
  /\ pc = "address"
  /\ IF request = NoRequest THEN pc' = "wait" /\ UNCHANGED connected
     ELSE pc' = "finish" /\ connected' \in BOOLEAN
  /\ UNCHANGED <<request, http_response, esp_module, config, networks_list_buffer, joined, esp_server_mode>>

-----------------------------------------------------------------------------
(* wifi_task, http_build_response and esp_server_handler *)

(* The page, opened and saved as it is; it asks for a description.          *)
Repost == [wellformed |-> TRUE, accepted |-> TRUE, method |-> "POST", name |-> "device-conf",
           body |-> "form", form |-> Shown(stored.settings)]

Receive(r) ==
  /\ pc = "wait" /\ pc' = "check"
  /\ request' = r
  /\ http_response' = [http_response EXCEPT !.fresh = FALSE]
  /\ UNCHANGED <<connected, esp_module, config, networks_list_buffer, joined, esp_server_mode>>

NoMethodCheck == {route \in ALLOWED_ROUTES : route.name = request.name}

Matching == {route \in ALLOWED_ROUTES : route.name = request.name /\ route.method = request.method}

CheckedStatus ==
  CASE ~request.wellformed -> 500
    [] request.wellformed /\ ~request.accepted -> 415
    [] request.wellformed /\ request.accepted /\ request.method \notin {"GET", "POST"} -> 405
    [] OTHER -> IF Matching = {} THEN 404 ELSE 200

(* http_check_content_type, http_check_method, http_check_route: the route  *)
(* is looked for last, and every route is open to everybody.                *)
Check ==
  /\ pc = "check" /\ pc' = "build"
  /\ http_response' =
       [http_response EXCEPT !.status = CheckedStatus,
          !.route = CASE CheckedStatus = 200 -> CHOOSE route \in Matching : TRUE
                      [] CheckedStatus = 404 -> NoRoute
                      [] OTHER -> @]
  /\ UNCHANGED <<request, connected, esp_module, config, networks_list_buffer, joined, esp_server_mode>>

Say(message) == http_response' = [http_response EXCEPT !.message = message, !.fresh = TRUE]

BuildRefusal ==
  /\ pc = "build" /\ pc' = "answer"
  /\ http_response.status # 200
  /\ Say("status")
  /\ UNCHANGED <<request, connected, esp_module, config, networks_list_buffer, joined, esp_server_mode>>

Handling(handler) ==
  /\ pc = "build"
  /\ http_response.status = 200 /\ http_response.route.handler = handler

BuildPage ==
  /\ Handling("void") /\ pc' = "answer"
  /\ IF http_response.route.data = "none" THEN UNCHANGED http_response
     ELSE Say(http_response.route.data)
  /\ UNCHANGED <<request, connected, esp_module, config, networks_list_buffer, joined, esp_server_mode>>

(* An empty list has no length, and no message is sent. *)
GetWifiList ==
  /\ Handling("get_wifi_list") /\ pc' = "answer"
  /\ Say(networks_list_buffer)
  /\ UNCHANGED <<request, connected, esp_module, config, networks_list_buffer, joined, esp_server_mode>>

GetDeviceConf ==
  /\ Handling("get_device_conf") /\ pc' = "answer"
  /\ device_config' = stored
  /\ Say("settings")
  /\ UNCHANGED <<request, connected, esp_module, stored, number_buf, networks_list_buffer, joined, esp_server_mode>>

SetDeviceConf ==
  /\ Handling("set_device_conf") /\ pc' = "answer"
  /\ request.body # "none"
  /\ device_config' = [device_config EXCEPT !.settings = Filled(number_buf, Body(request.form))]
  /\ number_buf' = Overlaid(number_buf, http_get_form_field(Body(request.form), Id))
  /\ stored' = device_config'
  /\ Say("OK")
  /\ UNCHANGED <<request, connected, esp_module, networks_list_buffer, joined, esp_server_mode>>

(* The credentials point into tcp_buffer while the module joins. *)
ConnectWifi ==
  /\ Handling("connect_wifi") /\ pc' = "join"
  /\ request.body # "none"
  /\ esp_module' = [sta_ssid |-> "tcp_buffer", size |-> Length[request.body]]
  /\ UNCHANGED <<request, http_response, connected, config, networks_list_buffer, joined, esp_server_mode>>

(* memcmp(mode, "on", mode_size) *)
On == request.body \in {"on", "empty"}
Off == request.body = "off"

WifiOn ==
  /\ Handling("wifi_mode") /\ pc' = "join"
  /\ On
  /\ UNCHANGED <<request, http_response, connected, esp_module, config, networks_list_buffer, joined, esp_server_mode>>

(* AT+CWQAP *)
WifiOff ==
  /\ Handling("wifi_mode") /\ pc' = "answer"
  /\ Off
  /\ \/ Say("OK") /\ joined' = "none"
     \/ Say("ERROR") /\ joined' \in {joined, "none"}
  /\ UNCHANGED <<request, connected, esp_module, config, networks_list_buffer, esp_server_mode>>

ConfMode ==
  /\ Handling("conf_mode") /\ pc' = "answer"
  /\ On \/ Off
  /\ esp_server_mode' = IF On THEN "on" ELSE "off"
  /\ Say("OK")
  /\ UNCHANGED <<request, connected, esp_module, config, networks_list_buffer, joined>>

RejectBodyBug ==
  /\ pc = "build" /\ pc' = "answer"
  /\ http_response.status = 200
  /\ \/ request.body = "none"
        /\ http_response.route.handler \in {"connect_wifi", "wifi_mode", "conf_mode", "set_device_conf"}
        /\ Say("ERROR")
     \/ request.body = "else" /\ http_response.route.handler \in {"wifi_mode", "conf_mode"}
        /\ UNCHANGED http_response
  /\ UNCHANGED <<request, connected, esp_module, config, networks_list_buffer, joined, esp_server_mode>>

RejectBody ==
  /\ pc = "build" /\ pc' = "answer"
  /\ http_response.status = 200
  /\ \/ request.body = "none"
        /\ http_response.route.handler \in {"connect_wifi", "wifi_mode", "conf_mode", "set_device_conf"}
     \/ request.body = "else" /\ http_response.route.handler \in {"wifi_mode", "conf_mode"}
  /\ Say("ERROR")
  /\ UNCHANGED <<request, connected, esp_module, config, networks_list_buffer, joined, esp_server_mode>>

FinishConnect ==
  /\ pc = "finish" /\ pc' = "answer"
  /\ http_response.route.handler = "connect_wifi" /\ connected
  /\ device_config' = [device_config EXCEPT !.wifi_ssid = Name]
  /\ stored' = device_config'
  /\ esp_module' = [esp_module EXCEPT !.sta_ssid = "wifi_ssid"]
  /\ Say("OK")
  /\ UNCHANGED <<request, connected, number_buf, networks_list_buffer, joined, esp_server_mode>>

FailConnectBug ==
  /\ pc = "finish" /\ pc' = "answer"
  /\ http_response.route.handler = "connect_wifi" /\ ~connected
  /\ Say("ERROR")
  /\ UNCHANGED <<request, connected, esp_module, config, networks_list_buffer, joined, esp_server_mode>>

(* The pointer goes back, the size does not. *)
FailConnect ==
  /\ pc = "finish" /\ pc' = "answer"
  /\ http_response.route.handler = "connect_wifi" /\ ~connected
  /\ esp_module' = [esp_module EXCEPT !.sta_ssid = "wifi_ssid"]
  /\ Say("ERROR")
  /\ UNCHANGED <<request, connected, config, networks_list_buffer, joined, esp_server_mode>>

FinishWifiOn ==
  /\ pc = "finish" /\ pc' = "answer"
  /\ http_response.route.handler = "wifi_mode"
  /\ Say(IF connected THEN "OK" ELSE "ERROR")
  /\ UNCHANGED <<request, connected, esp_module, config, networks_list_buffer, joined, esp_server_mode>>

(* Sent or not, the connection is closed and the buffer erased. *)
AnswerAndErase ==
  /\ pc = "answer" /\ pc' = "wait"
  /\ request' = NoRequest /\ connected' = FALSE
  /\ UNCHANGED <<http_response, esp_module, config, networks_list_buffer, joined, esp_server_mode>>

-----------------------------------------------------------------------------

BuildAnswer ==
  \/ BuildRefusal \/ BuildPage \/ GetWifiList \/ GetDeviceConf \/ SetDeviceConf
  \/ ConnectWifi \/ WifiOn \/ WifiOff \/ ConfMode \/ RejectBody
  \/ FinishConnect \/ FailConnect \/ FinishWifiOn

WifiTask ==
  \/ Start \/ Join \/ AskAddress \/ Check \/ BuildAnswer \/ AnswerAndErase
  \/ \E r \in Requests : Receive(r)
  \/ Repost.form.desc # <<>> /\ Receive(Repost)

Next == WifiTask

Spec == Init /\ [][Next]_vars

-----------------------------------------------------------------------------

(* The request has neither data nor a handler: no page sends it.            *)
NothingToSay ==
  http_response.status = 200 /\ <<request.method, request.name>> = <<"GET", "network">>

(* Nothing clears http_response between two requests, and still the answers *)
(* that carry the message of an earlier request are those to a GET of       *)
(* "network", and no others.                                                *)
AnswersThisRequest == pc = "answer" => (http_response.fresh <=> ~NothingToSay)

(* A GET changes nothing: not what is stored, not the credentials, not the  *)
(* network the module is in, not the mode.                                  *)
GetIsSafe ==
  [][request # NoRequest /\ request.method = "GET"
       => UNCHANGED <<stored, esp_module, joined, esp_server_mode>>]_vars

(* The module is never told to join the network of a request that has been  *)
(* answered and erased.                                                     *)
CredentialsInPlace == pc = "join" => Name # "erased"

Storing ==
  pc = "build" /\ http_response.status = 200
  /\ http_response.route.handler = "set_device_conf" /\ request.body = "form"

(* A text without "&" and without the name of a field.                      *)
Unambiguous(text) == \A symbol \in {Amp, Id, Desc, Alt, Mode, So2Id} : ~Holds(text, symbol)

(* The number that earlier forms left in number_buf is written without a    *)
(* zero in front and goes into the byte of the id.                          *)
IdFits ==
  /\ Len(number_buf) > 1 => number_buf[1] # Zero
  /\ number_buf # <<>> => atoi(number_buf) < 256

(* Saving the page as it was opened changes no setting, though what was     *)
(* typed in once is posted again unencoded; the altitude by no more than    *)
(* half of the last place shown.  Except: a description JSON cannot read,   *)
(* with "&" or with the name of a field in it; a mode that is neither 0 nor *)
(* 1; and an id posted over a longer one, if it is 0 or has a zero in front *)
(* ("0" over "12" is "02", and the page then posts "2" over that), or if    *)
(* the two make more than 255.                                              *)
RepostKeeps ==
  [][Storing /\ request.form = Shown(stored.settings)
     /\ JsonReads(stored.settings.desc) /\ Unambiguous(stored.settings.desc)
     /\ stored.settings.working_status \in {0, 1} /\ IdFits
       => /\ [stored'.settings EXCEPT !.altitude = 0] = [stored.settings EXCEPT !.altitude = 0]
          /\ 2 * Magnitude(stored'.settings.altitude - stored.settings.altitude) <= Ten[Scale - 2]]_vars

ZeroInFront(text) == Len(text) > 1 /\ text[1] = Zero

(* Each field that is saved is shown by the page as it was posted, unless   *)
(* JSON cannot read the description: the description if it has no "&" in    *)
(* it; the altitude, to half of the last place shown, the mode and the      *)
(* serial number if the description does not hold the name of their field,  *)
(* which strstr finds there first; numbers if they have no zero in front;   *)
(* and the id if it is at least as long as those before it.                 *)
ShownAsPosted ==
  [][Storing /\ JsonReads(stored'.settings.desc) =>
       LET posted == request.form
           shown == Shown(stored'.settings)
       IN /\ Len(number_buf) <= Len(posted.id) /\ ~ZeroInFront(posted.id) => shown.id = posted.id
          /\ ~Holds(posted.desc, Amp) => shown.desc = posted.desc
          /\ ~Holds(posted.desc, Alt) =>
               2 * Magnitude(atof(shown.alt) - atof(posted.alt)) <= Ten[Scale - 2]
          /\ ~Holds(posted.desc, Mode) => shown.mode = posted.mode
          /\ ~Holds(posted.desc, So2Id) /\ ~ZeroInFront(posted.so2_id)
               => shown.so2_id = posted.so2_id]_vars

(* "Device configuration saved successfully!", the page tells when the      *)
(* answer is "OK": the id that was posted is stored.                        *)
IdSaved ==
  [][Storing => stored'.settings.id = atoi(request.form.id)]_vars

(* "WiFi state changed!", the page tells who switched the WiFi on when the  *)
(* answer is "OK": the device is in the network it has stored.              *)
SwitchedOn ==
  pc = "answer" /\ http_response.route.handler = "wifi_mode" /\ On /\ http_response.message = "OK"
    => joined = stored.wifi_ssid
=============================================================================

------------------------------- MODULE Esp8266 -------------------------------
(***************************************************************************)
(* esp8266_wifi.c: wifi_task drives the ESP8266 module with AT commands,   *)
(* one at a time, and serves one HTTP request at a time; esp_rx_task reads *)
(* what the module sends.  Both have the same priority and share           *)
(* uart_buffer (the text of the commands, and what DMA receives),          *)
(* tcp_packet and tcp_buffer (the request, then the answer).               *)
(*                                                                         *)
(* A burst is what the module sends between two idle moments of the line.  *)
(* Of its text only the marker esp_rx_task searches for is kept.  Time is  *)
(* abstracted: a wait of 20 s may end at any moment, or, on a quiet line,  *)
(* once nothing can answer it any more.                                    *)
(***************************************************************************)
EXTENDS Naturals, Sequences

CONSTANTS
  Conns,     \* connections of clients to the module's server
  Nobody,    \* stands for "no connection"
  MaxBursts  \* bound on the bursts in uart_buffer, on a quiet line and not

ASSUME EspAssumption ==
  /\ Nobody \notin Conns
  /\ MaxBursts \in [BOOLEAN -> Nat]

VARIABLES
  pc,          \* where wifi_task is
  todo,        \* the commands it has still to send for what it is doing
  status,      \* what esp_send_data returned last
  value,       \* notification value of wifi_task
  woken,       \* a notification has ended its wait
  tcp_packet,  \* status and id
  tcp_buffer,  \* what it holds, and whose that is
  target,      \* connection named in the last AT+CIPSEND
  rx,          \* where esp_rx_task is
  rxNote,      \* notification value of esp_rx_task
  buf,         \* uart_buffer: the bursts strstr can see
  stored,      \* DMA has stored something since it was started
  owing,       \* the command the module is working on, or "none"
  said,        \* history: its verdict on the last one: "OK", "ERROR" or "none"
  quiet        \* the module answers in time but not before uart_buffer has been
               \* cleared, esp_rx_task keeps up, and clients wait for each other

wifi == <<pc, todo, status>>
note == <<value, woken>>
tcp == <<tcp_packet, tcp_buffer, target>>
receiver == <<rx, rxNote, buf, stored>>
esp == <<owing, said>>
vars == <<wifi, note, tcp, receiver, esp, quiet>>

ESP_ERROR == 0
ESP_OK == 1

(* Commands differ in what follows a failure: "at" ends esp_start, "try" is *)
(* tolerated, "size" (AT+CIPSEND) and "data" end the answer, "close" is     *)
(* AT+CIPCLOSE.  "build" is http_build_response writing into tcp_buffer.    *)
Commands == {"at", "try", "size", "data", "close"}

StartCommands ==
  <<"at", "at", "try", "at", "at", "at", "at", "at", "try", "try", "at">>

(* What a request makes wifi_task send: its handler's commands, the head,   *)
(* and the message in pieces that fit.                                      *)
HandlerCommands == {<<>>, <<"try">>, <<"try", "try">>}
Piece == <<"size", "data">>
Messages == {<<>>, Piece, Piece \o Piece}
RequestCommands ==
  {h \o <<"build">> \o Piece \o m \o <<"close">> : h \in HandlerCommands, m \in Messages}

(* The markers in the order esp_rx_task looks for them; "LIST OK" is an OK  *)
(* behind a text longer than other bursts.                                  *)
Accepts == {"OK", "LIST OK", "SEND OK"}
Verdicts == <<{"OK", "LIST OK"}, {"ERROR"}, {"FAIL"}, {"SEND OK"}, {"SEND FAIL"}>>
Marks == UNION {Verdicts[i] : i \in DOMAIN Verdicts} \union {"+IPD", "text"}
Burst == [mark : Marks, of : Conns \union {Nobody}]
Says(mark) == [mark |-> mark, of |-> Nobody]

Replies(command) ==
  CASE command = "at" -> {"OK", "ERROR"}
    [] command = "try" -> {"OK", "LIST OK", "ERROR", "FAIL"}
    [] command = "data" -> {"SEND OK", "SEND FAIL"}
    [] OTHER -> {"OK", "ERROR"}

Erased == [what |-> "nothing", of |-> Nobody]

EspTypeOK ==
  /\ pc \in {"idle", "next", "transmit", "clear", "take", "blocked", "closed", "erase"}
  /\ todo \in Seq(Commands \union {"build"}) /\ Len(todo) <= Len(StartCommands)
  /\ status \in {ESP_ERROR, ESP_OK} /\ value \in {ESP_ERROR, ESP_OK}
  /\ woken \in BOOLEAN /\ (woken => pc = "blocked")
  /\ tcp_packet \in [status : {"CLOSED", "OPENED"}, id : Conns \union {Nobody}]
  /\ tcp_buffer \in [what : {"nothing", "request", "answer"}, of : Conns \union {Nobody}]
  /\ target \in Conns \union {Nobody}
  /\ rx \in {"stop", "arm", "wait", "scan", "copy", "open"}
  /\ rxNote \in BOOLEAN /\ stored \in BOOLEAN
  /\ buf \in Seq(Burst) /\ Len(buf) <= MaxBursts[quiet] + 1 \* and a command's text
  /\ owing \in Commands \union {"none"}
  /\ said \in {"none", "OK", "ERROR"}
  /\ quiet \in BOOLEAN

Init ==
  /\ pc = "next" /\ todo = StartCommands /\ status = ESP_ERROR
  /\ value = ESP_ERROR /\ woken = FALSE
  /\ tcp_packet = [status |-> "CLOSED", id |-> Nobody]
  /\ tcp_buffer = Erased /\ target = Nobody
  /\ rx = "stop" /\ rxNote = FALSE /\ buf = <<>> /\ stored = FALSE
  /\ owing = "none" /\ said = "none"
  /\ quiet \in BOOLEAN

-----------------------------------------------------------------------------
(* The module.  A burst goes where DMA is.  At the front of the buffer it   *)
(* covers what was there, except the end of something longer; further on it *)
(* is hidden when the front has been zeroed.  While DMA is off it is lost.  *)
(* The idle line notifies esp_rx_task in any case.                          *)

IsLong(b) == b.mark = "LIST OK"
EndOfLonger(s) == IF \E i \in DOMAIN s : IsLong(s[i]) THEN <<Says("LIST OK")>> ELSE <<>>

Over(b) ==
  IF rx = "arm" THEN {buf}
  ELSE IF stored THEN IF buf = <<>> THEN {<<>>} ELSE {Append(buf, b)}
  ELSE {<<b>>} \union (IF IsLong(b) THEN {} ELSE {<<b>> \o EndOfLonger(buf)})

Arrive(b) ==
  /\ buf' \in Over(b) /\ Len(buf') <= MaxBursts[quiet]
  /\ stored' = (stored \/ rx # "arm")
  /\ rxNote' = TRUE
  /\ UNCHANGED <<wifi, note, tcp, rx, quiet>>

Listening == rx = "wait" /\ ~rxNote

Answer(mark) ==
  /\ owing # "none" /\ mark \in Replies(owing)
  /\ quiet => Listening /\ pc \in {"take", "blocked"}
  /\ Arrive(Says(mark))
  /\ owing' = "none"
  /\ said' = IF mark \in Accepts THEN "OK" ELSE "ERROR"

NeverAnswers ==
  /\ owing # "none"
  /\ owing' = "none"
  /\ UNCHANGED <<wifi, note, tcp, receiver, said, quiet>>

Request(c) ==
  /\ quiet => Listening /\ pc = "idle" /\ owing = "none" /\ tcp_packet.status = "CLOSED"
  /\ Arrive([mark |-> "+IPD", of |-> c])
  /\ UNCHANGED esp

(* "0,CONNECT", "0,CLOSED", "busy p...", "Recv 120 bytes", "> " *)
OtherText ==
  /\ ~quiet
  /\ Arrive(Says("text"))
  /\ UNCHANGED esp

-----------------------------------------------------------------------------
(* esp_rx_task *)

RxStep(a, b) == rx = a /\ rx' = b

StopDma ==
  /\ RxStep("stop", "arm")
  /\ UNCHANGED <<wifi, note, tcp, rxNote, buf, stored, esp>>

StartDma ==
  /\ RxStep("arm", "wait")
  /\ stored' = FALSE
  /\ UNCHANGED <<wifi, note, tcp, rxNote, buf, esp>>

TakeBurst ==
  /\ RxStep("wait", "scan")
  /\ rxNote /\ rxNote' = FALSE
  /\ UNCHANGED <<wifi, note, tcp, buf, stored, esp>>

Found(marks) == \E i \in DOMAIN buf : buf[i].mark \in marks
FirstVerdict(v) == Found(Verdicts[v]) /\ \A w \in 1..(v - 1) : ~Found(Verdicts[w])
NoVerdict == \A v \in DOMAIN Verdicts : ~Found(Verdicts[v])

(* xTaskNotify with eSetValueWithOverwrite *)
NotifyWifi ==
  /\ RxStep("scan", "stop")
  /\ \E v \in DOMAIN Verdicts :
       FirstVerdict(v) /\ value' = IF Verdicts[v] \subseteq Accepts THEN ESP_OK ELSE ESP_ERROR
  /\ woken' = (pc = "blocked")
  /\ UNCHANGED <<wifi, tcp, rxNote, buf, stored, esp>>

IgnoreBurst ==
  /\ RxStep("scan", "stop")
  /\ NoVerdict
  /\ Found({"+IPD"}) => tcp_packet.status = "OPENED"
  /\ UNCHANGED <<wifi, note, tcp, rxNote, buf, stored, esp>>

(* strstr finds the first one. *)
FirstRequest == CHOOSE c \in Conns :
  \E i \in DOMAIN buf : buf[i] = [mark |-> "+IPD", of |-> c]
                        /\ \A j \in 1..(i - 1) : buf[j].mark # "+IPD"

ParseRequestBug ==
  /\ RxStep("scan", "copy")
  /\ NoVerdict /\ Found({"+IPD"})
  /\ tcp_packet' = [tcp_packet EXCEPT !.id = FirstRequest]
  /\ UNCHANGED <<wifi, note, tcp_buffer, target, rxNote, buf, stored, esp>>

(* Only when no request is being handled: sscanf *)
ParseRequest ==
  /\ RxStep("scan", "copy")
  /\ NoVerdict /\ Found({"+IPD"})
  /\ tcp_packet.status = "CLOSED"
  /\ tcp_packet' = [tcp_packet EXCEPT !.id = FirstRequest]
  /\ UNCHANGED <<wifi, note, tcp_buffer, target, rxNote, buf, stored, esp>>

(* memcpy; wifi_task may zero the buffer between the two. *)
CopyRequest ==
  /\ RxStep("copy", "open")
  /\ tcp_buffer' = [what |-> "request", of |-> tcp_packet.id]
  /\ UNCHANGED <<wifi, note, tcp_packet, target, rxNote, buf, stored, esp>>

OpenPacket ==
  /\ RxStep("open", "stop")
  /\ tcp_packet' = [tcp_packet EXCEPT !.status = "OPENED"]
  /\ UNCHANGED <<wifi, note, tcp_buffer, target, rxNote, buf, stored, esp>>

RxTask ==
  /\ \/ StopDma \/ StartDma \/ TakeBurst \/ NotifyWifi \/ IgnoreBurst
     \/ ParseRequest \/ CopyRequest \/ OpenPacket
  /\ UNCHANGED quiet

-----------------------------------------------------------------------------
(* wifi_task *)

Serve ==
  /\ pc = "idle" /\ tcp_packet.status = "OPENED"
  /\ todo' \in RequestCommands
  /\ pc' = "next"
  /\ UNCHANGED <<status, note, tcp, receiver, esp>>

StartDone ==
  /\ pc = "next" /\ todo = <<>>
  /\ pc' = "idle"
  /\ UNCHANGED <<todo, status, note, tcp, receiver, esp>>

(* http_build_response: the answer replaces the request in tcp_buffer. *)
BuildResponse ==
  /\ pc = "next" /\ todo # <<>> /\ Head(todo) = "build"
  /\ tcp_buffer' = [tcp_buffer EXCEPT !.what = "answer"]
  /\ todo' = Tail(todo)
  /\ UNCHANGED <<pc, status, note, tcp_packet, target, receiver, esp>>

(* The text of a command is written to the front of uart_buffer; data is    *)
(* sent from tcp_buffer.                                                    *)
WriteCommand ==
  /\ pc = "next" /\ todo # <<>> /\ Head(todo) # "build"
  /\ pc' = "transmit"
  /\ IF Head(todo) = "data" THEN UNCHANGED buf
     ELSE buf' \in {<<Says("text")>>, <<Says("text")>> \o EndOfLonger(buf)}
  /\ target' = IF Head(todo) = "size" THEN tcp_packet.id ELSE target
  /\ UNCHANGED <<todo, status, note, tcp_packet, tcp_buffer, rx, rxNote, stored, esp>>

(* esp_send_data: a module that is busy ignores the command. *)
Transmit ==
  /\ pc = "transmit"
  /\ pc' = "clear"
  /\ IF owing = "none" THEN owing' = Head(todo) /\ said' = "none" ELSE UNCHANGED esp
  /\ UNCHANGED <<todo, status, note, tcp, receiver>>

ClearBufferBug ==
  /\ pc = "clear"
  /\ pc' = "take"
  /\ UNCHANGED <<buf, todo, status, note, tcp, rx, rxNote, stored, esp>>

ClearBuffer ==
  /\ pc = "clear"
  /\ pc' = "take"
  /\ buf' = <<>>
  /\ UNCHANGED <<todo, status, note, tcp, rx, rxNote, stored, esp>>

(* What becomes of the commands left when this one has returned. *)
Rest(command, ok) ==
  CASE command = "at" /\ ~ok -> <<>>
    [] command \in {"size", "data"} /\ ~ok -> <<"close">>
    [] OTHER -> Tail(todo)

Return(v) ==
  /\ status' = v
  /\ value' = 0 /\ woken' = FALSE
  /\ todo' = Rest(Head(todo), v = ESP_OK)
  /\ pc' = IF Head(todo) = "close" THEN "closed" ELSE "next"
  /\ UNCHANGED <<tcp, receiver, esp>>

(* ulTaskNotifyTake: ESP_ERROR is 0, which is no notification unless it     *)
(* comes while the task waits.                                              *)
Take == pc = "take" /\ value # 0 /\ Return(value)

Block ==
  /\ pc = "take" /\ value = 0
  /\ pc' = "blocked"
  /\ UNCHANGED <<todo, status, note, tcp, receiver, esp>>

Wake == pc = "blocked" /\ woken /\ Return(value)

Timeout ==
  /\ pc = "blocked" /\ ~woken
  /\ quiet => owing = "none" /\ Listening
  /\ Return(ESP_ERROR)

SetClosed ==
  /\ pc = "closed"
  /\ tcp_packet' = [tcp_packet EXCEPT !.status = "CLOSED"]
  /\ pc' = "erase"
  /\ UNCHANGED <<todo, status, note, tcp_buffer, target, receiver, esp>>

(* memset(tcp_buffer), after the status: of a request stored meanwhile it   *)
(* erases all or a part.                                                    *)
Erase ==
  /\ pc = "erase"
  /\ tcp_buffer' \in {Erased} \union (IF tcp_buffer.what = "request" THEN {tcp_buffer} ELSE {})
  /\ pc' = "idle"
  /\ UNCHANGED <<todo, status, note, tcp_packet, target, receiver, esp>>

WifiTask ==
  /\ \/ Serve \/ StartDone \/ BuildResponse \/ WriteCommand \/ Transmit \/ ClearBuffer
     \/ Take \/ Block \/ Wake \/ Timeout \/ SetClosed \/ Erase
  /\ UNCHANGED quiet

-----------------------------------------------------------------------------

Module ==
  \/ \E mark \in Marks : Answer(mark)
  \/ ~quiet /\ NeverAnswers
  \/ \E c \in Conns : Request(c)
  \/ OtherText

Next == Module \/ RxTask \/ WifiTask

Spec == Init /\ [][Next]_vars

-----------------------------------------------------------------------------

(* What is sent to a client is an answer, built from that client's own      *)
(* request or from one that was erased -- whatever other requests, late     *)
(* answers and leftovers in the buffers come in between.                    *)
RightAnswer ==
  pc \in {"transmit", "clear"} /\ Head(todo) = "data" =>
    /\ tcp_buffer.what = "answer"
    /\ target = tcp_packet.id
    /\ tcp_buffer.of \in {target, Nobody}

(* On a quiet line esp_send_data returns ESP_OK only for a command the      *)
(* module has accepted: no answer to an earlier one, and no rest of one in  *)
(* uart_buffer, is taken for it.                                            *)
OkIsMeant ==
  [][quiet /\ status' = ESP_OK /\ pc \in {"take", "blocked"} /\ pc' \in {"next", "closed"}
       => said = "OK"]_vars

=============================================================================

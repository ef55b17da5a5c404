---------------------------- MODULE Esp8266Proofs ----------------------------
(***************************************************************************)
(* The ESP8266 link, for any set of connections and any number of bursts   *)
(* the module may send: what a client receives is the answer to its own    *)
(* request (RightAnswer), and on a quiet line ESP_OK means that the module *)
(* accepted this command (OkIsMeant).                                      *)
(*                                                                         *)
(* Neither is inductive.  The first needs the order in which commands      *)
(* follow each other (TodoInv), because what is in tcp_buffer and whom     *)
(* AT+CIPSEND named depends on what was done before, and the ownership of  *)
(* tcp_packet, which passes between the tasks with its status (RequestInv).*)
(* The second needs what uart_buffer, the two notifications and the module *)
(* may hold at every point of an exchange (LineNow).                       *)
(***************************************************************************)
EXTENDS Esp8266, TLAPS

Named == Commands \union {"build"}
InCommand == {"transmit", "clear", "take", "blocked"}

(* A message is sent in pairs of AT+CIPSEND and its data, after the answer  *)
(* has been built; esp_start ends with an "at", a request with AT+CIPCLOSE. *)
Follows(c, d) ==
  /\ d = "data" => c = "size"
  /\ d = "size" => c \in {"build", "data"}
  /\ c # "close"
Chain(s) == \A i \in 2..Len(s) : Follows(s[i - 1], s[i])
Shaped(s) == Chain(s) /\ (s # <<>> => s[Len(s)] \in {"at", "close"})

(* The commands that are left are the end of such a list, and while one is  *)
(* being sent it is the first of them.                                      *)
TodoInv ==
  /\ todo \in Seq(Named) /\ Shaped(todo)
  /\ pc \in {"idle", "closed", "erase"} => todo = <<>>
  /\ pc \in InCommand => todo # <<>> /\ todo[1] # "build"

Served == pc = "closed" \/ \E i \in DOMAIN todo : todo[i] \in {"build", "size", "data", "close"}

(* The status says who may write tcp_packet and tcp_buffer: wifi_task while *)
(* it serves a request, esp_rx_task before it has opened the next.          *)
RequestInv ==
  /\ DOMAIN tcp_packet = {"status", "id"} /\ DOMAIN tcp_buffer = {"what", "of"}
  /\ Served => tcp_packet.status = "OPENED"
  /\ rx \in {"copy", "open"} => tcp_packet.status = "CLOSED"
  /\ rx = "open" \/ tcp_packet.status = "OPENED" => tcp_buffer.of \in {tcp_packet.id, Nobody}

(* From AT+CIPSEND on there is an answer to send, to whom it named.         *)
AnswerInv ==
  /\ todo # <<>> /\ todo[1] \in {"size", "data"} => tcp_buffer.what = "answer"
  /\ todo # <<>> /\ todo[1] = "data" => target = tcp_packet.id
  /\ pc \in InCommand /\ todo[1] = "size" => target = tcp_packet.id

NoteTyped ==
  /\ value \in {ESP_ERROR, ESP_OK} /\ woken \in BOOLEAN
  /\ rxNote \in BOOLEAN /\ stored \in BOOLEAN /\ quiet \in BOOLEAN

Unread == rxNote \/ rx = "scan"
NoLong == \A i \in DOMAIN buf : ~IsLong(buf[i])

(* A quiet line.  The module owes an answer only while wifi_task is about   *)
(* to wait for it, in an empty buffer; a burst esp_rx_task has not read is  *)
(* the only one in the buffer, and either a request or the answer to the    *)
(* command; an ESP_OK not yet taken stands for an answer that was one.      *)
LineNow ==
  /\ rxNote => rx = "wait"
  /\ rx = "wait" /\ ~rxNote => ~stored
  /\ owing # "none" => pc \in {"clear", "take", "blocked"} /\ ~Unread /\ owing = todo[1]
  /\ owing # "none" /\ pc # "clear" => buf = <<>>
  /\ Unread =>
       \/ pc = "idle" /\ tcp_packet.status = "CLOSED" /\ Len(buf) = 1 /\ buf[1].mark = "+IPD"
       \/ /\ pc \in {"take", "blocked"} /\ Len(buf) = 1 /\ buf[1].mark \in Replies(todo[1])
          /\ said = "OK" <=> buf[1].mark \in Accepts
  /\ value = ESP_OK => pc \in {"take", "blocked"} /\ owing = "none" /\ said = "OK" /\ ~Unread
  /\ woken => pc = "blocked" /\ owing = "none" /\ ~Unread
  /\ todo = <<>> => NoLong
  /\ pc \in {"take", "blocked"} /\ todo[1] \in {"at", "close"} => NoLong

(* Together they are inductive. *)
EspInv == NoteTyped /\ TodoInv /\ RequestInv /\ AnswerInv /\ (quiet => LineNow)

-----------------------------------------------------------------------------
(* Lists of commands *)

(* What esp_start sends has that form, *)
LEMMA StartShaped == StartCommands \in Seq(Named) /\ Shaped(StartCommands) /\ StartCommands # <<>>
BY DEF StartCommands, Named, Commands, Shaped, Chain, Follows

(* as has one list followed by another that may follow its last command, *)
LEMMA Join ==
  ASSUME NEW s \in Seq(Named), NEW t \in Seq(Named), Chain(s), Chain(t), t # <<>>,
         s # <<>> => Follows(s[Len(s)], t[1])
  PROVE  /\ s \o t \in Seq(Named) /\ s \o t # <<>> /\ Chain(s \o t)
         /\ (s \o t)[Len(s \o t)] = t[Len(t)]
         /\ (s \o t)[1] = IF s = <<>> THEN t[1] ELSE s[1]
<1>1. /\ s \o t \in Seq(Named) /\ Len(s \o t) = Len(s) + Len(t)
      /\ Len(s) \in Nat /\ Len(t) \in Nat \ {0}
      /\ \A i \in 1..Len(s) : (s \o t)[i] = s[i]
      /\ \A i \in 1..Len(t) : (s \o t)[Len(s) + i] = t[i]
  OBVIOUS
<1>2. ASSUME NEW i \in 2..Len(s \o t)
      PROVE  Follows((s \o t)[i - 1], (s \o t)[i])
  <2>1. CASE i <= Len(s)
    <3>1. (s \o t)[i] = s[i] /\ (s \o t)[i - 1] = s[i - 1] /\ i \in 2..Len(s)
      BY <1>1, <2>1
    <3> QED BY <3>1 DEF Chain
  <2>2. CASE i = Len(s) + 1
    <3>1. (s \o t)[i] = t[1] /\ (s \o t)[i - 1] = s[Len(s)] /\ s # <<>>
      BY <1>1, <2>2
    <3> QED BY <3>1
  <2>3. CASE i > Len(s) + 1
    <3> DEFINE j == i - Len(s)
    <3>1. j \in 2..Len(t) /\ j - 1 \in 1..Len(t) /\ j \in 1..Len(t)
      BY <1>1, <2>3
    <3>2. i = Len(s) + j /\ i - 1 = Len(s) + (j - 1)
      BY <1>1
    <3>3. (s \o t)[i] = t[j] /\ (s \o t)[i - 1] = t[j - 1]
      BY <1>1, <3>1, <3>2
    <3> QED BY <3>1, <3>3 DEF Chain
  <2> QED BY <1>1, <2>1, <2>2, <2>3
<1>3. Chain(s \o t)
  BY <1>1, <1>2 DEF Chain
<1> QED BY <1>1, <1>3

(* so what a request makes wifi_task send, *)
LEMMA RequestShaped ==
  ASSUME NEW q \in RequestCommands
  PROVE  q \in Seq(Named) /\ q # <<>> /\ Shaped(q) /\ q[1] \in {"try", "build"}
<1>1. PICK h \in HandlerCommands, m \in Messages : q = h \o <<"build">> \o Piece \o m \o <<"close">>
  BY DEF RequestCommands
<1>0. /\ Follows("size", "data") /\ Follows("data", "size") /\ Follows("build", "size")
      /\ Follows("try", "try") /\ Follows("try", "build") /\ Follows("data", "close")
  BY DEF Follows
<1>2. h \in Seq(Named) /\ Chain(h) /\ (h # <<>> => h[Len(h)] = "try" /\ h[1] = "try")
  <2>1. CASE h = <<>>
    BY <2>1 DEF Chain
  <2>2. CASE h = <<"try">>
    BY <2>2 DEF Chain, Named, Commands
  <2>3. CASE h = <<"try", "try">>
    BY <1>0, <2>3 DEF Chain, Named, Commands
  <2> QED BY <2>1, <2>2, <2>3 DEF HandlerCommands
<1>3. Piece \in Seq(Named) /\ Chain(Piece) /\ Piece # <<>> /\ Piece[1] = "size" /\ Piece[Len(Piece)] = "data"
  BY <1>0 DEF Piece, Chain, Named, Commands
<1>4. m \in Seq(Named) /\ Chain(m) /\ (m # <<>> => m[1] = "size" /\ m[Len(m)] = "data")
  <2>1. CASE m = <<>>
    BY <2>1 DEF Chain
  <2>2. CASE m = Piece
    BY <1>3, <2>2
  <2>3. CASE m = Piece \o Piece
    BY <1>0, <1>3, <2>3, Join
  <2> QED BY <2>1, <2>2, <2>3 DEF Messages
<1> DEFINE a == h \o <<"build">>
           b == a \o Piece
           c == b \o m
<1>5. a \in Seq(Named) /\ Chain(a) /\ a # <<>> /\ a[1] \in {"try", "build"} /\ a[Len(a)] = "build"
  <2>1. <<"build">> \in Seq(Named) /\ Chain(<<"build">>)
    BY DEF Chain, Named, Commands
  <2> QED BY <1>0, <1>2, <2>1, Join
<1>6. b \in Seq(Named) /\ Chain(b) /\ b # <<>> /\ b[1] \in {"try", "build"} /\ b[Len(b)] = "data"
  BY <1>0, <1>3, <1>5, Join
<1>7. c \in Seq(Named) /\ Chain(c) /\ c # <<>> /\ c[1] \in {"try", "build"} /\ c[Len(c)] = "data"
  <2>1. CASE m = <<>>
    <3>1. c = b
      BY <1>6, <2>1
    <3> QED BY <1>6, <3>1
  <2>2. CASE m # <<>>
    BY <1>0, <1>4, <1>6, <2>2, Join
  <2> QED BY <2>1, <2>2
<1>8. <<"close">> \in Seq(Named) /\ Chain(<<"close">>)
  BY DEF Chain, Named, Commands
<1>9. c \o <<"close">> \in Seq(Named) /\ Chain(c \o <<"close">>) /\ c \o <<"close">> # <<>>
      /\ (c \o <<"close">>)[1] \in {"try", "build"}
      /\ (c \o <<"close">>)[Len(c \o <<"close">>)] = "close"
  BY <1>0, <1>7, <1>8, Join
<1> QED BY <1>1, <1>9 DEF Shaped

(* and what is left of a list when its first command is done. *)
LEMMA TailShaped ==
  ASSUME NEW s \in Seq(Named), s # <<>>, Shaped(s)
  PROVE  /\ Tail(s) \in Seq(Named) /\ Shaped(Tail(s))
         /\ Len(Tail(s)) = Len(s) - 1 /\ \A i \in DOMAIN Tail(s) : Tail(s)[i] = s[i + 1]
<1>1. /\ Tail(s) \in Seq(Named) /\ Len(s) \in Nat \ {0}
      /\ Len(Tail(s)) = Len(s) - 1 /\ \A i \in DOMAIN Tail(s) : Tail(s)[i] = s[i + 1]
  OBVIOUS
<1>2. ASSUME NEW i \in 2..Len(Tail(s))
      PROVE  Follows(Tail(s)[i - 1], Tail(s)[i])
  <2>1. Tail(s)[i] = s[i + 1] /\ Tail(s)[i - 1] = s[i] /\ i + 1 \in 2..Len(s) /\ i = (i + 1) - 1
    BY <1>1
  <2> QED BY <2>1 DEF Shaped, Chain
<1>3. Tail(s) # <<>> => Tail(s)[Len(Tail(s))] = s[Len(s)]
  BY <1>1
<1> QED BY <1>1, <1>2, <1>3 DEF Shaped, Chain

-----------------------------------------------------------------------------
(* What the steps of each actor leave alone *)

(* The module touches only the receiver's side. *)
LEMMA ModuleFrame ==
  ASSUME Module
  PROVE  UNCHANGED <<wifi, note, tcp, rx, quiet>>
<1>1. ASSUME NEW b, Arrive(b)
      PROVE  UNCHANGED <<wifi, note, tcp, rx, quiet>>
  BY <1>1 DEF Arrive
<1> QED BY <1>1 DEF Module, Answer, NeverAnswers, Request, OtherText, receiver

(* esp_rx_task reads where wifi_task is, and does not move it. *)
LEMMA RxFrame ==
  ASSUME RxTask
  PROVE  UNCHANGED <<wifi, target, esp, quiet>>
BY DEF RxTask, StopDma, StartDma, TakeBurst, NotifyWifi, IgnoreBurst, ParseRequest, CopyRequest,
       OpenPacket, tcp, note

(* wifi_task does not run esp_rx_task. *)
LEMMA WifiFrame ==
  ASSUME WifiTask
  PROVE  UNCHANGED <<rx, rxNote, stored, quiet>>
BY DEF WifiTask, Serve, StartDone, BuildResponse, WriteCommand, Transmit, ClearBuffer, Take, Block,
       Wake, Timeout, Return, SetClosed, Erase, receiver

(* The three ways out of esp_send_data. *)
LEMMA OneReturn == ASSUME Take \/ Wake \/ Timeout PROVE \E v : Return(v) /\ pc \in {"take", "blocked"}
BY DEF Take, Wake, Timeout

(* The first command and what may follow it. *)
LEMMA HeadFacts ==
  ASSUME TodoInv, todo # <<>>
  PROVE  /\ Head(todo) = todo[1] /\ todo[1] \in Named /\ Len(todo) \in Nat \ {0}
         /\ todo[1] = "close" => Tail(todo) = <<>>
         /\ Tail(todo) # <<>> => Tail(todo)[1] = todo[2] /\ Follows(todo[1], todo[2])
<1>1. Head(todo) = todo[1] /\ todo[1] \in Named /\ Len(todo) \in Nat \ {0}
  BY DEF TodoInv
<1>2. Len(todo) > 1 => Follows(todo[1], todo[2])
  <2>1. ASSUME Len(todo) > 1 PROVE 2 \in 2..Len(todo) /\ 2 - 1 = 1
    BY <1>1, <2>1
  <2> QED BY <2>1 DEF TodoInv, Shaped, Chain
<1>3. Tail(todo) \in Seq(Named) /\ Len(Tail(todo)) = Len(todo) - 1
      /\ \A i \in DOMAIN Tail(todo) : Tail(todo)[i] = todo[i + 1]
  BY TailShaped DEF TodoInv
<1>4. Tail(todo) # <<>> => Len(todo) > 1 /\ 1 \in DOMAIN Tail(todo)
  BY <1>1, <1>3
<1> QED BY <1>1, <1>2, <1>3, <1>4 DEF Follows

(* What is left when esp_send_data has returned. *)
LEMMA ReturnTodo ==
  ASSUME TodoInv, todo # <<>>, NEW v, Return(v)
  PROVE  /\ \/ todo' = Tail(todo)
            \/ todo' = <<>> /\ todo[1] = "at"
            \/ todo' = <<"close">> /\ todo[1] \in {"size", "data"}
         /\ pc' = IF todo[1] = "close" THEN "closed" ELSE "next"
BY HeadFacts DEF Return, Rest

-----------------------------------------------------------------------------
(* Each part is kept by every step *)

(* The list keeps its form, also when a failure cuts it short. *)
LEMMA TodoStep ==
  ASSUME TodoInv, Next
  PROVE  TodoInv'
<1>1. CASE Module \/ RxTask
  BY <1>1, ModuleFrame, RxFrame DEF TodoInv, wifi, Shaped, Chain
<1>2. CASE Serve
  BY <1>2, RequestShaped DEF Serve, TodoInv, InCommand
<1>3. CASE StartDone \/ Transmit \/ ClearBuffer \/ Block
  BY <1>3 DEF StartDone, Transmit, ClearBuffer, Block, TodoInv, InCommand
<1>4. CASE SetClosed \/ Erase
  BY <1>4 DEF SetClosed, Erase, TodoInv, InCommand
<1>5. CASE BuildResponse
  BY <1>5, TailShaped DEF BuildResponse, TodoInv, InCommand
<1>6. CASE WriteCommand
  BY <1>6, HeadFacts DEF WriteCommand, TodoInv, InCommand
<1>7. CASE Take \/ Wake \/ Timeout
  <2>1. PICK v : Return(v) /\ pc \in {"take", "blocked"}
    BY <1>7, OneReturn
  <2>2. todo # <<>>
    BY <2>1 DEF TodoInv, InCommand
  <2>3. todo' \in Seq(Named) /\ Shaped(todo')
    <3>1. <<"close">> \in Seq(Named) /\ Shaped(<<"close">>) /\ <<>> \in Seq(Named) /\ Shaped(<<>>)
      BY DEF Shaped, Chain, Named, Commands
    <3> QED BY <2>1, <2>2, <3>1, ReturnTodo, TailShaped DEF TodoInv
  <2>4. pc' = "closed" => todo' = <<>>
    BY <2>1, <2>2, ReturnTodo, HeadFacts
  <2>5. pc' \in {"next", "closed"}
    BY <2>1, <2>2, ReturnTodo
  <2> QED BY <2>3, <2>4, <2>5 DEF TodoInv, InCommand
<1> QED BY <1>1, <1>2, <1>3, <1>4, <1>5, <1>6, <1>7 DEF Next, WifiTask

(* Neither task touches the request while it is the other's. *)
LEMMA RequestStep ==
  ASSUME TodoInv, RequestInv, Next
  PROVE  RequestInv'
<1> USE DEF RequestInv
<1>1. CASE Module
  BY <1>1, ModuleFrame DEF Served, wifi, tcp
<1>2. CASE StopDma \/ StartDma \/ TakeBurst \/ NotifyWifi \/ IgnoreBurst
  BY <1>2 DEF StopDma, StartDma, TakeBurst, NotifyWifi, IgnoreBurst, RxStep, Served, wifi, tcp
<1>3. CASE ParseRequest
  BY <1>3 DEF ParseRequest, RxStep, Served, wifi
<1>4. CASE CopyRequest
  BY <1>4 DEF CopyRequest, RxStep, Served, wifi
<1>5. CASE OpenPacket
  BY <1>5 DEF OpenPacket, RxStep, Served, wifi
<1>6. CASE Serve
  BY <1>6 DEF Serve, Served, receiver, tcp
<1>7. CASE StartDone \/ Transmit \/ ClearBuffer \/ Block
  BY <1>7 DEF StartDone, Transmit, ClearBuffer, Block, Served, receiver, tcp
<1>8. CASE WriteCommand
  BY <1>8 DEF WriteCommand, Served
<1>9. CASE BuildResponse
  <2>1. Served
    BY <1>9, HeadFacts DEF BuildResponse, Served, TodoInv
  <2> QED BY <1>9, <2>1 DEF BuildResponse, receiver
<1>10. CASE Take \/ Wake \/ Timeout
  <2>1. PICK v : Return(v) /\ pc \in {"take", "blocked"}
    BY <1>10, OneReturn
  <2>2. todo # <<>>
    BY <2>1 DEF TodoInv, InCommand
  <2>3. Served' => Served
    BY <2>1, <2>2, ReturnTodo, HeadFacts, TailShaped DEF Served, TodoInv
  <2> QED BY <2>1, <2>3 DEF Return, tcp, receiver
<1>11. CASE SetClosed
  BY <1>11 DEF SetClosed, Served, TodoInv, receiver
<1>12. CASE Erase
  BY <1>12 DEF Erase, Served, Erased, receiver
<1> QED BY <1>1, <1>2, <1>3, <1>4, <1>5, <1>6, <1>7, <1>8, <1>9, <1>10, <1>11, <1>12 DEF Next, RxTask, WifiTask

(* The answer stays in tcp_buffer, and its connection the one named, until
   it is sent: esp_rx_task stores no request while the status is "OPENED". *)
LEMMA AnswerInvStep ==
  ASSUME TodoInv, RequestInv, AnswerInv, Next
  PROVE  AnswerInv'
<1> USE DEF AnswerInv, InCommand
<1>1. CASE Module
  BY <1>1, ModuleFrame DEF wifi, tcp
<1>2. CASE StopDma \/ StartDma \/ TakeBurst \/ NotifyWifi \/ IgnoreBurst
  BY <1>2 DEF StopDma, StartDma, TakeBurst, NotifyWifi, IgnoreBurst, wifi, tcp
<1>3. CASE ParseRequest \/ CopyRequest \/ OpenPacket
  <2>1. todo # <<>> => todo[1] \notin {"size", "data"}
    <3>1. tcp_packet.status = "CLOSED"
      BY <1>3 DEF ParseRequest, CopyRequest, OpenPacket, RxStep, RequestInv
    <3> QED BY <3>1 DEF RequestInv, Served, TodoInv
  <2>2. UNCHANGED <<pc, todo>>
    BY <1>3 DEF ParseRequest, CopyRequest, OpenPacket, wifi
  <2>3. pc \in InCommand => todo # <<>>
    BY DEF TodoInv
  <2> QED BY <2>1, <2>2, <2>3
<1>4. CASE Serve
  BY <1>4, RequestShaped DEF Serve
<1>5. CASE StartDone \/ Transmit \/ ClearBuffer \/ Block
  BY <1>5 DEF StartDone, Transmit, ClearBuffer, Block, tcp
<1>6. CASE WriteCommand
  BY <1>6, HeadFacts DEF WriteCommand
<1>7. CASE BuildResponse
  <2>1. todo[1] = "build" /\ todo # <<>> /\ todo' = Tail(todo) /\ pc' = "next"
    BY <1>7, HeadFacts DEF BuildResponse
  <2>2. todo' # <<>> => todo'[1] # "data"
    BY <2>1, HeadFacts DEF Follows
  <2>3. tcp_buffer'.what = "answer"
    BY <1>7 DEF BuildResponse, RequestInv
  <2> QED BY <2>1, <2>2, <2>3
<1>8. CASE Take \/ Wake \/ Timeout
  <2>1. PICK v : Return(v) /\ pc \in {"take", "blocked"}
    BY <1>8, OneReturn
  <2>2. todo # <<>> /\ todo[1] # "build" /\ UNCHANGED tcp
    BY <2>1 DEF TodoInv, InCommand, Return
  <2>3. pc' \in {"next", "closed"}
    BY <2>1, <2>2, ReturnTodo
  <2>4. todo' # <<>> => todo'[1] = "close" \/ (todo'[1] = todo[2] /\ Follows(todo[1], todo[2]))
    BY <2>1, <2>2, ReturnTodo, HeadFacts
  <2>5. todo' # <<>> /\ todo'[1] = "data" => todo[1] = "size"
    BY <2>4 DEF Follows
  <2>6. todo' # <<>> /\ todo'[1] = "size" => todo[1] = "data"
    BY <2>2, <2>4 DEF Follows
  <2> QED BY <2>1, <2>2, <2>3, <2>5, <2>6 DEF tcp
<1>9. CASE SetClosed \/ Erase
  BY <1>9 DEF SetClosed, Erase, TodoInv
<1> QED BY <1>1, <1>2, <1>3, <1>4, <1>5, <1>6, <1>7, <1>8, <1>9 DEF Next, RxTask, WifiTask

(* The notifications keep their types. *)
LEMMA NoteTypedStep ==
  ASSUME NoteTyped, Next
  PROVE  NoteTyped'
<1> USE DEF NoteTyped
<1>1. CASE Module
  <2>1. ASSUME NEW b, Arrive(b)
        PROVE  rxNote' \in BOOLEAN /\ stored' \in BOOLEAN
    BY <2>1 DEF Arrive
  <2>2. rxNote' \in BOOLEAN /\ stored' \in BOOLEAN
    BY <1>1, <2>1 DEF Module, Answer, NeverAnswers, Request, OtherText, receiver
  <2> QED BY <1>1, <2>2, ModuleFrame DEF note
<1>2. CASE NotifyWifi /\ UNCHANGED quiet
  BY <1>2 DEF NotifyWifi, ESP_OK, ESP_ERROR
<1>3. CASE RxTask /\ ~NotifyWifi
  BY <1>3 DEF RxTask, StopDma, StartDma, TakeBurst, IgnoreBurst, ParseRequest, CopyRequest, OpenPacket, note
<1>4. CASE WifiTask
  <2>1. note' = note \/ (value' = 0 /\ woken' = FALSE)
    BY <1>4 DEF WifiTask, Serve, StartDone, BuildResponse, WriteCommand, Transmit, ClearBuffer, Take, Block,
       Wake, Timeout, Return, SetClosed, Erase
  <2> QED BY <1>4, <2>1, WifiFrame DEF note, ESP_ERROR
<1> QED BY <1>1, <1>2, <1>3, <1>4 DEF Next, RxTask

(* A burst that finds esp_rx_task waiting replaces what is in uart_buffer. *)
LEMMA Arrives ==
  ASSUME quiet, NoteTyped, LineNow, Listening, NoLong, NEW b, Arrive(b)
  PROVE  buf' = <<b>> /\ rxNote' = TRUE
<1>1. EndOfLonger(buf) = <<>>
  BY DEF EndOfLonger, NoLong
<1>2. rx # "arm" /\ ~stored
  BY DEF Listening, LineNow
<1>3. Over(b) \subseteq {<<b>>, <<b>> \o <<>>}
  BY <1>1, <1>2 DEF Over
<1>4. <<b>> \o <<>> = <<b>>
  OBVIOUS
<1> QED BY <1>3, <1>4 DEF Arrive

(* Only a tolerated command may be answered by a list of networks. *)
LEMMA NotLong == ASSUME NEW c \in {"at", "close"} PROVE "LIST OK" \notin Replies(c)
BY DEF Replies

(* The exchange of a command and its answer, on a quiet line. *)
LEMMA LineStep ==
  ASSUME quiet, NoteTyped, TodoInv, LineNow, Next
  PROVE  LineNow'
<1> USE DEF Unread
<1>1. ASSUME NEW mark, Answer(mark)
      PROVE  LineNow'
  <2>1. /\ Listening /\ pc \in {"take", "blocked"} /\ owing # "none" /\ owing = todo[1] /\ mark \in Replies(owing)
        /\ buf = <<>>
    BY <1>1 DEF Answer, LineNow
  <2>2. buf' = <<Says(mark)>> /\ rxNote'
    <3>1. NoLong
      BY <2>1 DEF NoLong
    <3> QED BY <1>1, <2>1, <3>1, Arrives DEF Answer
  <2>3. UNCHANGED <<wifi, note, tcp, rx>> /\ owing' = "none" /\ (said' = "OK" <=> mark \in Accepts)
    BY <1>1 DEF Answer, Arrive
  <2>4. Len(buf') = 1 /\ buf'[1].mark = mark
    BY <2>2 DEF Says
  <2>5. todo # <<>>
    BY <2>1 DEF TodoInv, InCommand
  <2>6. todo[1] \in {"at", "close"} => NoLong'
    <3>1. \A i \in DOMAIN buf' : buf'[i].mark = mark
      BY <2>2 DEF Says
    <3>2. todo[1] \in {"at", "close"} => mark # "LIST OK"
      BY <2>1, NotLong
    <3> QED BY <3>1, <3>2 DEF NoLong, IsLong
  <2> QED BY <2>1, <2>2, <2>3, <2>4, <2>5, <2>6 DEF LineNow, Listening, wifi, note
<1>2. ASSUME NEW c, Request(c)
      PROVE  LineNow'
  <2>1. Listening /\ pc = "idle" /\ owing = "none" /\ todo = <<>> /\ NoLong
    BY <1>2 DEF Request, LineNow, TodoInv
  <2>2. buf' = <<[mark |-> "+IPD", of |-> c]>> /\ rxNote'
    BY <1>2, <2>1, Arrives DEF Request
  <2>3. UNCHANGED <<wifi, note, tcp, rx, esp>> /\ tcp_packet.status = "CLOSED"
    BY <1>2 DEF Request, Arrive
  <2>4. Len(buf') = 1 /\ buf'[1].mark = "+IPD"
    BY <2>2
  <2>5. NoLong'
    <3>1. \A i \in DOMAIN buf' : buf'[i].mark = "+IPD"
      BY <2>2
    <3> QED BY <3>1 DEF NoLong, IsLong
  <2> QED BY <2>1, <2>2, <2>3, <2>4, <2>5 DEF LineNow, Listening, wifi, note, tcp, esp
<1>3. CASE Module
  BY <1>1, <1>2, <1>3 DEF Module, OtherText
<1>4. CASE StopDma \/ StartDma \/ TakeBurst
  BY <1>4 DEF StopDma, StartDma, TakeBurst, RxStep, LineNow, NoLong, wifi, note, tcp, esp
<1>5. CASE NotifyWifi
  <2>1. rx = "scan" /\ Unread /\ rx' = "stop" /\ ~rxNote
    BY <1>5 DEF NotifyWifi, RxStep, LineNow
  <2>2. owing = "none" /\ Len(buf) = 1
    BY <2>1 DEF LineNow
  <2>3. PICK w \in DOMAIN Verdicts : FirstVerdict(w) /\ value' = IF Verdicts[w] \subseteq Accepts THEN ESP_OK ELSE ESP_ERROR
    BY <1>5 DEF NotifyWifi
  <2>4. buf[1].mark \in Verdicts[w]
    BY <2>2, <2>3 DEF FirstVerdict, Found
  <2>5. buf[1].mark # "+IPD"
    <3>1. DOMAIN Verdicts = 1..5 /\ \A i \in 1..5 : "+IPD" \notin Verdicts[i]
      BY DEF Verdicts
    <3> QED BY <2>4, <3>1
  <2>6. value' = ESP_OK => buf[1].mark \in Accepts
    BY <2>3, <2>4 DEF ESP_OK, ESP_ERROR
  <2>7. pc \in {"take", "blocked"} /\ (value' = ESP_OK => said = "OK")
    BY <2>1, <2>5, <2>6 DEF LineNow
  <2>8. UNCHANGED <<wifi, esp, rxNote, buf>> /\ woken' = (pc = "blocked")
    BY <1>5 DEF NotifyWifi
  <2> QED BY <2>1, <2>2, <2>7, <2>8 DEF LineNow, NoLong, wifi, esp
<1>6. CASE IgnoreBurst \/ ParseRequest \/ CopyRequest \/ OpenPacket
  BY <1>6 DEF IgnoreBurst, ParseRequest, CopyRequest, OpenPacket, RxStep, LineNow, NoLong, wifi, note, tcp, esp
<1>7. CASE Serve
  <2>1. todo' # <<>>
    BY <1>7, RequestShaped DEF Serve
  <2>2. tcp_packet.status # "CLOSED"
    BY <1>7 DEF Serve
  <2> QED BY <1>7, <2>1, <2>2 DEF Serve, LineNow, NoLong, receiver, note, esp
<1>8. CASE StartDone
  BY <1>8 DEF StartDone, LineNow, NoLong, receiver, note, esp
<1>9. CASE BuildResponse
  <2>1. todo' # <<>>
    <3>1. todo # <<>> /\ todo[1] = "build" /\ todo' = Tail(todo)
      BY <1>9, HeadFacts DEF BuildResponse
    <3>2. todo[Len(todo)] \in {"at", "close"}
      BY <3>1 DEF TodoInv, Shaped
    <3>3. Len(todo) # 1 /\ Len(Tail(todo)) = Len(todo) - 1
      BY <3>1, <3>2, TailShaped DEF TodoInv
    <3> QED BY <3>1, <3>3, HeadFacts
  <2> QED BY <1>9, <2>1 DEF BuildResponse, LineNow, NoLong, receiver, note, esp
<1>10. CASE WriteCommand
  BY <1>10 DEF WriteCommand, LineNow, NoLong, note, esp
<1>11. CASE Transmit
  BY <1>11, HeadFacts DEF Transmit, LineNow, NoLong, receiver, note, ESP_OK
<1>12. CASE ClearBuffer
  BY <1>12 DEF ClearBuffer, LineNow, NoLong, note, esp
<1>13. CASE Block
  BY <1>13 DEF Block, LineNow, NoLong, receiver, note, esp
<1>14. CASE Take \/ Wake \/ Timeout
  <2>1. PICK v : Return(v) /\ pc \in {"take", "blocked"}
    BY <1>14, OneReturn
  <2>2. todo # <<>> /\ todo[1] # "build"
    BY <2>1 DEF TodoInv, InCommand
  <2>3. UNCHANGED <<receiver, tcp, esp>> /\ value' = 0 /\ woken' = FALSE /\ pc' \in {"next", "closed"}
    BY <2>1, <2>2, ReturnTodo DEF Return
  <2>4. owing = "none" /\ ~Unread
    BY <1>14 DEF Take, Wake, Timeout, Listening, LineNow, NoteTyped, ESP_OK, ESP_ERROR
  <2>5. todo' = <<>> => NoLong
    <3>1. Tail(todo) = <<>> => todo[1] \in {"at", "close"}
      <4>1. Len(Tail(todo)) = Len(todo) - 1 /\ todo[Len(todo)] \in {"at", "close"} /\ Len(todo) \in Nat
        BY <2>2, TailShaped, HeadFacts DEF TodoInv, Shaped
      <4>2. ASSUME NEW t, t = <<>> PROVE Len(t) = 0
        BY <4>2
      <4>3. Tail(todo) = <<>> => Len(Tail(todo)) = 0
        BY <4>2
      <4>4. Tail(todo) = <<>> => Len(todo) = 1
        BY <4>1, <4>3
      <4> QED BY <4>1, <4>4
    <3>2. todo' = <<>> => todo[1] \in {"at", "close"}
      BY <2>1, <2>2, <3>1, ReturnTodo
    <3> QED BY <2>1, <3>2 DEF LineNow
  <2> QED BY <2>1, <2>3, <2>4, <2>5 DEF LineNow, NoLong, receiver, tcp, esp, ESP_OK
<1>15. CASE SetClosed \/ Erase
  BY <1>15 DEF SetClosed, Erase, LineNow, NoLong, TodoInv, receiver, note, esp
<1> QED BY <1>3, <1>4, <1>5, <1>6, <1>7, <1>8, <1>9, <1>10, <1>11, <1>12, <1>13, <1>14, <1>15
        DEF Next, RxTask, WifiTask

-----------------------------------------------------------------------------

(* The invariant holds at the start, *)
LEMMA Starts == Init => EspInv
<1> SUFFICES ASSUME Init PROVE EspInv
  OBVIOUS
<1>1. todo # <<>> /\ TodoInv /\ \A i \in DOMAIN todo : todo[i] \in {"at", "try"}
  BY StartShaped DEF Init, TodoInv, InCommand, StartCommands
<1>2. NoteTyped /\ RequestInv
  BY <1>1 DEF Init, NoteTyped, RequestInv, Served, Erased, ESP_ERROR, ESP_OK
<1>3. AnswerInv
  BY <1>1 DEF Init, AnswerInv, InCommand
<1>4. LineNow
  BY <1>1 DEF Init, LineNow, Unread, NoLong, ESP_ERROR, ESP_OK
<1> QED BY <1>1, <1>2, <1>3, <1>4 DEF EspInv

(* every step keeps it, *)
LEMMA Steps == EspInv /\ [Next]_vars => EspInv'
<1> SUFFICES ASSUME EspInv, [Next]_vars PROVE EspInv'
  OBVIOUS
<1>1. CASE Next
  <2>1. quiet' = quiet
    BY <1>1, ModuleFrame, RxFrame, WifiFrame DEF Next
  <2> QED BY <1>1, <2>1, NoteTypedStep, TodoStep, RequestStep, AnswerInvStep, LineStep DEF EspInv
<1>2. CASE UNCHANGED vars
  BY <1>2 DEF vars, wifi, note, tcp, receiver, esp, EspInv, NoteTyped, TodoInv, Shaped, Chain, InCommand, RequestInv, Served,
    AnswerInv, LineNow, Unread, NoLong
<1> QED BY <1>1, <1>2

(* so it always holds. *)
LEMMA Invariant == Spec => []EspInv
BY Starts, Steps, PTL DEF Spec

(* What wifi_task sends to a client is an answer, to the connection that
   AT+CIPSEND has named, built from a request of that client or from one that
   was erased: no request that comes in between, no late verdict and no rest in
   a buffer makes esp_rx_task overwrite the one being served. *)
THEOREM RightAnswers == Spec => []RightAnswer
<1>1. EspInv => RightAnswer
  BY HeadFacts DEF EspInv, TodoInv, RequestInv, AnswerInv, RightAnswer, InCommand, Served
<1> QED BY <1>1, Invariant, PTL
(* What OkIsMeant asks of a step. *)
OkStep == quiet /\ status' = ESP_OK /\ pc \in {"take", "blocked"} /\ pc' \in {"next", "closed"}
       => said = "OK"

(* When esp_send_data returns ESP_OK on a quiet line, the module has accepted
   the command it was called with: neither the answer to an earlier command
   nor the rest of one in uart_buffer is taken for it. *)
THEOREM OkMeant == Spec => OkIsMeant
<1>1. ASSUME EspInv, Next PROVE OkStep
  <2> SUFFICES ASSUME quiet, status' = ESP_OK, pc \in {"take", "blocked"}, pc' \in {"next", "closed"}
               PROVE  said = "OK"
    BY DEF OkStep
  <2>1. CASE Module \/ RxTask
    BY <2>1, ModuleFrame, RxFrame DEF wifi
  <2>2. CASE WifiTask
    <3>1. Take \/ Wake \/ Timeout
      BY <2>2 DEF WifiTask, Serve, StartDone, BuildResponse, WriteCommand, Transmit, ClearBuffer, Block, SetClosed, Erase
    <3>2. status' = value \/ status' = ESP_ERROR
      BY <3>1 DEF Take, Wake, Timeout, Return
    <3> QED BY <1>1, <3>2 DEF EspInv, LineNow, ESP_OK, ESP_ERROR
  <2> QED BY <1>1, <2>1, <2>2 DEF Next
<1>2. EspInv /\ [Next]_vars => [OkStep]_vars
  BY <1>1
<1> QED BY <1>2, Invariant, PTL DEF Spec, OkIsMeant, OkStep

==============================================================================

-------------------------------- MODULE Display --------------------------------
(***************************************************************************)
(* display_data_task of display_data.c, and who else writes to the display:*)
(* init_task at the start (main.c), i2c_ccs811sensor when its sensor does  *)
(* not answer as it should (i2c_ccs811sensor.c), and dhcp_fsm when the     *)
(* state of DHCP changes (ethernetif.c).  dhcp_fsm's priority is that of   *)
(* i2c_ccs811sensor and of display_data_task, so they are sliced, between  *)
(* any two steps on the pins: there is no mutex.                           *)
(*                                                                         *)
(* A reset restarts the processor, not the display, which keeps what it    *)
(* shows and half a byte it may have got: from there Init begins.          *)
(*                                                                         *)
(* A name, like the text of a number, is one character here: names stand   *)
(* for what is before the value, a digit for the value, and an error, as   *)
(* it does on the display, takes more room than the two.                   *)
(***************************************************************************)
EXTENDS Lcd, NumberHelper

CONSTANTS
  Names        \* the fields display_data_task shows, in order

(* Two fields to a page. *)
ASSUME DisplayAssumption == Names \in Seq(Nat) /\ Names # <<>> /\ Len(Names) % 2 = 0

VARIABLES
  lcd, rs,          \* the display, and the RS pin
  todo,             \* each writer: the steps it is in the middle of
  display_pc, page, \* where display_data_task is; what it shows, and which line
  line,             \* line_cntrl
  current_packet,
  displayQueue,
  ccs_checks,       \* how many of i2c_ccs811sensor's three checks are over
  cut,              \* history: a task has written inside another's byte
  overwritten       \* history: another task has written since display_data_task cleared

displayVars == <<lcd, rs, todo, display_pc, page, line, current_packet, displayQueue,
                 ccs_checks, cut, overwritten>>

Title == 78
NoDigits == [number |-> 0, fields |-> [i \in DOMAIN Names |-> 0]]

(* The two lines of a page: a title and the number of the packet, or two of *)
(* the fields, each a name with its value.                                  *)
Digit(value) == Head(ftoa(value * Ten[Scale], 0))
FieldText(i) == [name |-> <<Names[i]>>, value |-> <<Digit(current_packet.fields[i])>>]
PacketText(i) ==
  IF i = 1 THEN [name |-> <<Title>>, value |-> <<>>]
  ELSE [name |-> <<Digit(current_packet.number)>>, value |-> <<>>]
Text(i) == IF page.of = "packet" THEN PacketText(i) ELSE FieldText(i)
Lines == IF page.of = "packet" THEN 2 ELSE Len(Names)

Boot == lcd_init \o lcd_clear \o lcd_print_string(<<73>>)

DhcpTexts == {68}   \* "DHCP:"; "Static:" is written the same way
CcsText == <<69, 69, 69>>   \* "Er:hwID@CCS811" and the two others

TasksStart ==
  /\ todo = [main |-> Boot, display |-> <<>>, dhcp |-> <<>>, ccs |-> <<>>]
  /\ display_pc = "poll" /\ page = [of |-> "fields", i |-> 1]
  /\ line = [x |-> 0, y |-> 0, current_line |-> 0]
  /\ current_packet = NoDigits /\ displayQueue = <<>>
  /\ ccs_checks = 0 /\ cut = FALSE /\ overwritten = FALSE

(* The display has just been switched on, or a reset has left it anyhow.    *)
Left ==
  LET cells == {Blanks, [a \in Addresses |-> Title]}
  IN [bits : {8}, half : {<<>>}, at : {0}, cell : cells]
       \union [bits : {4}, half : {<<>>} \union {<<n>> : n \in Nibbles}, at : {0}, cell : cells]

DisplayInit ==
  /\ TasksStart
  /\ lcd \in Left
  /\ rs = 0

-----------------------------------------------------------------------------

Writers == {"main", "display", "dhcp", "ccs"}
Booting == todo["main"] # <<>>
InByte(w) == todo[w] # <<>> /\ Head(todo[w]).op = "strobe"

Unknown == [bits |-> 4, half |-> <<>>, at |-> Beyond, cell |-> Blanks]

(* The next step of a writer on the pins.  A writer inside a byte is cut,   *)
(* and what the display makes of the bytes that follow is not looked into:  *)
(* they may be commands, for eight bits, say.                               *)
Pins(w) ==
  /\ todo[w] # <<>>
  /\ w # "main" => ~Booting
  /\ cut' = (cut \/ \E v \in Writers \ {w} : InByte(v))
  /\ LET step == Head(todo[w]) IN
       CASE cut' -> lcd' = Unknown /\ rs' = 0
         [] ~cut' /\ step.op = "rs" -> rs' = step.value /\ UNCHANGED lcd
         [] ~cut' /\ step.op = "strobe" -> lcd' = Strobe(lcd, rs, step.value) /\ UNCHANGED rs
  /\ todo' = [todo EXCEPT ![w] = Tail(@)]
  /\ UNCHANGED <<display_pc, page, line, current_packet, displayQueue, overwritten>>
  /\ UNCHANGED ccs_checks

(* init_task creates display_data_task last and is of lower priority than   *)
(* i2c_ccs811sensor, which does not block before its checks are over:       *)
(* HAL_Delay counts ticks.                                                  *)
DisplayRuns ==
  ~Booting /\ todo["display"] = <<>> /\ ccs_checks = 3 /\ todo["ccs"] = <<>>

Says(steps) == todo' = [todo EXCEPT !["display"] = steps]

Still == UNCHANGED <<lcd, rs, cut, ccs_checks>>

PeekPacketBug ==
  /\ DisplayRuns /\ display_pc = "poll" /\ displayQueue # <<>>
  /\ current_packet' = Head(displayQueue)
  /\ page' = [of |-> "packet", i |-> 1]
  /\ display_pc' = "name"
  /\ Still /\ UNCHANGED <<todo, line, displayQueue, overwritten>>

ReceivePacket ==
  /\ DisplayRuns /\ display_pc = "poll" /\ displayQueue # <<>>
  /\ current_packet' = Head(displayQueue) /\ displayQueue' = Tail(displayQueue)
  /\ page' = [of |-> "packet", i |-> 1]
  /\ display_pc' = "name"
  /\ Still /\ UNCHANGED <<todo, line, overwritten>>

(* No new packet: the old one once more. *)
ShowFields ==
  /\ DisplayRuns /\ display_pc = "poll" /\ displayQueue = <<>>
  /\ page' = [of |-> "fields", i |-> 1]
  /\ display_pc' = "name"
  /\ Still /\ UNCHANGED <<todo, line, current_packet, displayQueue, overwritten>>

PrintName ==
  /\ DisplayRuns /\ display_pc = "name" /\ display_pc' = "value"
  /\ Says(lcd_print_string_at(Text(page.i).name, line.x, line.y))
  /\ Still /\ UNCHANGED <<page, line, current_packet, displayQueue, overwritten>>

(* The value comes after the name. *)
PrintValue ==
  /\ DisplayRuns /\ display_pc = "value" /\ display_pc' = "change"
  /\ LET text == Text(page.i) IN
       IF text.value = <<>> THEN UNCHANGED <<todo, line>>
       ELSE /\ line' = [line EXCEPT !.x = Len(text.name)]
            /\ Says(lcd_print_string_at(text.value, Len(text.name), line.y))
  /\ Still /\ UNCHANGED <<page, current_packet, displayQueue, overwritten>>

(* change_line: after the second line the page stays for DISPLAY_TIME_PERIOD*)
(* and is cleared.                                                          *)
NextPage == IF page.i = Lines THEN display_pc' = "poll" ELSE display_pc' = "name"
NextLine == IF page.i = Lines THEN UNCHANGED page ELSE page' = [page EXCEPT !.i = @ + 1]

SecondLineBug ==
  /\ DisplayRuns /\ display_pc = "change" /\ (line.current_line + 1) % 2 # 0
  /\ line' = [line EXCEPT !.y = 1, !.current_line = @ + 1]
  /\ NextPage /\ NextLine
  /\ Still /\ UNCHANGED <<todo, current_packet, displayQueue, overwritten>>

SecondLine ==
  /\ DisplayRuns /\ display_pc = "change" /\ (line.current_line + 1) % 2 # 0
  /\ line' = [x |-> 0, y |-> 1, current_line |-> line.current_line + 1]
  /\ NextPage /\ NextLine
  /\ Still /\ UNCHANGED <<todo, current_packet, displayQueue, overwritten>>

ClearPage ==
  /\ DisplayRuns /\ display_pc = "change" /\ (line.current_line + 1) % 2 = 0
  /\ display_pc' = "cleared"
  /\ Says(lcd_clear)
  /\ overwritten' = (\E w \in {"dhcp", "ccs"} : todo[w] # <<>>)
  /\ Still /\ UNCHANGED <<page, line, current_packet, displayQueue>>

FirstLine ==
  /\ DisplayRuns /\ display_pc = "cleared"
  /\ line' = [x |-> 0, y |-> 0, current_line |-> 0]
  /\ NextPage /\ NextLine
  /\ Still /\ UNCHANGED <<todo, current_packet, displayQueue, overwritten>>

(* dhcp_process: every change of state, and every retry, is told.           *)
DhcpPrints ==
  /\ ~Booting /\ todo["dhcp"] = <<>>
  /\ \E c \in DhcpTexts :
       todo' = [todo EXCEPT !["dhcp"] = lcd_clear \o lcd_print_string_at(<<c>>, 0, 0)
                                          \o lcd_print_string_at(<<c>>, 0, 1)]
  /\ overwritten' = TRUE
  /\ Still /\ UNCHANGED <<display_pc, page, line, current_packet, displayQueue>>

(* HAL_I2C_Init, the hardware ID and checkForError, in turn: what goes wrong*)
(* is told at once, and the task goes on.                                   *)
CcsChecks ==
  /\ ~Booting /\ todo["ccs"] = <<>> /\ ccs_checks < 3
  /\ ccs_checks' = ccs_checks + 1
  /\ \/ UNCHANGED <<todo, overwritten>>
     \/ /\ todo' = [todo EXCEPT !["ccs"] = lcd_clear \o lcd_print_string(CcsText)]
        /\ overwritten' = TRUE
  /\ UNCHANGED <<lcd, rs, cut, display_pc, page, line, current_packet, displayQueue>>

DisplayTask ==
  \/ ReceivePacket \/ ShowFields \/ PrintName \/ PrintValue
  \/ SecondLine \/ ClearPage \/ FirstLine

-----------------------------------------------------------------------------

(* Once booted, whenever nobody is inside a byte, the display is too: four  *)
(* bits wide and waiting for the first half -- whatever state a reset has   *)
(* left it in, and unless a byte has been cut since.                        *)
LcdInSync ==
  ~Booting /\ ~cut /\ (\A w \in Writers : ~InByte(w)) => lcd.bits = 4 /\ lcd.half = <<>>

(* When a page is done it shows both its lines, each value of current_packet*)
(* behind its own name, and nothing else, unless dhcp_fsm or, before the    *)
(* first page, i2c_ccs811sensor has written since the page was cleared, or  *)
(* a byte has been cut.                                                     *)
Row(i) == LET text == Text(i).name \o Text(i).value
          IN [x \in Columns |-> IF x < Len(text) THEN text[x + 1] ELSE Blank]
PageWhole ==
  display_pc = "change" /\ todo["display"] = <<>> /\ line.y = 1 /\ ~overwritten /\ ~cut =>
    \A x \in Columns : /\ lcd.cell[Address(x, 0)] = Row(page.i - 1)[x]
                       /\ lcd.cell[Address(x, 1)] = Row(page.i)[x]
=============================================================================

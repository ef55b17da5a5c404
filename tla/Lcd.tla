---------------------------------- MODULE Lcd ----------------------------------
(***************************************************************************)
(* The display: wh1602.c as the steps it takes on the pins, and, external, *)
(* the HD44780 behind them, as far as those steps can reach it.            *)
(*                                                                         *)
(* Four data lines are wired.  A byte is two strobes, and nothing but      *)
(* their number tells the first from the second.  A step sets RS, or sets  *)
(* the data pins and strobes E.  Three columns of each row are kept.       *)
(***************************************************************************)
EXTENDS Integers, Sequences

Nibbles == 0..15
Columns == 0..2
Rows == 0..1

(* The address of a cell, as the chip counts.                               *)
Address(x, y) == 64 * y + x
Addresses == {Address(x, y) : x \in Columns, y \in Rows}
Beyond == 999

Blank == 32
Blanks == [a \in Addresses |-> Blank]

(* bits: the width of the interface; half: the strobe that waits for its    *)
(* second; at: where the next character goes.                               *)
Lcds == [bits : {4, 8}, half : {<<>>} \union {<<n>> : n \in Nibbles},
         at : Addresses \union {Beyond}, cell : [Addresses -> Nat]]

NoAddress(a) == IF a \in Addresses THEN a ELSE Beyond

(* The effect of a command.  Scrolling, blinking and the contrast of the    *)
(* other entry mode are left out: no command of the driver asks for them.   *)
Obey(lcd, hi, lo) ==
  CASE hi >= 8 -> [lcd EXCEPT !.at = NoAddress(16 * (hi - 8) + lo)]
    [] hi \in 4..7 -> [lcd EXCEPT !.at = Beyond]
    [] hi = 3 -> [lcd EXCEPT !.bits = 8]
    [] hi = 2 -> [lcd EXCEPT !.bits = 4]
    [] hi = 0 /\ lo = 1 -> [lcd EXCEPT !.at = 0, !.cell = Blanks]
    [] hi = 0 /\ lo \in {2, 3} -> [lcd EXCEPT !.at = 0]
    [] OTHER -> lcd

Write(lcd, hi, lo) ==
  [lcd EXCEPT !.at = NoAddress(@ + 1),
              !.cell = IF lcd.at \in Addresses THEN [@ EXCEPT ![lcd.at] = 16 * hi + lo] ELSE @]

Execute(lcd, rs, hi, lo) == IF rs = 1 THEN Write(lcd, hi, lo) ELSE Obey(lcd, hi, lo)

(* The lines that are not wired read as ones. *)
Strobe(lcd, rs, n) ==
  IF lcd.bits = 8 THEN Execute(lcd, rs, n, 15)
  ELSE IF lcd.half = <<>> THEN [lcd EXCEPT !.half = <<n>>]
  ELSE Execute([lcd EXCEPT !.half = <<>>], rs, lcd.half[1], n)

-----------------------------------------------------------------------------
(* wh1602.c *)

SetRs(value) == [op |-> "rs", value |-> value]
StrobeE(nibble) == [op |-> "strobe", value |-> nibble]

lcd_write_command_init(nibble) == <<SetRs(0), StrobeE(nibble)>>
lcd_write(byte) == <<StrobeE(byte \div 16), StrobeE(byte % 16)>>
lcd_write_command(byte) == <<SetRs(0)>> \o lcd_write(byte)
lcd_write_data(byte) == <<SetRs(1)>> \o lcd_write(byte)

InitTwiceBug ==
  lcd_write_command_init(3) \o lcd_write_command_init(3) \o lcd_write_command_init(2)

(* From whatever state the display is in: four nibbles for the interface,   *)
InitInterface ==
  lcd_write_command_init(3) \o lcd_write_command_init(3) \o lcd_write_command_init(3)
    \o lcd_write_command_init(2)

lcd_clear == lcd_write_command(1)

(* then two lines, off, on, clear, and left to right.                       *)
lcd_init ==
  InitInterface \o lcd_write_command(40) \o lcd_write_command(8) \o lcd_write_command(12)
    \o lcd_clear \o lcd_write_command(6)

(* One character after the other: three steps each. *)
lcd_print_string(str) ==
  [n \in 1 .. 3 * Len(str) |-> lcd_write_data(str[(n + 2) \div 3])[1 + ((n + 2) % 3)]]

lcd_move_to(x, y) ==
  IF x > 15 \/ y > 1 THEN <<>> ELSE lcd_write_command(128 + Address(x, y))

lcd_print_string_at(str, x, y) == lcd_move_to(x, y) \o lcd_print_string(str)
=============================================================================

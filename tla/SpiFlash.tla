------------------------------ MODULE SpiFlash ------------------------------
(***************************************************************************)
(* The SST25VF016B serial flash, as the driver in flash_SST25VF016B.c uses *)
(* it.  The chip is outside the repository: its state changes are taken    *)
(* from the command bytes the driver sends (0x01, 0x03, 0x04, 0x05, 0x06,  *)
(* 0x20, 0x50, 0xAD) and from the waits it puts between them.              *)
(*                                                                         *)
(* One transaction, from chip select low to chip select high, is one step. *)
(* A sector holds the image of one boxConfig_CRC16_CCITT_S as Words AAI    *)
(* words; the word of an image is abstracted to the configuration it       *)
(* belongs to, so an image is intact when all its words agree.             *)
(***************************************************************************)
EXTENDS Integers

CONSTANTS
  Configs,  \* the boxConfig_S values that can be written
  Words,    \* two-byte AAI words in one image
  Blank,    \* an erased word (0xFFFF)
  Junk      \* a word with bits of two values, or of a half-finished operation

ASSUME FlashAssumption ==
  /\ Words \in Nat \ {0}
  /\ Blank \notin Configs
  /\ Junk \notin Configs
  /\ Blank # Junk

VARIABLES
  cells,    \* contents of the two sectors
  wel,      \* the write-enable latch
  locked,   \* block protection: set by power-up, cleared by writing 0 to the status register
  aai,      \* auto-address-increment mode: sector and last word, or NoAai
  busy      \* the internal operation under way, or Ready

chip == <<cells, wel, locked, aai, busy>>

Sectors == {"main", "reserve"}
WordNo == 1..Words
WordValue == Configs \union {Blank, Junk}

NoAai == [sect |-> "none", word |-> 0]
Ready == [kind |-> "none"]
Erasing(s) == [kind |-> "erase", sect |-> s]
Programming(s, w, v) == [kind |-> "program", sect |-> s, word |-> w, val |-> v]

Operations == {Ready} \union [kind : {"erase"}, sect : Sectors]
  \union [kind : {"program"}, sect : Sectors, word : 1..(Words + 1), val : WordValue]

AaiModes == {NoAai} \union [sect : Sectors, word : 1..(Words + 1)]

ChipTypeOK ==
  /\ cells \in [Sectors -> [WordNo -> WordValue]]
  /\ wel \in BOOLEAN
  /\ locked \in BOOLEAN
  /\ aai \in AaiModes
  /\ busy \in Operations

-----------------------------------------------------------------------------
(* The commands.  A busy chip ignores everything but 0x05; in AAI mode it  *)
(* obeys only 0xAD and 0x04.  An ignored command changes nothing.          *)

IsReady == busy = Ready
Obeys == IsReady /\ aai = NoAai

(* 0x50 0x01 0x00: clear the block protection. *)
CmdWriteStatus ==
  /\ locked' = IF Obeys THEN FALSE ELSE locked
  /\ UNCHANGED <<cells, wel, aai, busy>>

(* 0x06 *)
CmdWriteEnable ==
  /\ wel' = IF Obeys THEN TRUE ELSE wel
  /\ UNCHANGED <<cells, locked, aai, busy>>

(* 0x04: also the only way out of AAI mode. *)
CmdWriteDisable ==
  /\ wel' = IF IsReady THEN FALSE ELSE wel
  /\ aai' = IF IsReady THEN NoAai ELSE aai
  /\ UNCHANGED <<cells, locked, busy>>

(* 0x20 with an address *)
CmdErase(s) ==
  /\ busy' = IF Obeys /\ wel /\ ~locked THEN Erasing(s) ELSE busy
  /\ UNCHANGED <<cells, wel, locked, aai>>

(* The word after w; Words + 1 stands for every address past the image. *)
NextWord(w) == IF w <= Words THEN w + 1 ELSE w

ProgramNext(v) ==
  /\ aai' = [aai EXCEPT !.word = NextWord(@)]
  /\ busy' = Programming(aai.sect, NextWord(aai.word), v)

(* 0xAD with an address and the first word.  A chip already in AAI mode    *)
(* takes the address bytes for the next word.                              *)
CmdAaiFirst(s, v) ==
  /\ CASE Obeys /\ wel /\ ~locked ->
            /\ aai' = [sect |-> s, word |-> 1]
            /\ busy' = Programming(s, 1, v)
       [] IsReady /\ aai # NoAai -> ProgramNext(Junk)
       [] OTHER -> UNCHANGED <<aai, busy>>
  /\ UNCHANGED <<cells, wel, locked>>

(* 0xAD with the next word: an incomplete command outside AAI mode. *)
CmdAaiNext(v) ==
  /\ IF IsReady /\ aai # NoAai THEN ProgramNext(v) ELSE UNCHANGED <<aai, busy>>
  /\ UNCHANGED <<cells, wel, locked>>

-----------------------------------------------------------------------------
(* Programming only clears bits: over anything but a blank word or the     *)
(* same value it leaves a mixture.                                         *)
Burn(old, v) == IF old \in {Blank, v} THEN v ELSE Junk

(* The internal operation completes: BUSY falls; an erase clears the latch. *)
Complete ==
  /\ ~IsReady
  /\ cells' = CASE busy.kind = "erase" ->
                     [cells EXCEPT ![busy.sect] = [w \in WordNo |-> Blank]]
                [] busy.kind = "program" /\ busy.word \in WordNo ->
                     [cells EXCEPT ![busy.sect][busy.word] = Burn(@, busy.val)]
                [] OTHER -> cells
  /\ wel' = (wel /\ busy.kind # "erase")
  /\ busy' = Ready
  /\ UNCHANGED <<locked, aai>>

(* What an operation cut short by the loss of power may leave behind. *)
CutShort ==
  CASE busy.kind = "erase" ->
         \E left \in [WordNo -> {"kept", "blank", "junk"}] :
           cells' = [cells EXCEPT ![busy.sect] =
                      [w \in WordNo |-> CASE left[w] = "kept"  -> cells[busy.sect][w]
                                          [] left[w] = "blank" -> Blank
                                          [] OTHER             -> Junk]]
    [] busy.kind = "program" /\ busy.word \in WordNo ->
         \E v \in {cells[busy.sect][busy.word], Junk, Burn(cells[busy.sect][busy.word], busy.val)} :
           cells' = [cells EXCEPT ![busy.sect][busy.word] = v]
    [] OTHER -> cells' = cells

PowerUp ==
  /\ CutShort
  /\ wel' = FALSE
  /\ locked' = TRUE
  /\ aai' = NoAai
  /\ busy' = Ready
=============================================================================

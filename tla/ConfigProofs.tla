----------------------------- MODULE ConfigProofs -----------------------------
(***************************************************************************)
(* Proofs about ConfigStore with one caller, for every set of              *)
(* configurations and every image length, and about ConfigClients for both *)
(* tasks, every image length, every set of settings and any number of      *)
(* packets.  The first part uses nothing of ConfigClients.                 *)
(***************************************************************************)
EXTENDS ConfigClients, TLAPS

-----------------------------------------------------------------------------
(* The inductive invariant.  Partial(s, k, c): the first k words of copy s  *)
(* belong to c and the rest are blank.                                      *)
Partial(s, k, c) == cells[s] = [w \in WordNo |-> IF w <= k THEN c ELSE Blank]
AaiAt(s, k) == aai = [sect |-> s, word |-> k]
Good == {saved} \union attempted

(* Where the chip is at each step of the one caller. *)
ChipAt(t) ==
  LET s == copy[t]
      k == word[t]
      c == cfg_crc[t]
  IN
  /\ pc[t] \in {"idle", "read", "unlock", "wren_erase", "erase", "wren_program"}
       => IsReady /\ aai = NoAai
  /\ pc[t] = "erase" => wel
  /\ pc[t] = "wait_erase" => aai = NoAai /\ (busy = Erasing(s) \/ (IsReady /\ Partial(s, 0, c)))
  /\ pc[t] = "wren_program" => k = 1 /\ Partial(s, 0, c)
  /\ pc[t] = "program" => /\ k <= Words
                          /\ IsReady
                          /\ wel
                          /\ Partial(s, k - 1, c)
                          /\ IF k = 1 THEN aai = NoAai ELSE AaiAt(s, k - 1)
  /\ pc[t] = "wait_program" => /\ k >= 2
                               /\ wel
                               /\ AaiAt(s, k - 1)
                               /\ \/ IsReady /\ Partial(s, k - 1, c)
                                  \/ busy = Programming(s, k - 1, c) /\ Partial(s, k - 2, c)
  /\ pc[t] = "wrdi" => IsReady /\ Partial(s, Words, c)
  /\ pc[t] = "wait_wrdi" => IsReady /\ aai = NoAai /\ Partial(s, Words, c)

PowerInv(t) ==
  /\ up => ~locked
  /\ ~up => pc[t] = "idle"

(* What the copies hold, in terms of the writes that returned and the ones  *)
(* that were cut short.                                                     *)
CopiesInv(t) ==
  /\ Writing(t) => cfg_crc[t] \in attempted
  /\ Writing(t) /\ copy[t] = "reserve" => cells["main"] = Whole(cfg_crc[t])
  /\ attempted = {} => torn = {} /\ ~Writing(t)
  /\ \A s \in Sectors : Image(s) \in Good \union {NoCfg}
  /\ attempted = {} => Image("main") = saved
  /\ "reserve" \notin torn /\ ~(Writing(t) /\ copy[t] = "reserve") => Image("reserve") = saved
  /\ torn = {"reserve"} /\ ~Writing(t) => Intact("main")

IInv ==
  /\ StoreTypeOK
  /\ \A t \in Callers : ChipAt(t) /\ PowerInv(t) /\ CopiesInv(t)

-----------------------------------------------------------------------------
(* What Image and Whole say of each other. *)

(* An image of a configuration reads back as that configuration: Words >= 1 *)
(* makes Whole injective, so the CHOOSE in Image has one answer.            *)
LEMMA ImageOfWhole ==
  ASSUME NEW s \in Sectors, NEW c \in Configs, cells[s] = Whole(c)
  PROVE  Intact(s) /\ Image(s) = c
<1>1. ASSUME NEW d \in Configs, cells[s] = Whole(d)
      PROVE  d = c
  <2>1. 1 \in WordNo
    BY FlashAssumption DEF WordNo
  <2>2. Whole(c)[1] = c /\ Whole(d)[1] = d
    BY <2>1 DEF Whole
  <2>3. QED
    BY <1>1, <2>2
<1>2. QED
  BY <1>1 DEF Intact, Image

(* A copy reads as a configuration exactly when it is an image of it. *)
LEMMA WholeOfImage ==
  ASSUME NEW s \in Sectors
  PROVE  /\ Intact(s) => Image(s) \in Configs /\ cells[s] = Whole(Image(s))
         /\ ~Intact(s) => Image(s) = NoCfg
         /\ Intact(s) <=> Image(s) # NoCfg
  BY StoreAssumption DEF Intact, Image

(* What a copy reads as depends on nothing but its cells. *)
LEMMA SameCellsSameImage ==
  ASSUME NEW s \in Sectors, cells'[s] = cells[s]
  PROVE  Image(s)' = Image(s) /\ (Intact(s)' <=> Intact(s))
  BY DEF Image, Intact, Whole, WordNo

(* A copy with all its words programmed is an image; a copy whose first     *)
(* word is no other configuration's can read as one configuration only.     *)
LEMMA FullIsWhole ==
  ASSUME NEW s, NEW c, Partial(s, Words, c)
  PROVE  cells[s] = Whole(c)
<1>1. \A w \in WordNo : w <= Words
  BY FlashAssumption DEF WordNo
<1>2. QED
  BY <1>1 DEF Partial, Whole

LEMMA FirstWordImage ==
  ASSUME NEW s \in Sectors, NEW c \in Configs, cells'[s][1] \in {c, Blank, Junk}
  PROVE  Image(s)' \in {NoCfg, c}
<1>1. 1 \in WordNo
  BY FlashAssumption DEF WordNo
<1>2. ASSUME NEW d \in Configs, cells'[s] = Whole(d)
      PROVE  d = c
  <2>1. cells'[s][1] = d
    BY <1>2, <1>1 DEF Whole
  <2>2. QED
    BY <2>1, FlashAssumption
<1>3. ASSUME Intact(s)'
      PROVE  Image(s)' \in Configs /\ cells'[s] = Whole(Image(s)')
  BY <1>3 DEF Intact, Image, Whole
<1>4. QED
  BY <1>2, <1>3 DEF Intact, Image

LEMMA InitInv ==
  ASSUME NEW t, Callers = {t}, Init
  PROVE  IInv
<1>1. StoreTypeOK
  <2>1. cells \in [Sectors -> [WordNo -> WordValue]]
    BY DEF Init, Whole, WordValue
  <2>2. ChipTypeOK
    <3>1. aai \in AaiModes
      BY DEF Init, AaiModes
    <3>2. busy \in Operations
      BY DEF Init, Operations
    <3>3. QED
      BY <2>1, <3>1, <3>2 DEF Init, ChipTypeOK
  <2>3. 1 \in 1..(Words + 1)
    BY FlashAssumption
  <2>4. QED
    BY <2>2, <2>3, StoreAssumption DEF Init, StoreTypeOK, Sectors
<1>2. PowerInv(t) /\ ChipAt(t) /\ ~Writing(t)
  BY DEF Init, PowerInv, ChipAt, Writing, InWrite, IsReady
<1>3. \A s \in Sectors : Image(s) = saved
  <2>1. CASE \E c \in Configs : cells = [s \in Sectors |-> Whole(c)] /\ saved = c
    BY <2>1, ImageOfWhole
  <2>2. CASE cells = [s \in Sectors |-> Whole(Blank)] /\ saved = NoCfg
    <3>1. 1 \in WordNo
      BY FlashAssumption DEF WordNo
    <3>2. ASSUME NEW s \in Sectors, Intact(s)
          PROVE  FALSE
      <4>1. PICK c \in Configs : cells[s] = Whole(c)
        BY <3>2 DEF Intact
      <4>2. Whole(c)[1] = c /\ Whole(Blank)[1] = Blank
        BY <3>1 DEF Whole
      <4>3. QED
        BY <2>2, <4>1, <4>2, FlashAssumption
    <3>3. QED
      BY <2>2, <3>2 DEF Image
  <2>3. QED
    BY <2>1, <2>2 DEF Init
<1>4. CopiesInv(t)
  BY <1>2, <1>3 DEF Init, CopiesInv, Good, Sectors
<1>5. QED
  BY <1>1, <1>2, <1>4 DEF IInv

-----------------------------------------------------------------------------
(* One lemma per action: the invariant survives it. *)

(* A step that leaves the flash contents, the history and the caller's      *)
(* claim on the copies alone keeps what is known of the copies.             *)
LEMMA CopiesKept ==
  ASSUME NEW t, CopiesInv(t), cells' = cells, UNCHANGED history,
         copy'[t] = copy[t], cfg_crc'[t] = cfg_crc[t], Writing(t)' <=> Writing(t)
  PROVE  CopiesInv(t)'
<1>1. \A s \in Sectors : Image(s)' = Image(s) /\ (Intact(s)' <=> Intact(s))
  BY SameCellsSameImage
<1>2. QED
  BY <1>1 DEF CopiesInv, history, Good, Sectors, Whole

LEMMA FlashInitStep ==
  ASSUME NEW t, Callers = {t}, IInv, FlashInit
  PROVE  IInv'
<1> USE DEF FlashInit, CmdWriteStatus, caller
<1>1. StoreTypeOK'
  BY DEF IInv, StoreTypeOK, ChipTypeOK, history
<1>2. IsReady /\ aai = NoAai
  BY DEF IInv, ChipAt, PowerInv
<1>3. ChipAt(t)' /\ PowerInv(t)'
  BY <1>2 DEF IInv, ChipAt, PowerInv, Obeys, IsReady
<1>4. CopiesInv(t)'
  BY CopiesKept DEF IInv, Writing
<1>5. QED
  BY <1>1, <1>3, <1>4 DEF IInv

LEMMA UnlockStep ==
  ASSUME NEW t, Callers = {t}, IInv, Unlock(t)
  PROVE  IInv'
<1> USE DEF Unlock, CmdWriteStatus, At, Goto
<1>1. StoreTypeOK'
  BY DEF IInv, StoreTypeOK, ChipTypeOK, history, InWrite
<1>2. ChipAt(t)' /\ PowerInv(t)'
  BY DEF IInv, ChipAt, PowerInv, Obeys, IsReady, StoreTypeOK, Partial
<1>3. CopiesInv(t)'
  BY CopiesKept DEF IInv, Writing, InWrite, StoreTypeOK
<1>4. QED
  BY <1>1, <1>2, <1>3 DEF IInv

LEMMA EnableWriteStep ==
  ASSUME NEW t, Callers = {t}, IInv, EnableWrite(t)
  PROVE  IInv'
<1> USE DEF EnableWrite, CmdWriteEnable, At, Goto
<1>1. StoreTypeOK'
  BY DEF IInv, StoreTypeOK, ChipTypeOK, history, InWrite
<1>2. ChipAt(t)' /\ PowerInv(t)'
  BY FlashAssumption DEF IInv, ChipAt, PowerInv, Obeys, IsReady, StoreTypeOK, Partial
<1>3. CopiesInv(t)'
  BY CopiesKept DEF IInv, Writing, InWrite, StoreTypeOK
<1>4. QED
  BY <1>1, <1>2, <1>3 DEF IInv

LEMMA ClearSectorStep ==
  ASSUME NEW t, Callers = {t}, IInv, ClearSector(t)
  PROVE  IInv'
<1> USE DEF ClearSector, CmdErase, At, Goto, Sector
<1>1. StoreTypeOK'
  BY DEF IInv, StoreTypeOK, ChipTypeOK, history, InWrite, Operations, Erasing
<1>2. ChipAt(t)' /\ PowerInv(t)'
  BY DEF IInv, ChipAt, PowerInv, Obeys, IsReady, StoreTypeOK, Partial
<1>3. CopiesInv(t)'
  BY CopiesKept DEF IInv, Writing, InWrite, StoreTypeOK
<1>4. QED
  BY <1>1, <1>2, <1>3 DEF IInv

LEMMA ProgramWordStep ==
  ASSUME NEW t, Callers = {t}, IInv, ProgramWord(t)
  PROVE  IInv'
<1> USE DEF ProgramWord, At, Goto, Sector
<1> DEFINE s == copy[t]  k == word[t]  c == cfg_crc[t]
<1>1. /\ k \in 1..Words /\ s \in Sectors /\ c \in Configs
      /\ IsReady /\ wel /\ ~locked
      /\ Partial(s, k - 1, c)
      /\ IF k = 1 THEN aai = NoAai ELSE AaiAt(s, k - 1)
  BY DEF IInv, StoreTypeOK, ChipAt, PowerInv
<1>2. /\ aai' = [sect |-> s, word |-> k]
      /\ busy' = Programming(s, k, c)
      /\ UNCHANGED <<cells, wel, locked>>
  <2>1. CASE k = 1
    BY <1>1, <2>1 DEF CmdAaiFirst, Obeys
  <2>2. CASE k # 1
    BY <1>1, <2>2, FlashAssumption
    DEF CmdAaiNext, ProgramNext, NextWord, AaiAt, NoAai, Sectors
  <2>3. QED
    BY <2>1, <2>2
<1>3. StoreTypeOK'
  BY <1>1, <1>2, FlashAssumption
  DEF IInv, StoreTypeOK, ChipTypeOK, history, InWrite, Operations, Programming, AaiModes, WordValue
<1>4. ChipAt(t)' /\ PowerInv(t)'
  BY <1>1, <1>2, FlashAssumption DEF IInv, ChipAt, PowerInv, StoreTypeOK, Partial, AaiAt
<1>5. CopiesInv(t)'
  BY <1>2, CopiesKept DEF IInv, Writing, InWrite, StoreTypeOK
<1>6. QED
  BY <1>3, <1>4, <1>5 DEF IInv

LEMMA DisableWriteStep ==
  ASSUME NEW t, Callers = {t}, IInv, DisableWrite(t)
  PROVE  IInv'
<1> USE DEF DisableWrite, CmdWriteDisable, At, Goto
<1>1. StoreTypeOK'
  BY DEF IInv, StoreTypeOK, ChipTypeOK, history, InWrite, AaiModes
<1>2. ChipAt(t)' /\ PowerInv(t)'
  BY DEF IInv, ChipAt, PowerInv, IsReady, StoreTypeOK, Partial
<1>3. CopiesInv(t)'
  BY CopiesKept DEF IInv, Writing, InWrite, StoreTypeOK
<1>4. QED
  BY <1>1, <1>2, <1>3 DEF IInv

LEMMA WaitUntilBusyStep ==
  ASSUME NEW t, Callers = {t}, IInv, WaitUntilBusy(t)
  PROVE  IInv'
<1> USE DEF WaitUntilBusy, At, Goto, LastCopy, MoreWords, Return
<1>1. UNCHANGED <<cells, wel, locked, aai, busy, up, device_config, cfg_crc>> /\ IsReady
  BY DEF chip
<1>2. \A s \in Sectors : Image(s)' = Image(s) /\ (Intact(s)' <=> Intact(s))
  BY <1>1, SameCellsSameImage
<1>3. ASSUME cells[copy[t]] = Whole(cfg_crc[t])
      PROVE  Image(copy[t]) = cfg_crc[t] /\ Intact(copy[t])
  BY <1>3, ImageOfWhole DEF IInv, StoreTypeOK
<1>0. Erasing(copy[t]) # Ready /\ Programming(copy[t], word[t] - 1, cfg_crc[t]) # Ready
  BY DEF Erasing, Programming, Ready
<1>4. CASE At(t, "wait_erase") \/ At(t, "wait_program")
  <2>1. StoreTypeOK'
    <3>1. 1 \in 1..(Words + 1) /\ pc \in [Callers -> {"idle"} \union InWrite \union InRead]
      BY FlashAssumption DEF IInv, StoreTypeOK
    <3>2. word' \in [Callers -> 1..(Words + 1)]
      BY <3>1, <1>4 DEF IInv, StoreTypeOK
    <3>3. pc' \in [Callers -> {"idle"} \union InWrite \union InRead]
      BY <3>1, <1>4 DEF InWrite
    <3>4. QED
      BY <1>1, <1>4, <3>2, <3>3 DEF IInv, StoreTypeOK, ChipTypeOK, history
  <2>2. ChipAt(t)' /\ PowerInv(t)'
    <3>1. CASE At(t, "wait_erase")
      BY <1>1, <1>0, <3>1, FlashAssumption
      DEF IInv, ChipAt, PowerInv, IsReady, StoreTypeOK, Partial
    <3>2. CASE At(t, "wait_program")
      <4>1. word[t] \in 1..(Words + 1) /\ word' = word /\ copy' = copy
        BY <3>2, <1>4 DEF IInv, StoreTypeOK
      <4>2. /\ word[t] >= 2 /\ wel /\ AaiAt(copy[t], word[t] - 1)
            /\ Partial(copy[t], word[t] - 1, cfg_crc[t])
        BY <3>2, <1>1, <1>0 DEF IInv, ChipAt, IsReady
      <4>3. pc'[t] = IF word[t] <= Words THEN "program" ELSE "wrdi"
        BY <3>2 DEF IInv, StoreTypeOK
      <4>4. word[t] <= Words \/ word[t] - 1 = Words
        BY <4>1, FlashAssumption
      <4>5. QED
        BY <1>1, <3>2, <4>1, <4>2, <4>3, <4>4, FlashAssumption
        DEF IInv, ChipAt, PowerInv, IsReady, Partial, AaiAt
    <3>3. QED
      BY <1>4, <3>1, <3>2
  <2>3. CopiesInv(t)'
    BY <1>1, <1>4, CopiesKept DEF IInv, Writing, InWrite, StoreTypeOK
  <2>4. QED
    BY <2>1, <2>2, <2>3 DEF IInv
<1>5. CASE At(t, "wait_wrdi")
  <2>1. cells[copy[t]] = Whole(cfg_crc[t])
    BY <1>5, FullIsWhole DEF IInv, ChipAt
  <2>2. StoreTypeOK'
    <3>1. /\ pc \in [Callers -> {"idle"} \union InWrite \union InRead]
          /\ copy \in [Callers -> Sectors]
          /\ cfg_crc[t] \in Configs
      BY DEF IInv, StoreTypeOK
    <3>2. pc' \in [Callers -> {"idle"} \union InWrite \union InRead]
      BY <3>1, <1>5 DEF InWrite
    <3>3. copy' \in [Callers -> Sectors] /\ word' = word
      BY <3>1, <1>5 DEF Sectors
    <3>4. /\ saved' \in Configs \union {NoCfg}
          /\ attempted' \subseteq Configs
          /\ torn' \subseteq Sectors
      BY <3>1, <1>5 DEF IInv, StoreTypeOK, history
    <3>5. QED
      BY <1>1, <3>2, <3>3, <3>4 DEF IInv, StoreTypeOK, ChipTypeOK
  <2>3. ChipAt(t)' /\ PowerInv(t)'
    <3>1. pc'[t] \in {"idle", "unlock"} /\ up
      BY <1>5 DEF IInv, StoreTypeOK
    <3>2. aai = NoAai
      BY <1>5 DEF IInv, ChipAt
    <3>3. QED
      BY <1>1, <3>1, <3>2 DEF IInv, ChipAt, PowerInv, IsReady
  <2>4. CASE copy[t] = "main"
    BY <1>1, <1>2, <1>5, <2>1, <2>2, <2>3, <2>4
    DEF IInv, CopiesInv, Writing, InWrite, StoreTypeOK, history, Good, Whole
  <2>5. CASE copy[t] = "reserve"
    <3>1. cells["main"] = Whole(cfg_crc[t])
      BY <1>5, <2>5 DEF IInv, CopiesInv, Writing, InWrite
    <3>2. Image("main") = cfg_crc[t] /\ Image("reserve") = cfg_crc[t]
      BY <3>1, <2>1, <2>5, ImageOfWhole DEF IInv, StoreTypeOK, Sectors
    <3>3. CopiesInv(t)'
      BY <1>1, <1>2, <1>5, <2>5, <3>2
      DEF IInv, CopiesInv, Writing, InWrite, StoreTypeOK, Good, Sectors
    <3>4. QED
      BY <2>2, <2>3, <3>3 DEF IInv
  <2>6. QED
    BY <2>4, <2>5 DEF IInv, StoreTypeOK, Sectors
<1>6. QED
  BY <1>4, <1>5

LEMMA WriteConfigStep ==
  ASSUME NEW t, Callers = {t}, IInv, WriteConfig(t)
  PROVE  IInv'
<1> USE DEF WriteConfig, At, Goto, chip
<1>1. StoreTypeOK'
  BY DEF IInv, StoreTypeOK, ChipTypeOK, InWrite, Sectors
<1>2. ChipAt(t)' /\ PowerInv(t)'
  BY DEF IInv, ChipAt, PowerInv, IsReady, StoreTypeOK, Partial, AaiAt
<1>3. \A s \in Sectors : Image(s)' = Image(s)
  BY SameCellsSameImage
<1>4. CopiesInv(t)'
  BY <1>3 DEF IInv, CopiesInv, Writing, InWrite, StoreTypeOK, Good, Sectors
<1>5. QED
  BY <1>1, <1>2, <1>4 DEF IInv

(* Reading and editing change device_config and the reader's place only. *)
LEMMA ReadStep ==
  ASSUME NEW t, Callers = {t}, IInv,
         ReadMain(t) \/ ReadReserve(t) \/ (\E c \in Configs : Edit(t, c))
  PROVE  IInv'
<1> USE DEF ReadMain, ReadReserve, Edit, At, Goto, chip, caller
<1>1. UNCHANGED <<chip, up, cfg_crc, copy, word, history>>
  OBVIOUS
<1>2. device_config' \in Configs
  BY WholeOfImage DEF IInv, StoreTypeOK, Sectors
<1>3. pc \in [Callers -> {"idle", "read"} \union InWrite] /\ pc[t] \in {"idle", "read"}
  BY DEF IInv, StoreTypeOK, InRead
<1>4. pc' \in [Callers -> {"idle", "read"} \union InWrite] /\ pc'[t] \in {"idle", "read"} /\ up
  BY <1>3
<1>5. StoreTypeOK'
  BY <1>1, <1>2, <1>4 DEF IInv, StoreTypeOK, ChipTypeOK, history, InRead
<1>6. ChipAt(t)' /\ PowerInv(t)'
  BY <1>1, <1>3, <1>4 DEF IInv, ChipAt, PowerInv, IsReady
<1>7. CopiesInv(t)'
  <2>1. ~Writing(t) /\ ~Writing(t)'
    BY <1>3, <1>4 DEF Writing, InWrite
  <2>2. QED
    BY <1>1, <2>1, CopiesKept DEF IInv
<1>8. QED
  BY <1>5, <1>6, <1>7 DEF IInv

(* A step, or a loss of power, that changes only the copy being rewritten,  *)
(* and makes it read as what it was, as nothing, or as the value being      *)
(* written.                                                                 *)
LEMMA OneCopyRewritten ==
  ASSUME NEW t, Callers = {t}, IInv, Writing(t),
         \A s \in Sectors \ {copy[t]} : cells'[s] = cells[s],
         Image(copy[t])' \in {NoCfg, cfg_crc[t], Image(copy[t])},
         UNCHANGED <<saved, attempted, cfg_crc, copy>>,
         \/ Writing(t)' /\ torn' = torn
         \/ ~Writing(t)' /\ torn' = torn \union {copy[t]}
  PROVE  CopiesInv(t)'
<1>1. copy[t] \in Sectors /\ cfg_crc[t] \in attempted
  BY DEF IInv, StoreTypeOK, CopiesInv
<1>2. \A s \in Sectors \ {copy[t]} : Image(s)' = Image(s) /\ (Intact(s)' <=> Intact(s))
  BY SameCellsSameImage
<1>3. \A s \in Sectors : Image(s)' \in Good \union {NoCfg}
  BY <1>1, <1>2 DEF IInv, CopiesInv, Good
<1>4. CASE copy[t] = "main"
  BY <1>1, <1>2, <1>3, <1>4 DEF IInv, CopiesInv, Good, Sectors
<1>5. CASE copy[t] = "reserve"
  <2>1. cells'["main"] = cells["main"] /\ cells["main"] = Whole(cfg_crc[t])
    BY <1>5 DEF IInv, CopiesInv, Sectors
  <2>2. Intact("main")'
    <3>1. Intact("main")
      BY <2>1, ImageOfWhole DEF IInv, StoreTypeOK, Sectors
    <3>2. QED
      BY <3>1, <1>2, <1>5 DEF Sectors
  <2>3. cells'["main"] = Whole(cfg_crc[t])'
    BY <2>1 DEF Whole
  <2>4. QED
    BY <1>1, <1>3, <1>5, <2>2, <2>3 DEF IInv, CopiesInv, Good, Sectors
<1>6. QED
  BY <1>1, <1>4, <1>5 DEF Sectors

(* The only operations ever under way are the one caller's. *)
LEMMA OwnOperation ==
  ASSUME NEW t, Callers = {t}, IInv, ~IsReady
  PROVE  /\ Writing(t) /\ copy[t] \in Sectors /\ cfg_crc[t] \in Configs
         /\ \/ pc[t] = "wait_erase" /\ busy = Erasing(copy[t])
            \/ /\ pc[t] = "wait_program"
               /\ word[t] - 1 \in WordNo
               /\ busy = Programming(copy[t], word[t] - 1, cfg_crc[t])
               /\ Partial(copy[t], word[t] - 2, cfg_crc[t])
<1>1. pc[t] \in {"idle", "read"} \union InWrite
  BY DEF IInv, StoreTypeOK, InRead
<1>2. pc[t] \in {"wait_erase", "wait_program"}
  BY <1>1 DEF IInv, ChipAt, InWrite
<1>3. word[t] \in 1..(Words + 1)
  BY DEF IInv, StoreTypeOK
<1>4. word[t] >= 2 => word[t] - 1 \in WordNo
  BY <1>3, FlashAssumption DEF WordNo
<1>5. QED
  BY <1>2, <1>4 DEF IInv, ChipAt, Writing, InWrite, StoreTypeOK

(* An operation that ends changes only the copy being rewritten, which then *)
(* reads as the value being written, or as nothing.                         *)
LEMMA OperationEnds ==
  ASSUME NEW t, Callers = {t}, IInv, ChipStep
  PROVE  /\ Writing(t) /\ copy[t] \in Sectors /\ cfg_crc[t] \in Configs
         /\ cells' \in [Sectors -> [WordNo -> WordValue]]
         /\ \A r \in Sectors \ {copy[t]} : cells'[r] = cells[r]
         /\ pc[t] = "wait_erase" => Partial(copy[t], 0, cfg_crc[t])'
         /\ pc[t] = "wait_program" => Partial(copy[t], word[t] - 1, cfg_crc[t])' /\ wel' = wel
         /\ Image(copy[t])' \in {NoCfg, cfg_crc[t]}
<1> DEFINE s == copy[t]  k == word[t]  c == cfg_crc[t]
<1>1. ~IsReady /\ busy' = Ready /\ UNCHANGED <<locked, aai, up, device_config, pc, cfg_crc, copy, word, saved, attempted, torn>>
  BY DEF ChipStep, Complete, caller, history
<1>2. Writing(t) /\ s \in Sectors /\ c \in Configs
  BY <1>1, OwnOperation
<1>3. cells \in [Sectors -> [WordNo -> WordValue]]
  BY DEF IInv, StoreTypeOK, ChipTypeOK
<1>4. /\ cells' \in [Sectors -> [WordNo -> WordValue]]
      /\ \A r \in Sectors \ {s} : cells'[r] = cells[r]
      /\ pc[t] = "wait_erase" => Partial(s, 0, c)'
      /\ pc[t] = "wait_program" => Partial(s, k - 1, c)' /\ wel' = wel
  <2>1. CASE pc[t] = "wait_erase" /\ busy = Erasing(s)
    <3>1. cells' = [cells EXCEPT ![s] = [w \in WordNo |-> Blank]]
      BY <2>1 DEF ChipStep, Complete, Erasing
    <3>2. [w \in WordNo |-> Blank] \in [WordNo -> WordValue]
      BY DEF WordValue
    <3>3. \A w \in WordNo : ~(w <= 0)
      BY FlashAssumption DEF WordNo
    <3>4. cells'[s] = [w \in WordNo |-> IF w <= 0 THEN c ELSE Blank]
      BY <3>1, <3>3, <1>2, <1>3
    <3>5. QED
      BY <1>1, <1>2, <1>3, <2>1, <3>1, <3>2, <3>4 DEF Partial
  <2>2. CASE /\ pc[t] = "wait_program"
             /\ k - 1 \in WordNo
             /\ busy = Programming(s, k - 1, c)
             /\ Partial(s, k - 2, c)
    <3>1. /\ cells' = [cells EXCEPT ![s][k - 1] = Burn(@, c)]
          /\ wel' = (wel /\ TRUE)
      BY <2>2 DEF ChipStep, Complete, Programming
    <3>2. k \in Int /\ ~(k - 1 <= k - 2)
      BY <2>2, <1>2 DEF IInv, StoreTypeOK
    <3>3. cells[s][k - 1] = Blank
      BY <2>2, <3>2 DEF Partial
    <3>4. cells' = [cells EXCEPT ![s] = [cells[s] EXCEPT ![k - 1] = c]]
      BY <3>1, <3>3 DEF Burn
    <3>5. \A w \in WordNo : w # k - 1 => (w <= k - 1 <=> w <= k - 2)
      BY <3>2 DEF WordNo
    <3>6. cells'[s] = [w \in WordNo |-> IF w <= k - 1 THEN c ELSE Blank]
      BY <3>2, <3>4, <3>5, <2>2, <1>2, <1>3 DEF Partial
    <3>7. c \in WordValue
      BY <1>2 DEF WordValue
    <3>8. QED
      BY <1>1, <1>2, <1>3, <2>2, <3>1, <3>4, <3>6, <3>7 DEF Partial, IInv, StoreTypeOK, ChipTypeOK
  <2>3. QED
    BY <2>1, <2>2, <1>1, OwnOperation
<1>5. Image(s)' \in {NoCfg, c}
  <2>1. 1 \in WordNo
    BY FlashAssumption DEF WordNo
  <2>2. cells'[s][1] \in {c, Blank}
    BY <1>1, <1>2, <1>4, <2>1, OwnOperation DEF Partial
  <2>3. \A r \in Sectors : r = s => Image(r)' \in {NoCfg, c}
    BY <1>2, <2>2, FirstWordImage
  <2>4. QED
    BY <1>1, <1>2, <2>3
<1>6. QED
  BY <1>2, <1>4, <1>5

LEMMA ChipStepStep ==
  ASSUME NEW t, Callers = {t}, IInv, ChipStep
  PROVE  IInv'
<1> DEFINE s == copy[t]  k == word[t]  c == cfg_crc[t]
<1>1. ~IsReady /\ busy' = Ready /\ UNCHANGED <<locked, aai, up, device_config, pc, cfg_crc, copy, word, saved, attempted, torn>>
  BY DEF ChipStep, Complete, caller, history
<1>2. Writing(t) /\ s \in Sectors /\ c \in Configs
  BY OperationEnds
<1>4. /\ cells' \in [Sectors -> [WordNo -> WordValue]]
      /\ \A r \in Sectors \ {s} : cells'[r] = cells[r]
      /\ pc[t] = "wait_erase" => Partial(s, 0, c)'
      /\ pc[t] = "wait_program" => Partial(s, k - 1, c)' /\ wel' = wel
  BY OperationEnds
<1>5. wel' \in BOOLEAN
  BY DEF ChipStep, Complete
<1>6. StoreTypeOK'
  BY <1>1, <1>4, <1>5 DEF IInv, StoreTypeOK, ChipTypeOK, Operations
<1>7. ChipAt(t)' /\ PowerInv(t)'
  <2>1. pc[t] \in {"wait_erase", "wait_program"}
    BY <1>1, OwnOperation
  <2>2. QED
    BY <1>1, <1>4, <2>1 DEF IInv, ChipAt, PowerInv, IsReady, AaiAt
<1>8. Image(s)' \in {NoCfg, c}
  BY OperationEnds
<1>9. CopiesInv(t)'
  BY <1>1, <1>2, <1>4, <1>8, OneCopyRewritten DEF Writing
<1>10. QED
  BY <1>6, <1>7, <1>9 DEF IInv

(* An erase cut short leaves the old image, or nothing that passes a CRC. *)
LEMMA CutErase ==
  ASSUME NEW t, Callers = {t}, IInv, PowerLoss, busy = Erasing(copy[t]), copy[t] \in Sectors
  PROVE  /\ cells' \in [Sectors -> [WordNo -> WordValue]]
         /\ \A s \in Sectors \ {copy[t]} : cells'[s] = cells[s]
         /\ \A s \in Sectors : s = copy[t] => Image(s)' \in {NoCfg, Image(s)}
<1> DEFINE part(left) == [w \in WordNo |-> CASE left[w] = "kept"  -> cells[copy[t]][w]
                                             [] left[w] = "blank" -> Blank
                                             [] OTHER             -> Junk]
<1>1. PICK left \in [WordNo -> {"kept", "blank", "junk"}] :
             cells' = [cells EXCEPT ![copy[t]] = part(left)]
  <2>1. busy.kind = "erase" /\ busy.sect = copy[t]
    BY DEF Erasing
  <2>2. CutShort
    BY DEF PowerLoss, PowerUp
  <2>3. QED
    BY <2>1, <2>2, ZenonT(30) DEF CutShort
<1>2. cells \in [Sectors -> [WordNo -> WordValue]]
  BY DEF IInv, StoreTypeOK, ChipTypeOK
<1>3. part(left) \in [WordNo -> WordValue]
  <2>1. ASSUME NEW w \in WordNo
        PROVE  cells[copy[t]][w] \in WordValue /\ Blank \in WordValue /\ Junk \in WordValue
    BY <1>2 DEF WordValue
  <2>2. QED
    BY <2>1
<1>4. cells'[copy[t]] = part(left)
  BY <1>1, <1>2
<1>5. ASSUME NEW s \in Sectors, s = copy[t]
      PROVE  Image(s)' \in {NoCfg, Image(s)}
  <2>1. ASSUME NEW d \in Configs, cells'[s] = Whole(d)
        PROVE  cells'[s] = cells[s]
    <3>1. ASSUME NEW w \in WordNo
          PROVE  cells[s][w] = d
      <4>1. cells'[s][w] = d
        BY <2>1 DEF Whole
      <4>2. QED
        BY <4>1, <1>4, <1>5, FlashAssumption
    <3>2. cells[s] = Whole(d)
      BY <3>1, <1>2 DEF Whole
    <3>3. QED
      BY <2>1, <3>2
  <2>2. CASE Intact(s)'
    <3>1. cells'[s] = cells[s]
      BY <2>1, <2>2 DEF Intact, Whole
    <3>2. QED
      BY <3>1, SameCellsSameImage
  <2>3. CASE ~Intact(s)'
    BY <2>3 DEF Image
  <2>4. QED
    BY <2>2, <2>3
<1>6. QED
  BY <1>1, <1>2, <1>3, <1>5

(* A word cut short leaves an image of the value being written, or none. *)
LEMMA CutProgram ==
  ASSUME NEW t, Callers = {t}, IInv, PowerLoss, copy[t] \in Sectors, cfg_crc[t] \in Configs,
         word[t] - 1 \in WordNo,
         busy = Programming(copy[t], word[t] - 1, cfg_crc[t]),
         Partial(copy[t], word[t] - 2, cfg_crc[t])
  PROVE  /\ cells' \in [Sectors -> [WordNo -> WordValue]]
         /\ \A s \in Sectors \ {copy[t]} : cells'[s] = cells[s]
         /\ \A s \in Sectors : s = copy[t] => Image(s)' \in {NoCfg, cfg_crc[t]}
<1> DEFINE k == word[t] - 1  c == cfg_crc[t]
<1>1. PICK v \in {cells[copy[t]][k], Junk, Burn(cells[copy[t]][k], c)} :
             cells' = [cells EXCEPT ![copy[t]][k] = v]
  BY DEF PowerLoss, PowerUp, CutShort, Programming
<1>2. cells \in [Sectors -> [WordNo -> WordValue]]
  BY DEF IInv, StoreTypeOK, ChipTypeOK
<1>3. \A w \in WordNo : cells[copy[t]][w] \in {c, Blank}
  BY DEF Partial
<1>4. v \in {c, Blank, Junk}
  BY <1>1, <1>3 DEF Burn
<1>5. cells' = [cells EXCEPT ![copy[t]] = [cells[copy[t]] EXCEPT ![k] = v]]
  BY <1>1
<1>6. v \in WordValue
  BY <1>4 DEF WordValue
<1>7. \A w \in WordNo : cells'[copy[t]][w] \in {c, Blank, Junk}
  BY <1>2, <1>3, <1>4, <1>5
<1>8. 1 \in WordNo
  BY FlashAssumption DEF WordNo
<1>9. \A s \in Sectors : s = copy[t] => Image(s)' \in {NoCfg, c}
  BY <1>7, <1>8, FirstWordImage
<1>10. QED
  BY <1>2, <1>5, <1>6, <1>9

(* A loss of power changes no copy but the one being rewritten, which keeps *)
(* what it was, reads as the value being written, or as nothing.            *)
LEMMA CutAtPowerLoss ==
  ASSUME NEW t, Callers = {t}, IInv, PowerLoss
  PROVE  /\ copy[t] \in Sectors
         /\ cells' \in [Sectors -> [WordNo -> WordValue]]
         /\ \A s \in Sectors \ {copy[t]} : cells'[s] = cells[s]
         /\ ~Writing(t) => cells' = cells
         /\ Writing(t) => /\ cfg_crc[t] \in Configs
                          /\ Image(copy[t])' \in {NoCfg, cfg_crc[t], Image(copy[t])}
<1>1. /\ copy[t] \in Sectors
      /\ cfg_crc[t] \in Configs
      /\ cells \in [Sectors -> [WordNo -> WordValue]]
      /\ copy' = copy
  BY DEF IInv, StoreTypeOK, ChipTypeOK, PowerLoss
<1>2. CASE IsReady
  <2>1. cells' = cells
    BY <1>2 DEF PowerLoss, PowerUp, CutShort, IsReady, Ready
  <2>2. \A s \in Sectors : Image(s)' = Image(s)
    BY <2>1, SameCellsSameImage
  <2>3. Image(copy[t])' = Image(copy[t])
    BY <1>1, <2>2
  <2>4. QED
    BY <1>1, <2>1, <2>3
<1>3. CASE ~IsReady
  <2>1. Writing(t)
    BY <1>3, OwnOperation
  <2>2. /\ cells' \in [Sectors -> [WordNo -> WordValue]]
        /\ \A s \in Sectors \ {copy[t]} : cells'[s] = cells[s]
        /\ \A s \in Sectors : s = copy[t] => Image(s)' \in {NoCfg, cfg_crc[t], Image(s)}
    <3>1. CASE busy = Erasing(copy[t])
      BY <1>1, <3>1, CutErase
    <3>2. CASE /\ word[t] - 1 \in WordNo
               /\ busy = Programming(copy[t], word[t] - 1, cfg_crc[t])
               /\ Partial(copy[t], word[t] - 2, cfg_crc[t])
      BY <1>1, <3>2, CutProgram
    <3>3. QED
      BY <1>3, <3>1, <3>2, OwnOperation
  <2>3. Image(copy[t])' \in {NoCfg, cfg_crc[t], Image(copy[t])}
    BY <1>1, <2>2
  <2>4. QED
    BY <1>1, <2>1, <2>2, <2>3
<1>4. QED
  BY <1>2, <1>3

LEMMA PowerLossStep ==
  ASSUME NEW t, Callers = {t}, IInv, PowerLoss
  PROVE  IInv'
<1>1. /\ wel' = FALSE /\ locked' = TRUE /\ aai' = NoAai /\ busy' = Ready
      /\ up' = FALSE /\ device_config' = ZeroCfg
      /\ pc' = [u \in Callers |-> "idle"]
      /\ UNCHANGED <<cfg_crc, copy, word, saved, attempted>>
      /\ torn' = torn \union (IF Writing(t) THEN {copy[t]} ELSE {})
  BY DEF PowerLoss, PowerUp
<1>2. /\ copy[t] \in Sectors
      /\ cells \in [Sectors -> [WordNo -> WordValue]]
  BY DEF IInv, StoreTypeOK, ChipTypeOK
<1>3. ~Writing(t)'
  BY <1>1 DEF Writing, InWrite
<1>4. /\ cells' \in [Sectors -> [WordNo -> WordValue]]
      /\ CopiesInv(t)'
  <2>1. CASE ~Writing(t)
    <3>1. cells' = cells
      BY <2>1, CutAtPowerLoss
    <3>2. QED
      BY <1>1, <1>2, <1>3, <2>1, <3>1, CopiesKept DEF IInv, history
  <2>2. CASE Writing(t)
    BY <1>1, <1>3, <2>2, CutAtPowerLoss, OneCopyRewritten
  <2>3. QED
    BY <2>1, <2>2
<1>5. StoreTypeOK'
  <2>1. ChipTypeOK'
    BY <1>1, <1>4 DEF ChipTypeOK, AaiModes, Operations
  <2>2. /\ pc' \in [Callers -> {"idle"} \union InWrite \union InRead]
        /\ torn' \subseteq Sectors
    BY <1>1, <1>2 DEF IInv, StoreTypeOK
  <2>3. QED
    BY <1>1, <2>1, <2>2, StoreAssumption DEF IInv, StoreTypeOK
<1>6. ChipAt(t)' /\ PowerInv(t)'
  BY <1>1 DEF ChipAt, PowerInv, IsReady
<1>7. QED
  BY <1>4, <1>5, <1>6 DEF IInv

-----------------------------------------------------------------------------
(* The theorems, for one caller. *)

(* The invariant is inductive: every action and every stutter keeps it. *)
LEMMA NextInv ==
  ASSUME NEW t, Callers = {t}, IInv, [Next]_vars
  PROVE  IInv'
<1>1. CASE FlashInit
  BY <1>1, FlashInitStep
<1>2. CASE WriteConfig(t)
  BY <1>2, WriteConfigStep
<1>3. CASE ReadMain(t) \/ ReadReserve(t) \/ \E c \in Configs : Edit(t, c)
  BY <1>3, ReadStep
<1>4. CASE Unlock(t)
  BY <1>4, UnlockStep
<1>5. CASE EnableWrite(t)
  BY <1>5, EnableWriteStep
<1>6. CASE ClearSector(t)
  BY <1>6, ClearSectorStep
<1>7. CASE ProgramWord(t)
  BY <1>7, ProgramWordStep
<1>8. CASE DisableWrite(t)
  BY <1>8, DisableWriteStep
<1>9. CASE WaitUntilBusy(t)
  BY <1>9, WaitUntilBusyStep
<1>10. CASE ChipStep
  BY <1>10, ChipStepStep
<1>11. CASE PowerLoss
  BY <1>11, PowerLossStep
<1>12. CASE UNCHANGED vars
  <2>1. UNCHANGED <<chip, up, device_config, caller, history>>
    BY <1>12 DEF vars
  <2>2. StoreTypeOK'
    BY <2>1 DEF IInv, StoreTypeOK, ChipTypeOK, chip, caller, history
  <2>3. ChipAt(t)' /\ PowerInv(t)'
    BY <2>1 DEF IInv, ChipAt, PowerInv, IsReady, Partial, AaiAt, chip, caller
  <2>4. CopiesInv(t)'
    BY <2>1, CopiesKept DEF IInv, Writing, chip, caller
  <2>5. QED
    BY <2>2, <2>3, <2>4 DEF IInv
<1>13. QED
  BY <1>1, <1>2, <1>3, <1>4, <1>5, <1>6, <1>7, <1>8, <1>9, <1>10, <1>11, <1>12
  DEF Next, Driver

(* The invariant gives the properties the runs check. *)
LEMMA InvGives ==
  ASSUME NEW t, Callers = {t}, IInv
  PROVE  Durable /\ BothCopies
<1>1. \A s \in Sectors : /\ Intact(s) => cells[s] = Whole(Image(s))
                         /\ Intact(s) <=> Image(s) # NoCfg
  BY WholeOfImage
<1>2. Durable
  <2>1. CASE Intact("main")
    BY <1>1, <2>1 DEF IInv, CopiesInv, Durable, Stored, Good, Sectors
  <2>2. CASE ~Intact("main")
    <3>1. ~(Writing(t) /\ copy[t] = "reserve")
      BY <2>2, ImageOfWhole DEF IInv, CopiesInv, StoreTypeOK, Sectors
    <3>2. CASE "reserve" \notin torn
      BY <2>2, <3>1, <3>2 DEF IInv, CopiesInv, Durable, Stored
    <3>3. CASE torn = Sectors
      BY <3>3 DEF Durable
    <3>4. CASE torn = {"reserve"}
      BY <2>2, <3>4 DEF IInv, CopiesInv, Durable, AllIdle, Writing, InWrite
    <3>5. torn \subseteq Sectors
      BY DEF IInv, StoreTypeOK
    <3>6. QED
      BY <3>2, <3>3, <3>4, <3>5 DEF Sectors
  <2>3. QED
    BY <2>1, <2>2
<1>3. BothCopies
  BY <1>1 DEF IInv, CopiesInv, BothCopies, Sectors
<1>4. QED
  BY <1>2, <1>3

(* The driver and the chip stay in the states the code expects: a command   *)
(* reaches a chip that obeys it, in the AAI mode it is meant for.           *)
THEOREM TypeCorrect ==
  ASSUME NEW t, Callers = {t}
  PROVE  Spec => []StoreTypeOK
<1>1. Init => IInv
  BY InitInv
<1>2. IInv /\ [Next]_vars => IInv'
  BY NextInv
<1>3. IInv => StoreTypeOK
  BY DEF IInv
<1>4. QED
  BY <1>1, <1>2, <1>3, PTL DEF Spec

(* config_board.c: however often power is lost, a device that starts finds  *)
(* the last completed write or a later one, as long as a main and a reserve *)
(* rewrite have not both been torn.                                         *)
THEOREM ConfigDurable ==
  ASSUME NEW t, Callers = {t}
  PROVE  Spec => []Durable
<1>1. Init => IInv
  BY InitInv
<1>2. IInv /\ [Next]_vars => IInv'
  BY NextInv
<1>3. IInv => Durable
  BY InvGives
<1>4. QED
  BY <1>1, <1>2, <1>3, PTL DEF Spec

(* WriteConfig returns with both copies rewritten. *)
THEOREM ConfigInBothCopies ==
  ASSUME NEW t, Callers = {t}
  PROVE  Spec => []BothCopies
<1>1. Init => IInv
  BY InitInv
<1>2. IInv /\ [Next]_vars => IInv'
  BY NextInv
<1>3. IInv => BothCopies
  BY InvGives
<1>4. QED
  BY <1>1, <1>2, <1>3, PTL DEF Spec

-----------------------------------------------------------------------------
(* The store of one caller implements ConfigCopies. *)

(* The refinement mapping, for one caller, before and after a step. *)
LEMMA MappedToCaller ==
  ASSUME NEW t, Callers = {t}
  PROVE  /\ BeingStored = IF Writing(t) THEN cfg_crc[t] ELSE NoCfg
         /\ InTurn = IF Writing(t) THEN copy[t] ELSE "main"
         /\ BeingStored' = IF Writing(t)' THEN cfg_crc'[t] ELSE NoCfg
         /\ InTurn' = IF Writing(t)' THEN copy'[t] ELSE "main"
<1>1. /\ InProgress <=> Writing(t)
      /\ InProgress => Writer = t
      /\ InProgress' <=> Writing(t)'
      /\ InProgress' => Writer' = t
  BY DEF InProgress, Writer
<1>2. QED
  BY <1>1 DEF BeingStored, InTurn

(* A step after which every copy reads as it did, and one after which every *)
(* copy but one does.                                                       *)
LEMMA ContentKept ==
  ASSUME \A s \in Sectors : Image(s)' = Image(s)
  PROVE  Content' = Content
  BY DEF Content, Sectors

LEMMA ContentOfOneCopy ==
  ASSUME NEW r \in Sectors, \A s \in Sectors \ {r} : Image(s)' = Image(s)
  PROVE  Content' = [Content EXCEPT ![r] = Image(r)']
  BY DEF Content, Sectors

(* A step that leaves what the copies read as, the value and the copy alone *)
(* is a stutter of the abstract store.                                      *)
LEMMA Unseen ==
  ASSUME NEW t, Callers = {t}, \A s \in Sectors : Image(s)' = Image(s),
         Writing(t)' <=> Writing(t), cfg_crc'[t] = cfg_crc[t], copy'[t] = copy[t]
  PROVE  UNCHANGED Copies!copies
  BY ContentKept, MappedToCaller DEF Copies!copies

(* The commands, the waits inside a copy, the reads and the assignments to  *)
(* the global are all unseen.                                               *)
LEMMA DriverUnseen ==
  ASSUME NEW t, Callers = {t}, IInv,
         \/ FlashInit
         \/ Unlock(t) \/ EnableWrite(t) \/ ClearSector(t) \/ ProgramWord(t) \/ DisableWrite(t)
         \/ WaitUntilBusy(t) /\ ~At(t, "wait_wrdi")
         \/ ReadMain(t) \/ ReadReserve(t) \/ \E c \in Configs : Edit(t, c)
  PROVE  UNCHANGED Copies!copies
<1>1. cells' = cells /\ cfg_crc' = cfg_crc /\ copy' = copy
  BY DEF FlashInit, Unlock, EnableWrite, ClearSector, ProgramWord, DisableWrite, WaitUntilBusy,
         ReadMain, ReadReserve, Edit, CmdWriteStatus, CmdWriteEnable, CmdWriteDisable, CmdErase,
         CmdAaiFirst, CmdAaiNext, chip, caller, At
<1>2. \A s \in Sectors : Image(s)' = Image(s)
  BY <1>1, SameCellsSameImage
<1>3. Writing(t)' <=> Writing(t)
  BY DEF FlashInit, Unlock, EnableWrite, ClearSector, ProgramWord, DisableWrite, WaitUntilBusy,
         ReadMain, ReadReserve, Edit, caller, At, Goto, Writing, InWrite, MoreWords, IInv, StoreTypeOK
<1>4. QED
  BY <1>1, <1>2, <1>3, Unseen

(* WriteConfig begins a rewrite of the main copy. *)
LEMMA BeginSimulated ==
  ASSUME NEW t, Callers = {t}, IInv, WriteConfig(t)
  PROVE  Copies!Next
<1>1. /\ cells' = cells
      /\ ~Writing(t)
      /\ Writing(t)'
      /\ cfg_crc'[t] = device_config
      /\ copy'[t] = "main"
      /\ device_config \in Configs
  BY DEF WriteConfig, At, Goto, Writing, InWrite, IInv, StoreTypeOK, chip
<1>2. Content' = Content
  BY <1>1, SameCellsSameImage, ContentKept
<1>3. Copies!Begin(device_config)
  BY <1>1, <1>2, MappedToCaller DEF Copies!Begin
<1>4. QED
  BY <1>1, <1>3 DEF Copies!Next

(* The last wait of a copy moves on to the reserve copy, or finishes. *)
LEMMA CopyDoneSimulated ==
  ASSUME NEW t, Callers = {t}, IInv, WaitUntilBusy(t), At(t, "wait_wrdi")
  PROVE  Copies!Next
<1>1. /\ cells' = cells /\ cfg_crc' = cfg_crc
      /\ Writing(t)
      /\ copy[t] \in Sectors
      /\ cfg_crc[t] \in Configs
      /\ cells[copy[t]] = Whole(cfg_crc[t])
      /\ Image(copy[t]) = cfg_crc[t]
  BY FullIsWhole, ImageOfWhole
  DEF WaitUntilBusy, At, Writing, InWrite, IInv, StoreTypeOK, ChipAt, chip
<1>2. Content' = Content
  BY <1>1, SameCellsSameImage, ContentKept
<1>3. cfg_crc[t] # NoCfg
  BY <1>1, StoreAssumption
<1>4. CASE ~LastCopy(copy[t])
  <2>1. Writing(t)' /\ copy[t] = "main" /\ copy'[t] = "reserve"
    BY <1>1, <1>4 DEF WaitUntilBusy, At, Goto, Writing, InWrite, LastCopy, Sectors, IInv, StoreTypeOK
  <2>2. Content["main"] = cfg_crc[t]
    BY <1>1, <2>1 DEF Content
  <2>3. Copies!NextCopy
    BY <1>1, <1>2, <1>3, <2>1, <2>2, MappedToCaller DEF Copies!NextCopy
  <2>4. QED
    BY <2>3 DEF Copies!Next
<1>5. CASE LastCopy(copy[t])
  <2>1. ~Writing(t)' /\ copy[t] = "reserve"
    BY <1>5 DEF WaitUntilBusy, At, Goto, Return, Writing, InWrite, LastCopy, IInv, StoreTypeOK
  <2>2. \A s \in Sectors : Image(s) = cfg_crc[t]
    BY <1>1, <2>1, ImageOfWhole DEF IInv, CopiesInv, Sectors
  <2>3. Copies!Finish
    BY <1>1, <1>2, <1>3, <2>1, <2>2, MappedToCaller
    DEF Copies!Finish, Copies!Copy, Content, Sectors
  <2>4. QED
    BY <2>3 DEF Copies!Next
<1>6. QED
  BY <1>4, <1>5

(* An operation that ends rewrites the copy in turn. *)
LEMMA ChipStepSimulated ==
  ASSUME NEW t, Callers = {t}, IInv, ChipStep
  PROVE  Copies!Next
<1>1. /\ Writing(t) /\ copy[t] \in Sectors /\ cfg_crc[t] \in Configs
      /\ UNCHANGED <<pc, cfg_crc, copy>>
  BY OperationEnds DEF ChipStep, caller
<1>2. /\ \A s \in Sectors \ {copy[t]} : Image(s)' = Image(s)
      /\ Image(copy[t])' \in {NoCfg, cfg_crc[t]}
  BY OperationEnds, SameCellsSameImage
<1>3. Content' = [Content EXCEPT ![copy[t]] = Image(copy[t])']
  BY <1>1, <1>2, ContentOfOneCopy
<1>4. cfg_crc[t] # NoCfg /\ Writing(t)'
  BY <1>1, StoreAssumption DEF Writing
<1>5. /\ BeingStored = cfg_crc[t] /\ BeingStored' = cfg_crc[t]
      /\ InTurn = copy[t] /\ InTurn' = copy[t]
  BY <1>1, <1>4, MappedToCaller
<1>6. Copies!Rewrite
  BY <1>2, <1>3, <1>4, <1>5 DEF Copies!Rewrite
<1>7. QED
  BY <1>6 DEF Copies!Next

(* A loss of power is one of the abstract store during a write, and unseen  *)
(* otherwise.                                                               *)
LEMMA PowerLossSimulated ==
  ASSUME NEW t, Callers = {t}, IInv, PowerLoss
  PROVE  [Copies!Next]_Copies!copies
<1>1. ~Writing(t)' /\ cfg_crc' = cfg_crc /\ copy' = copy
  BY DEF PowerLoss, Writing, InWrite
<1>2. CASE ~Writing(t)
  <2>1. \A s \in Sectors : Image(s)' = Image(s)
    BY <1>2, CutAtPowerLoss, SameCellsSameImage
  <2>2. QED
    BY <1>1, <1>2, <2>1, Unseen
<1>3. CASE Writing(t)
  <2>1. copy[t] \in Sectors /\ \A s \in Sectors \ {copy[t]} : Image(s)' = Image(s)
    BY <1>3, CutAtPowerLoss, SameCellsSameImage
  <2>2. cfg_crc[t] \in Configs /\ Image(copy[t])' \in {NoCfg, cfg_crc[t], Image(copy[t])}
    BY <1>3, CutAtPowerLoss
  <2>3. /\ Content' = [Content EXCEPT ![copy[t]] = Image(copy[t])']
        /\ Content[copy[t]] = Image(copy[t])
    <3>1. Content' = [Content EXCEPT ![copy[t]] = Image(copy[t])']
      BY <1>1, <2>1, ContentOfOneCopy
    <3>2. QED
      BY <2>1, <3>1 DEF Content
  <2>4. /\ BeingStored = cfg_crc[t] /\ BeingStored' = NoCfg /\ cfg_crc[t] # NoCfg
        /\ InTurn = copy[t] /\ InTurn' = "main"
    BY <1>1, <1>3, <2>2, StoreAssumption, MappedToCaller
  <2>5. Copies!PowerLoss
    BY <2>2, <2>3, <2>4 DEF Copies!PowerLoss
  <2>6. QED
    BY <2>5 DEF Copies!Next
<1>4. QED
  BY <1>2, <1>3

LEMMA InitSimulated ==
  ASSUME NEW t, Callers = {t}, Init
  PROVE  Copies!Init
<1>1. ~Writing(t)
  BY DEF Init, Writing, InWrite
<1>2. IInv
  BY InitInv
<1>3. \A s \in Sectors : Image(s) = saved
  BY <1>1, <1>2 DEF IInv, CopiesInv, Init, Sectors
<1>4. saved \in Configs \union {NoCfg}
  BY <1>2 DEF IInv, StoreTypeOK
<1>5. QED
  BY <1>1, <1>3, <1>4, MappedToCaller DEF Copies!Init, Copies!Copy, Content, Sectors

LEMMA NextSimulated ==
  ASSUME NEW t, Callers = {t}, IInv, [Next]_vars
  PROVE  [Copies!Next]_Copies!copies
<1>1. CASE WriteConfig(t)
  BY <1>1, BeginSimulated
<1>2. CASE WaitUntilBusy(t) /\ At(t, "wait_wrdi")
  BY <1>2, CopyDoneSimulated
<1>3. CASE ChipStep
  BY <1>3, ChipStepSimulated
<1>4. CASE PowerLoss
  BY <1>4, PowerLossSimulated
<1>5. CASE \/ FlashInit
           \/ Unlock(t) \/ EnableWrite(t) \/ ClearSector(t) \/ ProgramWord(t) \/ DisableWrite(t)
           \/ WaitUntilBusy(t) /\ ~At(t, "wait_wrdi")
           \/ ReadMain(t) \/ ReadReserve(t) \/ \E c \in Configs : Edit(t, c)
  BY <1>5, DriverUnseen
<1>6. CASE UNCHANGED vars
  <2>1. cells' = cells /\ UNCHANGED <<pc, cfg_crc, copy>>
    BY <1>6 DEF vars, chip, caller
  <2>2. \A s \in Sectors : Image(s)' = Image(s)
    BY <2>1, SameCellsSameImage
  <2>3. QED
    BY <2>1, <2>2, Unseen DEF Writing
<1>7. QED
  BY <1>1, <1>2, <1>3, <1>4, <1>5, <1>6 DEF Next, Driver

(* WriteConfig and ReadConfig keep the promise of ConfigCopies: for one     *)
(* caller, and whatever power losses come, the store with its chip is a     *)
(* store of two copies that are rewritten one after the other.              *)
THEOREM ImplementsCopies ==
  ASSUME NEW t, Callers = {t}
  PROVE  Spec => CopiesSpec
<1>1. Init => IInv /\ Copies!Init
  BY InitInv, InitSimulated
<1>2. IInv /\ [Next]_vars => IInv'
  BY NextInv
<1>3. IInv /\ [Next]_vars => [Copies!Next]_Copies!copies
  BY NextSimulated
<1>4. QED
  BY <1>1, <1>2, <1>3, PTL DEF Spec, CopiesSpec, Copies!Spec

-----------------------------------------------------------------------------
(* The tasks that use the store. *)

(* The inductive invariant: no configuration anywhere, nor a word of one on *)
(* the flash or on its way there, has a counter more than one past the      *)
(* highest number sent.                                                     *)
Bounded(v) == v \in Configs => v.counter <= lastSent + 1

TypedInv ==
  /\ cells \in [Sectors -> [WordNo -> WordValue]]
  /\ busy.kind = "program" => busy.val \in WordValue
  /\ device_config \in Configs
  /\ cfg_crc \in [Callers -> Configs]
  /\ DOMAIN pc = Callers
  /\ DOMAIN job = Callers
  /\ packet \in Nat
  /\ lastSent \in -1..MaxCounter

WordsBounded == \A s \in Sectors, w \in WordNo : Bounded(cells[s][w])
BusyBounded == busy.kind = "program" => Bounded(busy.val)
CallsBounded == \A t \in Callers : Writing(t) => Bounded(cfg_crc[t])
PacketSent == "collector" \in Callers /\ job["collector"] = "fans" => packet <= lastSent

SkipInv ==
  /\ TypedInv
  /\ WordsBounded
  /\ BusyBounded
  /\ Bounded(device_config)
  /\ CallsBounded
  /\ PacketSent

(* The fields of a configuration. *)
LEMMA Fields ==
  ASSUME NEW c \in Configs
  PROVE  /\ c.counter \in Nat
         /\ \A s \in Settings : [c EXCEPT !.settings = s] \in Configs
                                /\ [c EXCEPT !.settings = s].counter = c.counter
         /\ \A n \in 0..(MaxCounter + 1) : [c EXCEPT !.counter = n] \in Configs
                                           /\ [c EXCEPT !.counter = n].counter = n
  BY ClientAssumption

LEMMA ReadBounded ==
  ASSUME SkipInv, NEW s \in Sectors, Intact(s)
  PROVE  Image(s) \in Configs /\ Bounded(Image(s))
<1>1. Image(s) \in Configs /\ cells[s] = Whole(Image(s))
  BY WholeOfImage
<1>2. 1 \in WordNo
  BY FlashAssumption DEF WordNo
<1>3. cells[s][1] = Image(s)
  BY <1>1, <1>2 DEF Whole
<1>4. QED
  BY <1>1, <1>2, <1>3 DEF SkipInv, WordsBounded

LEMMA ClientInitInv == ClientInit => SkipInv
<1> SUFFICES ASSUME ClientInit PROVE SkipInv
  OBVIOUS
<1>1. /\ Init /\ packet = 0 /\ lastSent = -1 /\ job = [t \in Callers |-> FirstJob(t)]
      /\ saved # NoCfg => saved.counter = 0
  BY DEF ClientInit
<1>2. cells \in [Sectors -> [WordNo -> WordValue]] /\ WordsBounded
  <2>1. CASE \E c \in Configs : cells = [s \in Sectors |-> Whole(c)] /\ saved = c
    BY <1>1, <2>1, StoreAssumption DEF Whole, WordValue, WordsBounded, Bounded
  <2>2. CASE cells = [s \in Sectors |-> Whole(Blank)]
    BY <2>2, FlashAssumption DEF Whole, WordValue, WordsBounded, Bounded
  <2>3. QED
    BY <1>1, <2>1, <2>2 DEF Init
<1>3. device_config \in Configs /\ Bounded(device_config)
  BY <1>1, StoreAssumption, ClientAssumption DEF Init, Bounded
<1>4. BusyBounded
  BY <1>1 DEF Init, BusyBounded, Ready
<1>5. CallsBounded
  BY <1>1 DEF Init, CallsBounded, Writing, InWrite
<1>6. PacketSent
  BY <1>1 DEF PacketSent, FirstJob
<1>7. /\ busy.kind # "program"
      /\ cfg_crc \in [Callers -> Configs] /\ DOMAIN pc = Callers
      /\ -1 \in -1..MaxCounter
  BY <1>1, StoreAssumption, ClientAssumption DEF Init, Ready
<1>8. QED
  BY <1>1, <1>2, <1>3, <1>4, <1>5, <1>6, <1>7 DEF SkipInv, TypedInv

-----------------------------------------------------------------------------
(* What a step of a driver does to the flash, in terms of counters. *)

(* A step that leaves the flash, the global, the packet and the history     *)
(* alone, and begins no write and no wait for the fans.                     *)
LEMMA Untouched ==
  ASSUME SkipInv, UNCHANGED <<cells, busy, device_config, cfg_crc, packet, lastSent>>,
         DOMAIN pc' = Callers, DOMAIN job' = Callers,
         \A t \in Callers : Writing(t)' => Writing(t),
         "collector" \in Callers /\ job'["collector"] = "fans" => job["collector"] = "fans"
  PROVE  SkipInv'
  BY DEF SkipInv, TypedInv, WordsBounded, BusyBounded, CallsBounded, PacketSent, Bounded,
         WordNo, WordValue

(* ReadConfig assigns what a copy reads as, or nothing. *)
LEMMA ReadKeeps ==
  ASSUME SkipInv, NEW t \in Callers, ReadMain(t) \/ ReadReserve(t),
         UNCHANGED <<packet, lastSent>>, DOMAIN job' = Callers,
         "collector" \in Callers /\ job'["collector"] = "fans" => job["collector"] = "fans"
  PROVE  SkipInv'
<1>1. /\ UNCHANGED <<cells, busy, cfg_crc>>
      /\ DOMAIN pc' = Callers
      /\ \A u \in Callers : Writing(u)' => Writing(u)
  BY DEF ReadMain, ReadReserve, Goto, At, Writing, InWrite, chip, SkipInv, TypedInv
<1>2. device_config' \in Configs /\ Bounded(device_config')
  <2>1. device_config' = device_config \/ \E s \in Sectors : Intact(s) /\ device_config' = Image(s)
    BY DEF ReadMain, ReadReserve, Sectors
  <2>2. QED
    BY <2>1, ReadBounded DEF SkipInv, TypedInv
<1>3. Bounded(device_config)'
  BY <1>2 DEF Bounded
<1>4. QED
  BY <1>1, <1>2, <1>3
  DEF SkipInv, TypedInv, WordsBounded, BusyBounded, CallsBounded, PacketSent, Bounded, WordNo, WordValue

(* A word the driver sends belongs to the configuration it is storing. *)
LEMMA ProgramKeeps ==
  ASSUME SkipInv, NEW t \in Callers, ProgramWord(t), UNCHANGED clientVars
  PROVE  SkipInv'
<1>1. /\ UNCHANGED <<cells, device_config, cfg_crc, packet, lastSent, job>>
      /\ Writing(t)
      /\ DOMAIN pc' = Callers
      /\ \A u \in Callers : Writing(u)' => Writing(u)
  BY DEF ProgramWord, CmdAaiFirst, CmdAaiNext, Goto, At, Writing, InWrite, clientVars, SkipInv, TypedInv
<1>2. busy' = busy \/ (busy'.kind = "program" /\ busy'.val \in {cfg_crc[t], Junk})
  <2>1. CASE CmdAaiFirst(Sector(copy[t]), cfg_crc[t])
    <3>1. CASE Obeys /\ wel /\ ~locked
      BY <2>1, <3>1 DEF CmdAaiFirst, Programming, Obeys
    <3>2. CASE ~(Obeys /\ wel /\ ~locked) /\ IsReady /\ aai # NoAai
      <4>1. ProgramNext(Junk)
        BY <2>1, <3>2 DEF CmdAaiFirst
      <4>2. QED
        BY <4>1 DEF ProgramNext, Programming
    <3>3. CASE ~(Obeys /\ wel /\ ~locked) /\ ~(IsReady /\ aai # NoAai)
      BY <2>1, <3>3 DEF CmdAaiFirst
    <3>4. QED
      BY <3>1, <3>2, <3>3
  <2>2. CASE CmdAaiNext(cfg_crc[t])
    BY <2>2 DEF CmdAaiNext, ProgramNext, Programming
  <2>3. QED
    BY <2>1, <2>2 DEF ProgramWord
<1>3. Bounded(cfg_crc[t]) /\ cfg_crc[t] \in Configs /\ Bounded(Junk)
  BY <1>1, FlashAssumption DEF SkipInv, TypedInv, CallsBounded, Bounded
<1>4. busy'.kind = "program" => busy'.val \in WordValue /\ Bounded(busy'.val)
  BY <1>2, <1>3 DEF SkipInv, TypedInv, BusyBounded, WordValue
<1>5. QED
  BY <1>1, <1>4
  DEF SkipInv, TypedInv, WordsBounded, BusyBounded, CallsBounded, PacketSent, Bounded, WordNo, WordValue

LEMMA DriverKeeps ==
  ASSUME SkipInv, NEW t \in Callers, Driver(t), UNCHANGED clientVars
  PROVE  SkipInv'
<1>1. CASE ProgramWord(t)
  BY <1>1, ProgramKeeps
<1>2. CASE ReadReserve(t)
  BY <1>2, ReadKeeps DEF clientVars, SkipInv, TypedInv
<1>3. CASE Unlock(t) \/ EnableWrite(t) \/ DisableWrite(t) \/ WaitUntilBusy(t)
  <2>1. /\ UNCHANGED <<cells, busy, device_config, cfg_crc, packet, lastSent, job>>
        /\ DOMAIN pc' = Callers
    BY <1>3
    DEF Unlock, EnableWrite, DisableWrite, WaitUntilBusy, Return, Goto, At, CmdWriteStatus, CmdWriteEnable,
        CmdWriteDisable, chip, clientVars, SkipInv, TypedInv
  <2>2. \A u \in Callers : Writing(u)' => Writing(u)
    BY <1>3
    DEF Unlock, EnableWrite, DisableWrite, WaitUntilBusy, Return, Goto, At, Writing, InWrite, SkipInv, TypedInv
  <2>3. QED
    BY <2>1, <2>2, Untouched DEF SkipInv, TypedInv
<1>4. CASE ClearSector(t)
  <2>1. /\ UNCHANGED <<cells, device_config, cfg_crc, packet, lastSent, job>>
        /\ DOMAIN pc' = Callers
        /\ \A u \in Callers : Writing(u)' => Writing(u)
        /\ busy'.kind = "program" => busy' = busy
    BY <1>4 DEF ClearSector, CmdErase, Erasing, Goto, At, Writing, InWrite, clientVars, SkipInv, TypedInv
  <2>2. QED
    BY <2>1
    DEF SkipInv, TypedInv, WordsBounded, BusyBounded, CallsBounded, PacketSent, Bounded, WordNo, WordValue
<1>5. QED
  BY <1>1, <1>2, <1>3, <1>4 DEF Driver

(* An operation that ends, or is cut short, leaves words that were there,   *)
(* the word it was programming, blank ones and junk.                        *)
LEMMA WordsKeep ==
  ASSUME SkipInv, Complete \/ CutShort
  PROVE  /\ cells' \in [Sectors -> [WordNo -> WordValue]]
         /\ \A s \in Sectors, w \in WordNo : Bounded(cells'[s][w])
<1> DEFINE left == busy.val
<1>1. /\ cells \in [Sectors -> [WordNo -> WordValue]]
      /\ \A s \in Sectors, w \in WordNo : Bounded(cells[s][w])
      /\ Bounded(Blank) /\ Bounded(Junk) /\ {Blank, Junk} \subseteq WordValue
  BY FlashAssumption DEF SkipInv, TypedInv, WordsBounded, Bounded, WordValue
<1>2. CASE cells' = cells
  BY <1>1, <1>2
<1>3. CASE \E row \in [WordNo -> WordValue] :
             /\ \A w \in WordNo : Bounded(row[w])
             /\ cells' = [cells EXCEPT ![busy.sect] = row]
  BY <1>1, <1>3
<1>4. CASE \E v \in WordValue : Bounded(v) /\ cells' = [cells EXCEPT ![busy.sect][busy.word] = v]
  <2>1. PICK v \in WordValue :
          Bounded(v) /\ cells' = [cells EXCEPT ![busy.sect] = [@ EXCEPT ![busy.word] = v]]
    BY <1>4
  <2>2. CASE busy.sect \in Sectors
    <3> DEFINE row == [cells[busy.sect] EXCEPT ![busy.word] = v]
    <3>1. row \in [WordNo -> WordValue] /\ \A w \in WordNo : Bounded(row[w])
      BY <1>1, <2>1, <2>2
    <3>2. cells' = [cells EXCEPT ![busy.sect] = row]
      BY <2>1
    <3>3. QED
      BY <1>3, <3>1, <3>2
  <2>3. CASE busy.sect \notin Sectors
    BY <1>1, <1>2, <2>1, <2>3
  <2>4. QED
    BY <2>2, <2>3
<1>5. CASE busy.kind = "erase"
  <2>1. CASE Complete
    <3>1. /\ [w \in WordNo |-> Blank] \in [WordNo -> WordValue]
          /\ cells' = [cells EXCEPT ![busy.sect] = [w \in WordNo |-> Blank]]
      BY <1>1, <1>5, <2>1 DEF Complete
    <3>2. QED
      BY <1>1, <1>3, <3>1
  <2>2. CASE CutShort
    <3>1. PICK k \in [WordNo -> {"kept", "blank", "junk"}] :
            cells' = [cells EXCEPT ![busy.sect] =
                        [w \in WordNo |-> CASE k[w] = "kept"  -> cells[busy.sect][w]
                                            [] k[w] = "blank" -> Blank
                                            [] OTHER          -> Junk]]
      BY <1>5, <2>2, Zenon DEF CutShort
    <3>2. CASE busy.sect \in Sectors
      <4> DEFINE row == [w \in WordNo |-> CASE k[w] = "kept"  -> cells[busy.sect][w]
                                            [] k[w] = "blank" -> Blank
                                            [] OTHER          -> Junk]
      <4>1. \A w \in WordNo : row[w] \in WordValue /\ Bounded(row[w])
        BY <1>1, <3>2
      <4>2. row \in [WordNo -> WordValue]
        BY <4>1
      <4>3. QED
        BY <1>3, <3>1, <4>1, <4>2
    <3>3. CASE busy.sect \notin Sectors
      BY <1>1, <1>2, <3>1, <3>3
    <3>4. QED
      BY <3>2, <3>3
  <2>3. QED
    BY <2>1, <2>2
<1>6. CASE busy.kind = "program" /\ busy.word \in WordNo
  <2>1. left \in WordValue /\ Bounded(left)
    BY <1>6 DEF SkipInv, TypedInv, BusyBounded
  <2>2. CASE busy.sect \in Sectors
    <3>1. \E v \in {cells[busy.sect][busy.word], Junk, Burn(cells[busy.sect][busy.word], left)} :
            cells' = [cells EXCEPT ![busy.sect][busy.word] = v]
      BY <1>1, <1>6, <2>2 DEF Complete, CutShort
    <3>2. \A v \in {cells[busy.sect][busy.word], Junk, Burn(cells[busy.sect][busy.word], left)} :
            v \in WordValue /\ Bounded(v)
      BY <1>1, <1>6, <2>1, <2>2 DEF Burn
    <3>3. QED
      BY <1>4, <3>1, <3>2
  <2>3. CASE busy.sect \notin Sectors
    <3>1. cells' = cells
      BY <1>1, <1>6, <2>3 DEF Complete, CutShort
    <3>2. QED
      BY <1>2, <3>1
  <2>4. QED
    BY <2>2, <2>3
<1>7. CASE busy.kind # "erase" /\ ~(busy.kind = "program" /\ busy.word \in WordNo)
  <2>1. cells' = cells
    BY <1>7 DEF Complete, CutShort
  <2>2. QED
    BY <1>2, <2>1
<1>8. QED
  BY <1>5, <1>6, <1>7

LEMMA ChipKeeps ==
  ASSUME SkipInv, ChipStep, UNCHANGED clientVars
  PROVE  SkipInv'
<1>1. /\ cells' \in [Sectors -> [WordNo -> WordValue]]
      /\ \A s \in Sectors, w \in WordNo : Bounded(cells'[s][w])
  BY WordsKeep DEF ChipStep
<1>2. /\ busy'.kind # "program"
      /\ UNCHANGED <<device_config, pc, cfg_crc, packet, lastSent, job>>
  BY DEF ChipStep, Complete, Ready, caller, clientVars
<1>3. QED
  BY <1>1, <1>2
  DEF SkipInv, TypedInv, WordsBounded, BusyBounded, CallsBounded, PacketSent, Bounded, Writing, WordNo, WordValue

(* After a loss of power nothing is under way, and RAM is zero again.       *)
LEMMA RestartKeeps ==
  ASSUME SkipInv, Restart
  PROVE  SkipInv'
<1>1. /\ cells' \in [Sectors -> [WordNo -> WordValue]]
      /\ \A s \in Sectors, w \in WordNo : Bounded(cells'[s][w])
  BY WordsKeep DEF Restart, PowerLoss, PowerUp
<1>2. /\ busy'.kind # "program"
      /\ device_config' = ZeroCfg /\ UNCHANGED <<cfg_crc, lastSent>> /\ packet' = 0
      /\ pc' = [t \in Callers |-> "idle"]
      /\ job' = [t \in Callers |-> FirstJob(t)]
  BY DEF Restart, PowerLoss, PowerUp, Ready
<1>3. ZeroCfg \in Configs /\ ZeroCfg.counter = 0 /\ lastSent \in -1..MaxCounter
  BY StoreAssumption, ClientAssumption DEF SkipInv, TypedInv
<1>4. Bounded(device_config)' /\ CallsBounded' /\ PacketSent'
  BY <1>2, <1>3 DEF Bounded, CallsBounded, PacketSent, Writing, InWrite, FirstJob
<1>5. TypedInv'
  BY <1>1, <1>2, <1>3 DEF SkipInv, TypedInv, WordNo, WordValue
<1>6. QED
  BY <1>1, <1>2, <1>4, <1>5 DEF SkipInv, WordsBounded, BusyBounded, Bounded, WordNo

(* WriteConfig stores the global as it is. *)
LEMMA WriteKeeps ==
  ASSUME SkipInv, NEW t \in Callers, WriteConfig(t), UNCHANGED <<packet, lastSent>>,
         DOMAIN job' = Callers,
         "collector" \in Callers /\ job'["collector"] = "fans" => job["collector"] = "fans"
  PROVE  SkipInv'
<1>1. /\ UNCHANGED <<cells, busy, device_config>>
      /\ cfg_crc' = [cfg_crc EXCEPT ![t] = device_config]
      /\ DOMAIN pc' = Callers
      /\ \A u \in Callers : Writing(u)' => Writing(u) \/ u = t
  BY DEF WriteConfig, Goto, At, Writing, InWrite, chip, SkipInv, TypedInv
<1>2. cfg_crc' \in [Callers -> Configs] /\ CallsBounded'
  BY <1>1 DEF SkipInv, TypedInv, CallsBounded, Bounded
<1>3. QED
  BY <1>1, <1>2
  DEF SkipInv, TypedInv, WordsBounded, BusyBounded, PacketSent, Bounded, WordNo, WordValue

-----------------------------------------------------------------------------
(* The steps of the two tasks. *)

LEMMA SendKeeps ==
  ASSUME SkipInv, SendPacket
  PROVE  SkipInv'
<1>1. /\ UNCHANGED <<cells, busy, cfg_crc, pc, device_config>>
      /\ packet' = device_config.counter
      /\ lastSent' = IF device_config.counter > lastSent THEN device_config.counter ELSE lastSent
      /\ device_config.counter <= MaxCounter
      /\ DOMAIN job' = Callers
  BY DEF SendPacket, Job, StoreIdle, chip, caller, SkipInv, TypedInv
<1>2. device_config.counter \in Nat /\ lastSent \in -1..MaxCounter /\ device_config \in Configs
  BY Fields DEF SkipInv, TypedInv
<1>3. /\ packet' \in Nat /\ packet' <= lastSent'
      /\ lastSent' \in -1..MaxCounter /\ lastSent <= lastSent'
  BY <1>1, <1>2, ClientAssumption
<1>4. \A c \in Configs : c.counter <= lastSent + 1 => c.counter <= lastSent' + 1
  BY <1>2, <1>3, Fields
<1>5. TypedInv'
  BY <1>1, <1>3 DEF SkipInv, TypedInv, WordNo, WordValue
<1>6. WordsBounded' /\ BusyBounded' /\ CallsBounded' /\ Bounded(device_config)'
  BY <1>1, <1>4
  DEF SkipInv, TypedInv, WordsBounded, BusyBounded, CallsBounded, Bounded, Writing, WordNo
<1>7. QED
  BY <1>3, <1>5, <1>6 DEF SkipInv, PacketSent

LEMMA CountKeeps ==
  ASSUME SkipInv, CountPacket
  PROVE  SkipInv'
<1>1. /\ UNCHANGED <<cells, busy, cfg_crc, pc, packet, lastSent>>
      /\ device_config' = [device_config EXCEPT !.counter = packet + 1]
      /\ packet <= lastSent
      /\ DOMAIN job' = Callers /\ ("collector" \in Callers => job'["collector"] # "fans")
  BY DEF CountPacket, Job, StoreIdle, chip, caller, SkipInv, TypedInv, PacketSent
<1>2. packet + 1 \in 0..(MaxCounter + 1) /\ lastSent \in Int
  BY <1>1, ClientAssumption DEF SkipInv, TypedInv
<1>3. device_config' \in Configs /\ device_config'.counter = packet + 1
  BY <1>1, <1>2, Fields DEF SkipInv, TypedInv
<1>4. Bounded(device_config)'
  BY <1>1, <1>2, <1>3 DEF Bounded, SkipInv, TypedInv
<1>5. QED
  BY <1>1, <1>3, <1>4
  DEF SkipInv, TypedInv, WordsBounded, BusyBounded, CallsBounded, PacketSent, Bounded, Writing, WordNo, WordValue

(* A post changes settings only. *)
LEMMA FillKeeps ==
  ASSUME SkipInv, NEW s \in Settings, Fill(s)
  PROVE  SkipInv'
<1>1. /\ UNCHANGED <<cells, busy, cfg_crc, pc, packet, lastSent>>
      /\ device_config' = [device_config EXCEPT !.settings = s]
      /\ DOMAIN job' = Callers
      /\ "collector" \in Callers => job'["collector"] = job["collector"]
  BY DEF Fill, Job, StoreIdle, chip, caller, SkipInv, TypedInv
<1>2. device_config' \in Configs /\ device_config'.counter = device_config.counter
  BY <1>1, Fields DEF SkipInv, TypedInv
<1>3. Bounded(device_config)'
  BY <1>1, <1>2 DEF Bounded, SkipInv, TypedInv
<1>4. QED
  BY <1>1, <1>2, <1>3
  DEF SkipInv, TypedInv, WordsBounded, BusyBounded, CallsBounded, PacketSent, Bounded, Writing, WordNo, WordValue

LEMMA ReplyKeeps ==
  ASSUME SkipInv, Reply
  PROVE  SkipInv'
<1>1. /\ UNCHANGED <<cells, busy, cfg_crc, pc, packet, lastSent, device_config>>
      /\ DOMAIN job' = Callers
      /\ "collector" \in Callers => job'["collector"] = job["collector"]
  BY DEF Reply, Job, StoreIdle, chip, caller, SkipInv, TypedInv
<1>2. QED
  BY <1>1, Untouched DEF Writing, SkipInv, TypedInv

LEMMA ClientNextInv == SkipInv /\ [ClientNext]_allVars => SkipInv'
<1> SUFFICES ASSUME SkipInv, [ClientNext]_allVars PROVE SkipInv'
  OBVIOUS
<1>1. CASE CollectorRead
  <2>1. /\ "collector" \in Callers /\ ReadMain("collector") /\ UNCHANGED <<packet, lastSent>>
        /\ DOMAIN job' = Callers /\ job'["collector"] # "fans"
    BY <1>1 DEF CollectorRead, Job, SkipInv, TypedInv
  <2>2. QED
    BY <2>1, ReadKeeps
<1>2. CASE WifiRead
  <2>1. /\ "wifi" \in Callers /\ ReadMain("wifi") /\ UNCHANGED <<packet, lastSent>>
        /\ DOMAIN job' = Callers
        /\ "collector" \in Callers => job'["collector"] = job["collector"]
    BY <1>2 DEF WifiRead, Job, SkipInv, TypedInv
  <2>2. QED
    BY <2>1, ReadKeeps
<1>3. CASE CollectorWrite
  <2>1. /\ "collector" \in Callers /\ WriteConfig("collector") /\ UNCHANGED <<packet, lastSent>>
        /\ DOMAIN job' = Callers /\ job'["collector"] # "fans"
    BY <1>3 DEF CollectorWrite, Job, SkipInv, TypedInv
  <2>2. QED
    BY <2>1, WriteKeeps
<1>4. CASE WifiWrite
  <2>1. /\ "wifi" \in Callers /\ WriteConfig("wifi") /\ UNCHANGED <<packet, lastSent>>
        /\ DOMAIN job' = Callers
        /\ "collector" \in Callers => job'["collector"] = job["collector"]
    BY <1>4 DEF WifiWrite, Job, SkipInv, TypedInv
  <2>2. QED
    BY <2>1, WriteKeeps
<1>5. CASE SendPacket \/ CountPacket \/ Reply \/ \E s \in Settings : Fill(s)
  BY <1>5, SendKeeps, CountKeeps, ReplyKeeps, FillKeeps
<1>6. CASE FlashInit /\ UNCHANGED clientVars
  <2>1. /\ UNCHANGED <<cells, busy, device_config, cfg_crc, pc, packet, lastSent, job>>
    BY <1>6 DEF FlashInit, CmdWriteStatus, caller, clientVars
  <2>2. QED
    BY <2>1, Untouched DEF Writing, SkipInv, TypedInv
<1>7. CASE ChipStep /\ UNCHANGED clientVars
  BY <1>7, ChipKeeps
<1>8. CASE (\E t \in Callers : Driver(t)) /\ UNCHANGED clientVars
  BY <1>8, DriverKeeps
<1>9. CASE Restart
  BY <1>9, RestartKeeps
<1>10. CASE UNCHANGED allVars
  <2>1. UNCHANGED <<cells, busy, device_config, cfg_crc, pc, packet, lastSent, job>>
    BY <1>10 DEF allVars, vars, chip, caller, clientVars
  <2>2. QED
    BY <2>1, Untouched DEF Writing, SkipInv, TypedInv
<1>11. QED
  BY <1>1, <1>2, <1>3, <1>4, <1>5, <1>6, <1>7, <1>8, <1>9, <1>10 DEF ClientNext

(* data_collector.c: packet numbers never skip one, whatever both tasks do  *)
(* to the configuration at the same time and whenever power is lost, even   *)
(* though a torn or mixed image may be stored: no word of the flash ever    *)
(* carries a counter that is further ahead.                                 *)
THEOREM PacketsNumbered == ClientSpec => []NoSkippedPacket
<1>1. SkipInv => NoSkippedPacket
  <2> SUFFICES ASSUME SkipInv PROVE NoSkippedPacket
    OBVIOUS
  <2>1. device_config \in Configs /\ cfg_crc \in [Callers -> Configs]
    BY DEF SkipInv, TypedInv
  <2>2. QED
    BY <2>1, ReadBounded DEF SkipInv, CallsBounded, Bounded, NoSkippedPacket
<1>2. QED
  BY <1>1, ClientInitInv, ClientNextInv, PTL DEF ClientSpec
=============================================================================

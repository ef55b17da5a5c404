----------------------------- MODULE ConfigStore -----------------------------
(***************************************************************************)
(* config_board.c over flash_SST25VF016B.c: WriteConfig rewrites a main    *)
(* and then a reserve copy of the device configuration, ReadConfig takes   *)
(* the first copy whose CRC matches.  Power may be lost between any two    *)
(* chip commands and in the middle of a chip operation.                    *)
(*                                                                         *)
(* Callers are the tasks that call these functions; nothing in the code    *)
(* keeps two of them apart, so the steps of their calls interleave.  The   *)
(* CRC is taken to be exact: a copy passes only when it is one image.      *)
(***************************************************************************)
EXTENDS SpiFlash

CONSTANTS
  Callers,  \* tasks that call ReadConfig and WriteConfig
  ZeroCfg,  \* device_config as .bss leaves it
  NoCfg     \* the result of reading when no copy passes its CRC

ASSUME StoreAssumption ==
  /\ ZeroCfg \in Configs
  /\ NoCfg \notin Configs

VARIABLES
  up,             \* Flash_Init has run since the last power-up
  device_config,  \* the global both callers read into and write from
  pc,             \* where each caller is inside its call
  cfg_crc,        \* the by-value copy each WriteConfig is storing
  copy,           \* the copy each caller is at
  word,           \* the AAI word each caller sends next
  saved,          \* history: the value of the last WriteConfig that returned
  attempted,      \* history: values of the writes begun since then
  torn            \* history: the copies being rewritten when power was lost since then

caller == <<pc, cfg_crc, copy, word>>
history == <<saved, attempted, torn>>
vars == <<chip, up, device_config, caller, history>>

Whole(c) == [w \in WordNo |-> c]
Intact(s) == \E c \in Configs : cells[s] = Whole(c)
Image(s) == IF Intact(s) THEN CHOOSE c \in Configs : cells[s] = Whole(c) ELSE NoCfg

(* What ReadConfig finds on a quiet chip: the main copy, else the reserve. *)
Stored == IF Intact("main") THEN Image("main") ELSE Image("reserve")

InWrite == {"unlock", "wren_erase", "erase", "wait_erase", "wren_program",
            "program", "wait_program", "wrdi", "wait_wrdi"}
InRead == {"read"}
Writing(t) == pc[t] \in InWrite
AllIdle == \A t \in Callers : pc[t] = "idle"

StoreTypeOK ==
  /\ ChipTypeOK
  /\ up \in BOOLEAN
  /\ device_config \in Configs
  /\ pc \in [Callers -> {"idle"} \union InWrite \union InRead]
  /\ cfg_crc \in [Callers -> Configs]
  /\ copy \in [Callers -> Sectors]
  /\ word \in [Callers -> 1..(Words + 1)]
  /\ saved \in Configs \union {NoCfg}
  /\ attempted \subseteq Configs
  /\ torn \subseteq Sectors

(* A device that was configured, or one whose flash was never written. *)
Init ==
  /\ \/ \E c \in Configs : cells = [s \in Sectors |-> Whole(c)] /\ saved = c
     \/ cells = [s \in Sectors |-> Whole(Blank)] /\ saved = NoCfg
  /\ wel = FALSE /\ locked = TRUE /\ aai = NoAai /\ busy = Ready
  /\ up = FALSE
  /\ device_config = ZeroCfg
  /\ pc = [t \in Callers |-> "idle"]
  /\ cfg_crc = [t \in Callers |-> ZeroCfg]
  /\ copy = [t \in Callers |-> "main"]
  /\ word = [t \in Callers |-> 1]
  /\ attempted = {} /\ torn = {}

-----------------------------------------------------------------------------

(* ADDRESS_CFG_START and ADDRESS_CFG_START_RESERV are two sectors, and the  *)
(* reserve copy is the second one written.                                  *)
SectorBug(s) == "main"
Sector(s) == s
LastCopyBug(s) == s = "main"
LastCopy(s) == s = "reserve"

(* The AAI loop sends words up to the last one of the image. *)
MoreWordsBug(k) == k <= Words + 1
MoreWords(k) == k <= Words

Goto(t, l) == pc' = [pc EXCEPT ![t] = l]
At(t, l) == up /\ pc[t] = l

(* Flash_Init, before any task that uses the flash is created. *)
FlashInit ==
  /\ ~up
  /\ up' = TRUE
  /\ CmdWriteStatus
  /\ UNCHANGED <<device_config, caller, history>>

(* WriteConfig(device_config): the argument is copied before the first command. *)
WriteConfig(t) ==
  /\ At(t, "idle")
  /\ cfg_crc' = [cfg_crc EXCEPT ![t] = device_config]
  /\ copy' = [copy EXCEPT ![t] = "main"]
  /\ attempted' = attempted \union {device_config}
  /\ Goto(t, "unlock")
  /\ UNCHANGED <<chip, up, device_config, word, saved, torn>>

(* WriteToStatusRegister(0) *)
Unlock(t) ==
  /\ At(t, "unlock")
  /\ CmdWriteStatus
  /\ Goto(t, "wren_erase")
  /\ UNCHANGED <<up, device_config, cfg_crc, copy, word, history>>

EnableWriteBug(t) ==
  /\ \/ At(t, "wren_erase") /\ Goto(t, "erase") /\ CmdWriteEnable
     \/ At(t, "wren_program") /\ Goto(t, "program") /\ UNCHANGED chip
  /\ UNCHANGED <<up, device_config, cfg_crc, copy, word, history>>

(* EnableWrite, at the head of ClearSector and of WriteDataArrayWithAAI *)
EnableWrite(t) ==
  /\ \/ At(t, "wren_erase") /\ Goto(t, "erase")
     \/ At(t, "wren_program") /\ Goto(t, "program")
  /\ CmdWriteEnable
  /\ UNCHANGED <<up, device_config, cfg_crc, copy, word, history>>

ClearSectorNoWait(t) ==
  /\ At(t, "erase")
  /\ CmdErase(Sector(copy[t]))
  /\ Goto(t, "wren_program")
  /\ word' = [word EXCEPT ![t] = 1]
  /\ UNCHANGED <<up, device_config, cfg_crc, copy, history>>

(* ClearSector(address of the copy) *)
ClearSector(t) ==
  /\ At(t, "erase")
  /\ CmdErase(Sector(copy[t]))
  /\ Goto(t, "wait_erase")
  /\ UNCHANGED <<up, device_config, cfg_crc, copy, word, history>>

(* WriteDataArrayWithAAI: the first word goes with the address, the others follow. *)
ProgramWord(t) ==
  /\ At(t, "program")
  /\ IF word[t] = 1 THEN CmdAaiFirst(Sector(copy[t]), cfg_crc[t]) ELSE CmdAaiNext(cfg_crc[t])
  /\ word' = [word EXCEPT ![t] = @ + 1]
  /\ Goto(t, "wait_program")
  /\ UNCHANGED <<up, device_config, cfg_crc, copy, history>>

(* DisableWrite *)
DisableWrite(t) ==
  /\ At(t, "wrdi")
  /\ CmdWriteDisable
  /\ Goto(t, "wait_wrdi")
  /\ UNCHANGED <<up, device_config, cfg_crc, copy, word, history>>

(* waitUntilBusy returns once the status register shows BUSY low; after    *)
(* the last wait of a copy comes the reserve copy, or the return.          *)
Return(t) ==
  /\ Goto(t, "idle")
  /\ saved' = cfg_crc[t]
  /\ attempted' = {}
  /\ torn' = {}
  /\ UNCHANGED <<copy, word>>

WaitUntilBusy(t) ==
  /\ IsReady
  /\ \/ /\ At(t, "wait_erase")
        /\ Goto(t, "wren_program")
        /\ word' = [word EXCEPT ![t] = 1]
        /\ UNCHANGED <<copy, history>>
     \/ /\ At(t, "wait_program")
        /\ Goto(t, IF MoreWords(word[t]) THEN "program" ELSE "wrdi")
        /\ UNCHANGED <<copy, word, history>>
     \/ /\ At(t, "wait_wrdi") /\ ~LastCopy(copy[t])
        /\ Goto(t, "unlock")
        /\ copy' = [copy EXCEPT ![t] = "reserve"]
        /\ UNCHANGED <<word, history>>
     \/ At(t, "wait_wrdi") /\ LastCopy(copy[t]) /\ Return(t)
  /\ UNCHANGED <<chip, up, device_config, cfg_crc>>

(* ReadConfig(&device_config): a read command the chip does not obey gives *)
(* bytes that fail the CRC; when neither copy passes, nothing is assigned. *)
ReadMain(t) ==
  /\ At(t, "idle")
  /\ IF Obeys /\ Intact("main")
     THEN device_config' = Image("main") /\ UNCHANGED pc
     ELSE Goto(t, "read") /\ UNCHANGED device_config
  /\ UNCHANGED <<chip, up, cfg_crc, copy, word, history>>

ReadReserve(t) ==
  /\ At(t, "read")
  /\ device_config' = IF Obeys /\ Intact("reserve") THEN Image("reserve") ELSE device_config
  /\ Goto(t, "idle")
  /\ UNCHANGED <<chip, up, cfg_crc, copy, word, history>>

(* A caller assigns to the global between two calls. *)
Edit(t, c) ==
  /\ At(t, "idle")
  /\ device_config' = c
  /\ UNCHANGED <<chip, up, caller, history>>

ChipStep ==
  /\ Complete
  /\ UNCHANGED <<up, device_config, caller, history>>

(* Power is lost and returns: RAM is zeroed, the flash keeps what it has. *)
PowerLoss ==
  /\ PowerUp
  /\ up' = FALSE
  /\ device_config' = ZeroCfg
  /\ pc' = [t \in Callers |-> "idle"]
  /\ torn' = torn \union {copy[t] : t \in {u \in Callers : Writing(u)}}
  /\ UNCHANGED <<cfg_crc, copy, word, saved, attempted>>

Driver(t) ==
  \/ Unlock(t) \/ EnableWrite(t) \/ ClearSector(t) \/ ProgramWord(t)
  \/ DisableWrite(t) \/ WaitUntilBusy(t) \/ ReadReserve(t)

Next ==
  \/ FlashInit
  \/ \E t \in Callers : WriteConfig(t) \/ ReadMain(t) \/ Driver(t)
  \/ \E t \in Callers, c \in Configs : Edit(t, c)
  \/ ChipStep
  \/ PowerLoss

Spec == Init /\ [][Next]_vars

(* A caller inside a call keeps running, and chip operations end; nothing  *)
(* makes a caller start a call, and nothing makes power fail.              *)
FairSpec ==
  /\ Spec
  /\ WF_vars(FlashInit)
  /\ WF_vars(ChipStep)
  /\ \A t \in Callers : WF_vars(Driver(t))

-----------------------------------------------------------------------------

(* Unless power has been lost both in a main and in a reserve rewrite since *)
(* the last write that returned, a device that starts now finds that        *)
(* write's value or one of a later, interrupted write -- never nothing and  *)
(* never an older value.  (With the reserve torn, a write that is rewriting *)
(* the main copy is the one moment when no copy may be intact.)             *)
Durable ==
  \/ torn = Sectors
  \/ "reserve" \in torn /\ ~AllIdle
  \/ Stored \in {saved} \union attempted

(* What WriteConfig leaves behind when it returns: both copies hold its     *)
(* argument, so that one of them can be lost.                               *)
BothCopies ==
  attempted = {} /\ saved # NoCfg => \A s \in Sectors : cells[s] = Whole(saved)

(* A write that is not interrupted returns, and leaves both copies equal to *)
(* its argument.                                                            *)
WriteCompletes ==
  \A t \in Callers, c \in Configs :
    pc[t] = "unlock" /\ cfg_crc[t] = c ~>
      ~up \/ (pc[t] = "idle" /\ \A s \in Sectors : cells[s] = Whole(c))

(* For one caller, the store is a store of two copies: ConfigCopies.  The   *)
(* chip, its latch, its AAI mode and the words of an image disappear.       *)
Writer == CHOOSE t \in Callers : Writing(t)
InProgress == \E t \in Callers : Writing(t)

Content == [s \in Sectors |-> Image(s)]
BeingStored == IF InProgress THEN cfg_crc[Writer] ELSE NoCfg
InTurn == IF InProgress THEN copy[Writer] ELSE "main"

Copies == INSTANCE ConfigCopies WITH
  content <- Content, writing <- BeingStored, phase <- InTurn

CopiesSpec == Copies!Spec
=============================================================================

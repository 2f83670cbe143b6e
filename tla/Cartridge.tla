------------------------------ MODULE Cartridge ------------------------------
(***************************************************************************)
(* A cartridge (cartridge/mod.rs, builder.rs) with one kind of backup      *)
(* memory behind its bus, or with a clock behind its port.  The kinds      *)
(* share nothing, so a run has one of them and the others stay as new.     *)
(***************************************************************************)
EXTENDS Eeprom, Flash, Rtc

CONSTANT Media   \* the BackupTypes and devices to consider

ASSUME MediaAssumption == Media \subseteq {"Eeprom", "Sram", "Flash512", "Flash1M", "Rtc"}

VARIABLE medium

cartridgeVars == <<vars, flashVars, rtcVars, medium>>

\* create_backup: the memory of the type that the builder found or was given.
FlashSizeOf(type) == IF type = "Flash1M" THEN 2 ELSE 1

NoEeprom ==
  /\ chip = NewChip(Eeprom512) /\ detect = TRUE /\ game = Eeprom512
  /\ wire = <<>> /\ fetching = 0 /\ asked = Nothing /\ answer = 0
  /\ snapshot = NoState /\ latest = NothingKept

NoFlash ==
  /\ saved_game = "none" /\ flash = NewFlash(1) /\ bus = <<>> /\ doing = NoChange
  /\ view = ClearView /\ fsnapshot = NoFlashState /\ holds = <<>>

CartridgeInit ==
  /\ medium \in Media
  /\ \/ medium = "Eeprom" /\ SessionsInit /\ NoFlash
     \/ /\ medium \in {"Sram", "Flash512", "Flash1M"} /\ NoEeprom
        /\ FlashInit(IF medium = "Sram" THEN medium ELSE "Flash", FlashSizeOf(medium))
     \/ /\ medium = "Rtc" /\ NoEeprom /\ NoFlash
        /\ process = "on" /\ path = FALSE /\ file = NoFile /\ buffer = NoFile
  /\ RtcProgramInit

CartridgeNext ==
  /\ UNCHANGED medium
  /\ \/ /\ medium = "Eeprom" /\ SessionsNext
        /\ UNCHANGED <<flash, flashGameVars, saved_game, fsnapshot, holds, rtcVars>>
     \/ /\ medium \in {"Sram", "Flash512", "Flash1M"} /\ FlashNext
        /\ UNCHANGED <<chip, detect, game, gameVars, snapshot, latest, rtcVars>>
     \/ /\ medium = "Rtc" /\ RtcNext
        /\ UNCHANGED <<eepromVars, game, gameVars, snapshot, latest, flash, flashGameVars,
                       saved_game, fsnapshot, holds>>

CartridgeSpec == CartridgeInit /\ [][CartridgeNext]_cartridgeVars

\* The bytes a game wrote to flash or SRAM are the bytes it reads (Flash).
BytesAreKept == medium \in {"Sram", "Flash512", "Flash1M"} => FlashKeepsBytes
=============================================================================

-------------------------------- MODULE Flash --------------------------------
(***************************************************************************)
(* core/src/cartridge/backup/flash.rs: flash memory behind a byte-wide     *)
(* bus.  Two magic writes unlock a command, a third gives it, and some     *)
(* take an argument.  Addresses are offsets into the 64K window of a bank; *)
(* the small instance has smaller banks and sectors.                       *)
(***************************************************************************)
EXTENDS BackupFile, Sequences

CONSTANTS SectorSize, BankSize,
          Banks,        \* FlashSize: 1 bank (64K) or 2 (128K), by chip
          CommandAddr, MagicAddr   \* 0x5555 and 0x2AAA

EnterIdMode == \h90
TerminateIdMode == \hf0
Erase == \h80
EraseEntireChip == \h10
EraseSector == \h30
WriteByte == \ha0
SelectBank == \hb0

FlashCommand == {EnterIdMode, TerminateIdMode, Erase, EraseEntireChip, EraseSector, WriteByte, SelectBank}
FlashWriteSequence == {"Initial", "Magic", "Command", "Argument"}
FlashMode == {"Initial", "ChipId", "Erase", "Write", "Select"}
ChipIds == [size \in {1, 2} |-> IF size = 1 THEN \h1cc2 ELSE \h09c2]

ASSUME FlashAssumption ==
  /\ Banks \subseteq {1, 2}
  /\ SectorSize \in Nat \ {0} /\ BankSize \in Nat /\ BankSize % SectorSize = 0
  /\ {CommandAddr, MagicAddr} \subseteq 0..(BankSize - 1) /\ CommandAddr # MagicAddr

VARIABLE flash   \* the chip without its memory

flashChipVars == <<process, flash, backupVars>>

NewFlash(banks) == [banks |-> banks, wrseq |-> "Initial", mode |-> "Initial", bank |-> 0]

FlashNew(banks) ==
  /\ flash' = NewFlash(banks) /\ OpenBackup(banks * BankSize) /\ process' = "on"

flash_offset(addr) == flash.bank * BankSize + addr

FlashBecomes(wrseq, mode) == flash' = [flash EXCEPT !.wrseq = wrseq, !.mode = mode]
MemoryStays == UNCHANGED <<process, backupVars>>
FlashPanic == process' = "panicked" /\ UNCHANGED <<flash, backupVars>>

\* BackupFile::write of each cell in turn; an index beyond the buffer panics.
FillCells(cells, value) ==
  IF cells \subseteq DOMAIN buffer
  THEN LET filled(m) == [i \in DOMAIN m |-> IF i \in cells THEN value ELSE m[i]]
       IN /\ buffer' = filled(buffer)
          /\ file' = IF path THEN filled(file) ELSE file
          /\ UNCHANGED <<process, path>>
  ELSE process' = "panicked" /\ UNCHANGED backupVars

SectorOfChip(addr) ==
  LET first == addr - (addr % SectorSize) IN first..(first + SectorSize - 1)

Sector(addr) ==
  LET first == flash_offset(addr - (addr % SectorSize)) IN first..(first + SectorSize - 1)

SimpleCommand == [c \in {EnterIdMode, TerminateIdMode, Erase, WriteByte, SelectBank} |->
  CASE c = EnterIdMode -> <<"Initial", "ChipId">> [] c = TerminateIdMode -> <<"Initial", "Initial">>
    [] c = Erase -> <<"Initial", "Erase">> [] c = WriteByte -> <<"Argument", "Write">>
    [] OTHER -> <<"Argument", "Select">>]

\* A sector is erased at any address, after Erase or not.
FlashRunsCommand(addr, value) ==
  \/ /\ addr = CommandAddr /\ value \in DOMAIN SimpleCommand
     /\ FlashBecomes(SimpleCommand[value][1], SimpleCommand[value][2]) /\ MemoryStays
  \/ /\ addr = CommandAddr /\ value = EraseEntireChip
     /\ FillCells(IF flash.mode = "Erase" THEN 0..(flash.banks * BankSize - 1) ELSE {}, Erased)
     /\ FlashBecomes("Initial", "Initial")
  \/ /\ value = EraseSector
     /\ FillCells(Sector(addr), Erased) /\ FlashBecomes("Initial", "Initial")
  \/ /\ value \notin FlashCommand \/ (addr # CommandAddr /\ value # EraseSector)
     /\ FlashPanic

FlashUnlocks(addr, value) ==
  \/ /\ flash.wrseq = "Initial"
     /\ FlashBecomes(IF addr = CommandAddr /\ value = \haa THEN "Magic" ELSE "Initial", flash.mode)
  \/ /\ flash.wrseq = "Magic"
     /\ FlashBecomes(IF addr = MagicAddr /\ value = \h55 THEN "Command" ELSE "Magic", flash.mode)

FlashArgument(addr, value) ==
  /\ flash' = [flash EXCEPT !.wrseq = "Initial", !.mode = "Initial",
                            !.bank = IF flash.mode = "Select" /\ addr = 0 THEN value ELSE @]
  /\ IF flash.mode = "Write" THEN FillCells({flash_offset(addr)}, value) ELSE MemoryStays

FlashWrite(addr, value) ==
  \/ FlashUnlocks(addr, value) /\ MemoryStays
  \/ flash.wrseq = "Command" /\ FlashRunsCommand(addr, value)
  \/ flash.wrseq = "Argument" /\ FlashArgument(addr, value)

\* What a read returns; reads beyond the two identification bytes panic.
FlashReadable(addr) ==
  IF flash.mode = "ChipId" THEN addr \in {0, 1} ELSE flash_offset(addr) \in DOMAIN buffer

FlashRead(addr) ==
  IF flash.mode = "ChipId" THEN (ChipIds[flash.banks] \div 256 ^ addr) % 256
  ELSE buffer[flash_offset(addr)]

-----------------------------------------------------------------------------
(***************************************************************************)
(* Play sessions with a flash or SRAM cartridge: a game that unlocks,      *)
(* erases, writes, switches banks and reads, save states taken and loaded  *)
(* between any two of its bus writes, and a process killed between any     *)
(* two of them or in the middle of an erase.                               *)
(***************************************************************************)

CONSTANTS FlashCells,   \* offsets the game writes to
          FlashBytes    \* what it writes there

ASSUME FlashGameAssumption == FlashCells \subseteq 0..(BankSize - 1)

VARIABLES saved_game,  \* "Flash" or "Sram": what the cartridge has
          bus,         \* writes the game has still to make: <<addr, value>>
          doing,       \* what they will have done: cells and the value they get
          view,        \* the game's own idea of the chip: bank and mode
          fsnapshot,   \* a save state, or NoFlashState
          holds        \* history: by cell, the values a read may return

flashGameVars == <<bus, doing, view>>
flashVars == <<flashChipVars, flashGameVars, saved_game, fsnapshot, holds>>

NoFlashState == [taken |-> FALSE]
NoChange == [cells |-> {}, value |-> Erased, bank |-> 0, id |-> FALSE]
ClearView == [bank |-> 0, id |-> FALSE]

FlashIdle == process = "on" /\ bus = <<>>

-----------------------------------------------------------------------------
\* What games write on the bus.
Unlocked(addr, value) == <<<<CommandAddr, \haa>>, <<MagicAddr, \h55>>, <<addr, value>>>>
Command(c) == Unlocked(CommandAddr, c)

Plan(writes, cells, value, bank, id) ==
  /\ FlashIdle /\ saved_game = "Flash"
  /\ bus' = writes
  /\ doing' = [cells |-> cells, value |-> value, bank |-> bank, id |-> id]
  /\ UNCHANGED <<flashChipVars, saved_game, view, fsnapshot, holds>>

Absolute(a) == view.bank * BankSize + a

PlanWrite(a, v) ==
  ~view.id /\ Plan(Command(WriteByte) \o <<<<a, v>>>>, {Absolute(a)}, v, view.bank, FALSE)
PlanEraseSector(a) ==
  /\ ~view.id
  /\ Plan(Command(Erase) \o Unlocked(a, EraseSector),
          LET first == Absolute(a - (a % SectorSize)) IN first..(first + SectorSize - 1),
          Erased, view.bank, FALSE)
PlanEraseChip ==
  ~view.id /\ Plan(Command(Erase) \o Command(EraseEntireChip), DOMAIN holds, Erased, view.bank, FALSE)
PlanBank(b) == ~view.id /\ Plan(Command(SelectBank) \o <<<<0, b>>>>, {}, Erased, b, FALSE)
PlanIdMode(b) ==
  view.id # b /\ Plan(Command(IF b THEN EnterIdMode ELSE TerminateIdMode), {}, Erased, view.bank, b)

Done(cells, value) == [i \in DOMAIN holds |-> IF i \in cells THEN {value} ELSE holds[i]]

WriteBus ==
  /\ process = "on" /\ bus # <<>>
  /\ FlashWrite(Head(bus)[1], Head(bus)[2])
  /\ bus' = Tail(bus)
  /\ IF bus' = <<>>
     THEN /\ holds' = Done(doing.cells, doing.value)
          /\ view' = [bank |-> doing.bank, id |-> doing.id] /\ doing' = NoChange
     ELSE UNCHANGED <<holds, view, doing>>
  /\ UNCHANGED <<saved_game, fsnapshot>>

\* SRAM: BackupFile without a protocol.
SramWrite(a, v) ==
  /\ FlashIdle /\ saved_game = "Sram"
  /\ FillCells({a}, v) /\ holds' = Done({a}, v)
  /\ UNCHANGED <<flash, saved_game, flashGameVars, fsnapshot>>

-----------------------------------------------------------------------------
\* The process.
NothingHeld == [i \in DOMAIN holds |-> {Erased}]
GameForgets == bus' = <<>> /\ doing' = NoChange /\ view' = ClearView

\* Killed between two writes; the part of the memory that an erase was at has
\* the first cells of it erased (KilledWhileErasing).
EndFlashSession ==
  /\ process = "on" /\ process' = "off"
  /\ holds' = IF path THEN holds ELSE NothingHeld
  /\ flash' = NewFlash(flash.banks) /\ buffer' = NoFile
  /\ GameForgets /\ UNCHANGED <<path, file, saved_game, fsnapshot>>

KilledWhileErasing(last) ==
  /\ process = "on" /\ path /\ Len(bus) = 1 /\ Head(bus)[2] \in {EraseSector, EraseEntireChip}
  /\ flash.wrseq = "Command" /\ last \in doing.cells
  /\ file' = [i \in DOMAIN file |-> IF i \in doing.cells /\ i <= last THEN Erased ELSE file[i]]
  /\ holds' = [i \in DOMAIN holds |->
                 IF i \in doing.cells /\ i <= last THEN {Erased} ELSE holds[i]]
  /\ process' = "off" /\ flash' = NewFlash(flash.banks) /\ buffer' = NoFile
  /\ GameForgets /\ UNCHANGED <<path, saved_game, fsnapshot>>

StartFlashSession ==
  /\ process = "off"
  /\ FlashNew(flash.banks)
  /\ UNCHANGED <<flashGameVars, saved_game, fsnapshot, holds>>

SaveFlashState ==
  /\ process = "on" /\ ~fsnapshot.taken
  /\ fsnapshot' = [taken |-> TRUE, flash |-> flash, bus |-> bus, doing |-> doing, view |-> view]
  /\ UNCHANGED <<flashChipVars, saved_game, flashGameVars, holds>>

RestoreFlashState ==
  /\ process = "on" /\ fsnapshot.taken
  /\ flash' = fsnapshot.flash /\ bus' = fsnapshot.bus
  /\ doing' = fsnapshot.doing /\ view' = fsnapshot.view
  /\ OpenBackup(flash.banks * BankSize)
  /\ holds' = IF path THEN holds ELSE NothingHeld
  /\ fsnapshot' = NoFlashState
  /\ UNCHANGED <<process, saved_game>>

-----------------------------------------------------------------------------
FlashInit(medium, banks) ==
  /\ saved_game = medium /\ flash = NewFlash(banks)
  /\ process = "off" /\ path \in BOOLEAN /\ file = NoFile /\ buffer = NoFile
  /\ bus = <<>> /\ doing = NoChange /\ view = ClearView /\ fsnapshot = NoFlashState
  /\ holds = [i \in 0..(banks * BankSize - 1) |-> {Erased}]

FlashGame ==
  \/ \E a \in FlashCells, v \in FlashBytes : PlanWrite(a, v) \/ SramWrite(a, v)
  \/ \E a \in FlashCells : PlanEraseSector(a)
  \/ PlanEraseChip \/ (\E b \in 0..(flash.banks - 1) : PlanBank(b)) \/ (\E b \in BOOLEAN : PlanIdMode(b))
  \/ WriteBus

FlashProcess ==
  \/ EndFlashSession \/ StartFlashSession \/ (\E last \in DOMAIN holds : KilledWhileErasing(last))
  \/ SaveFlashState \/ RestoreFlashState

FlashNext == FlashGame \/ FlashProcess

\* Flash and SRAM (flash.rs command, write, read; backup_file.rs): whatever bank
\* the game believes it has selected, each byte it reads is the one it last wrote
\* or erased there, in this session or an earlier one, also after a process was
\* killed in the middle of an erase and in a loaded state, where the chip and the
\* game go back together and the memory does not.
FlashKeepsBytes ==
  FlashIdle /\ ~view.id => \A a \in 0..(BankSize - 1) :
    FlashReadable(a) /\ FlashRead(a) \in holds[Absolute(a)]
=============================================================================

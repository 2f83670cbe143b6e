------------------------------- MODULE Eeprom --------------------------------
(***************************************************************************)
(* core/src/cartridge/backup/eeprom.rs: a serial EEPROM clocked bit by     *)
(* bit, and the controller that learns its size from the length of the     *)
(* save file or of the first DMA transfer to it.  A memory cell is the     *)
(* 64-bit word of a command; chip.address counts cells, not bytes.         *)
(***************************************************************************)
EXTENDS BackupFile, Sequences, SequencesExt

CONSTANTS AddrBits,   \* EepromType::bits: 6, 14
          Words,      \* EepromType::size in words: 64, 1024
          DataBits,   \* 64, the width of rx_buffer and tx_buffer too
          DummyBits   \* 4

Eeprom512 == "Eeprom512"
Eeprom8k == "Eeprom8k"
EepromType == {Eeprom512, Eeprom8k}

ReadLength(t) == 2 + AddrBits[t] + 1
WriteLength(t) == 2 + AddrBits[t] + DataBits + 1

ASSUME EepromAssumption ==
  /\ AddrBits \in [EepromType -> Nat \ {0}] /\ Words \in [EepromType -> Nat \ {0}]
  /\ DataBits \in Nat /\ DataBits >= 2 /\ DummyBits \in Nat \ {0}
  /\ \A t \in EepromType : AddrBits[t] <= DataBits /\ Words[t] <= 2 ^ AddrBits[t]
  /\ Words[Eeprom512] < Words[Eeprom8k]
  /\ Cardinality(UNION {{ReadLength(t), WriteLength(t)} : t \in EepromType}) = 4
  /\ Cell = 0..(2 ^ DataBits - 1)

VARIABLES chip,       \* EepromChip without its memory
          detect      \* the size is still to be learnt

eepromVars == <<process, chip, detect, backupVars>>

RxInstruction == <<"RxInstruction">>
RxAddress(insn) == <<"RxAddress", insn>>
StopBit(insn) == <<"StopBit", insn>>
RxData == <<"RxData">>
TxDummy == <<"TxDummy">>
TxData == <<"TxData">>

\* EepromChip::new
NewChip(t) ==
  [type |-> t, state |-> RxInstruction, rx_count |-> 0, rx_buffer |-> 0,
   tx_count |-> 0, tx_buffer |-> 0, address |-> 0, ready |-> FALSE]

RxReset(c) == [c EXCEPT !.rx_buffer = 0, !.rx_count = 0]
TxReset(c) == [c EXCEPT !.tx_buffer = 0, !.tx_count = 0]
ResetChip(c) == [TxReset(RxReset(c)) EXCEPT !.state = RxInstruction]

IsTransmitting(c) == c.state \in {TxData, TxDummy}

Panic == process' = "panicked" /\ UNCHANGED <<chip, detect, backupVars>>

ChipBecomes(c) == chip' = c /\ UNCHANGED <<process, detect, backupVars>>

-----------------------------------------------------------------------------
\* clock_data_in, one definition for each arm; c has the new bit shifted in.

ReceiveInstruction(c) ==
  /\ c.state = RxInstruction
  /\ \/ c.rx_count < 2 /\ ChipBecomes(c)
     \/ c.rx_count >= 2 /\ c.rx_buffer = 3 /\ ChipBecomes([RxReset(c) EXCEPT !.state = RxAddress("Read")])
     \/ c.rx_count >= 2 /\ c.rx_buffer = 2 /\ ChipBecomes([RxReset(c) EXCEPT !.state = RxAddress("Write")])
     \/ c.rx_count >= 2 /\ c.rx_buffer \notin {2, 3} /\ Panic

ReceiveAddress(c) ==
  LET addressed == [c EXCEPT !.address = c.rx_buffer] IN
  \/ /\ c.state \in {RxAddress("Read"), RxAddress("Write")} /\ c.rx_count # AddrBits[c.type]
     /\ ChipBecomes(c)
  \/ /\ c.state = RxAddress("Read") /\ c.rx_count = AddrBits[c.type]
     /\ ChipBecomes([addressed EXCEPT !.state = StopBit("Read")])
  \/ /\ c.state = RxAddress("Write") /\ c.rx_count = AddrBits[c.type]
     /\ ChipBecomes([RxReset(addressed) EXCEPT !.state = RxData, !.ready = FALSE])

StopRead(c) ==
  /\ c.state = StopBit("Read")
  /\ ChipBecomes([TxReset(RxReset(c)) EXCEPT !.state = TxDummy])

\* The word is stored with its last data bit, before the stop bit.
ReceiveData(c) ==
  /\ c.state = RxData
  /\ \/ c.rx_count # DataBits /\ ChipBecomes(c)
     \/ /\ c.rx_count = DataBits /\ c.address \in DOMAIN buffer
        /\ WriteBackup(c.address, c.rx_buffer)
        /\ chip' = [RxReset(c) EXCEPT !.state = StopBit("Write")]
        /\ UNCHANGED <<process, detect>>
     \/ c.rx_count = DataBits /\ c.address \notin DOMAIN buffer /\ Panic

StopWrite(c) ==
  /\ c.state = StopBit("Write")
  /\ ChipBecomes([ResetChip(c) EXCEPT !.ready = TRUE])

IgnoreBit(c) == IsTransmitting(c) /\ ChipBecomes(c)

ShiftedIn(si) ==
  [chip EXCEPT !.rx_buffer = (2 * @ + si) % 2 ^ DataBits, !.rx_count = @ + 1]

\* EepromController::write_half
WriteHalf(si) ==
  \/ detect /\ Panic
  \/ /\ ~detect
     /\ LET c == ShiftedIn(si)
        IN \/ ReceiveInstruction(c) \/ ReceiveAddress(c) \/ StopRead(c)
           \/ ReceiveData(c) \/ StopWrite(c) \/ IgnoreBit(c)

-----------------------------------------------------------------------------
\* clock_data_out: the bit, and what it does to the chip.

OutBit ==
  CASE chip.state = TxDummy -> 0
    [] chip.state = TxData -> chip.tx_buffer \div 2 ^ (DataBits - 1)
    [] OTHER -> IF chip.ready THEN 1 ELSE 0

SendDummy ==
  /\ chip.state = TxDummy
  /\ LET c == [chip EXCEPT !.tx_count = @ + 1]
     IN \/ c.tx_count # DummyBits /\ ChipBecomes(c)
        \/ /\ c.tx_count = DummyBits /\ chip.address \in DOMAIN buffer
           /\ ChipBecomes([c EXCEPT !.state = TxData, !.tx_buffer = buffer[chip.address], !.tx_count = 0])
        \/ c.tx_count = DummyBits /\ chip.address \notin DOMAIN buffer /\ Panic

SendData ==
  /\ chip.state = TxData
  /\ LET c == [chip EXCEPT !.tx_buffer = (2 * @) % 2 ^ DataBits, !.tx_count = @ + 1]
     IN ChipBecomes(IF c.tx_count = DataBits THEN ResetChip(c) ELSE c)

SendReady == ~IsTransmitting(chip) /\ ChipBecomes(chip)

\* EepromController::read_half
ReadHalf ==
  \/ detect /\ Panic
  \/ ~detect /\ (SendDummy \/ SendData \/ SendReady)

-----------------------------------------------------------------------------
\* EepromController::on_dma3_transfer, before the first half-word moves.

TypeOfRead(count) == {t \in EepromType : count = ReadLength(t)}
TypeOfTransfer(count) == {t \in EepromType : count \in {ReadLength(t), WriteLength(t)}}

LearnType(count) ==
  \/ /\ TypeOfTransfer(count) # {}
     /\ LET t == CHOOSE t \in TypeOfTransfer(count) : TRUE
        IN chip' = [chip EXCEPT !.type = t] /\ ResizeBackup(Words[t])
     /\ detect' = FALSE /\ UNCHANGED process
  \/ TypeOfTransfer(count) = {} /\ Panic

ResetWhatever == ChipBecomes(ResetChip(chip))
ResetIfDirty == ChipBecomes(IF IsTransmitting(chip) THEN chip ELSE ResetChip(chip))

OnDma3Transfer(where, count) ==
  \/ detect /\ where = "to" /\ LearnType(count)
  \/ detect /\ where = "from" /\ Panic
  \/ detect /\ where = "elsewhere" /\ UNCHANGED eepromVars
  \/ ~detect /\ ResetIfDirty

-----------------------------------------------------------------------------
\* EepromController::new, when a session starts.
NewEeprom ==
  /\ path' = path
  /\ IF path /\ file # NoFile
     THEN IF Length(file) \in {Words[t] : t \in EepromType}
          THEN LET t == CHOOSE t \in EepromType : Words[t] = Length(file)
               IN process' = "on" /\ detect' = FALSE /\ chip' = NewChip(t) /\ OpenBackup(Words[t])
          ELSE Panic
     ELSE /\ process' = "on" /\ detect' = TRUE
          /\ chip' = NewChip(Eeprom512) /\ OpenBackup(Words[Eeprom512])

EepromInit ==
  /\ process = "off" /\ chip = NewChip(Eeprom512) /\ detect = TRUE
  /\ path \in BOOLEAN /\ file = NoFile /\ buffer = NoFile

-----------------------------------------------------------------------------
(***************************************************************************)
(* Play sessions with an EEPROM cartridge: a game that moves whole         *)
(* commands with 16-bit DMA 3 and polls for the end of a write, save       *)
(* states, and a process that can be killed between any two bits and       *)
(* started again.                                                          *)
(***************************************************************************)

CONSTANTS GameAddresses,   \* word addresses the game uses, by the type it is written for
          GameWords,       \* words it writes, by address
          PartLengths,     \* bits of a command that a test ROM breaks off
          FetchLengths,    \* bits it reads of an answer
          EarlyQuits,      \* a session may end with a file and the size still unknown
          EarlyStates      \* a save state may be loaded that disagrees with the file's size

ASSUME SessionAssumption ==
  /\ \A t \in EepromType : GameAddresses[t] \subseteq 0..(Words[t] - 1)
  /\ \A t \in EepromType : GameWords[t] \in [GameAddresses[t] -> SUBSET Cell]
  /\ \A n \in PartLengths, t \in EepromType : n \in Nat \ {0} /\ n < WriteLength(t) - 1
  /\ FetchLengths \subseteq 1..(DummyBits + DataBits)
  /\ {EarlyQuits, EarlyStates} \subseteq BOOLEAN

VARIABLES game,        \* the EepromType the game was written for
          wire,        \* bits the current DMA transfer has still to write
          fetching,    \* bits it has still to read
          asked,       \* the request the game is waiting on
          answer,      \* the last DataBits bits read
          snapshot,    \* a save state, or NoState
          latest       \* history: by address, the words a read may return

gameVars == <<wire, fetching, asked, answer>>
vars == <<eepromVars, game, gameVars, snapshot, latest>>

Nothing == <<"nothing">>
AskedRead(a) == <<"read", a>>
AskedWrite(a, w) == <<"write", a, w>>
NoState == [taken |-> FALSE]

Bits(value, n) == [i \in 1..n |-> (value \div 2 ^ (n - i)) % 2]
ReadRequest(a) == <<1, 1>> \o Bits(a, AddrBits[game]) \o <<0>>
WriteRequest(a, w) == <<1, 0>> \o Bits(a, AddrBits[game]) \o Bits(w, DataBits) \o <<0>>

Idle == process = "on" /\ wire = <<>> /\ fetching = 0
MayAsk == Idle /\ asked = Nothing

NothingUnderWay == wire' = <<>> /\ fetching' = 0 /\ asked' = Nothing /\ answer' = 0

-----------------------------------------------------------------------------
\* DmaChannel::transfer: on_dma3_transfer, then the half-words one by one.

Send(bits, request) ==
  /\ OnDma3Transfer("to", Len(bits))
  /\ wire' = bits /\ asked' = request /\ answer' = 0
  /\ UNCHANGED <<fetching, game, snapshot, latest>>

AskRead(a) == MayAsk /\ Send(ReadRequest(a), AskedRead(a))
AskWrite(a, w) == MayAsk /\ Send(WriteRequest(a, w), AskedWrite(a, w))

\* A test ROM that stops in the middle of a command, before anything is stored.
AskInPart(a, w, n) ==
  /\ MayAsk /\ ~detect
  /\ Send(SubSeq(WriteRequest(a, w), 1, n), Nothing)

Fetch(n) ==
  /\ Idle /\ asked[1] = "read"
  /\ OnDma3Transfer("from", n)
  /\ fetching' = n
  /\ asked' = IF n = DummyBits + DataBits THEN asked ELSE Nothing
  /\ UNCHANGED <<wire, answer, game, snapshot, latest>>

OtherDma3 ==
  /\ Idle
  /\ OnDma3Transfer("elsewhere", 1)
  /\ UNCHANGED <<game, gameVars, snapshot, latest>>

ClockIn ==
  /\ process = "on" /\ wire # <<>>
  /\ WriteHalf(Head(wire))
  /\ wire' = Tail(wire)
  /\ latest' = IF wire' = <<>> /\ asked[1] = "write"
               THEN [latest EXCEPT ![asked[2]] = {asked[3]}] ELSE latest
  /\ UNCHANGED <<fetching, asked, answer, game, snapshot>>

ClockOut ==
  /\ process = "on" /\ fetching > 0
  /\ ReadHalf
  /\ fetching' = fetching - 1
  /\ answer' = (2 * answer + OutBit) % 2 ^ DataBits
  /\ asked' = IF fetching' = 0 THEN Nothing ELSE asked
  /\ UNCHANGED <<wire, game, snapshot, latest>>

\* The CPU reads the status bit until a write is done.
Poll ==
  /\ Idle /\ asked[1] = "write"
  /\ ReadHalf
  /\ asked' = IF OutBit = 1 THEN Nothing ELSE asked
  /\ UNCHANGED <<wire, fetching, answer, game, snapshot, latest>>

-----------------------------------------------------------------------------
\* The process.

StartSession ==
  /\ process # "on"
  /\ NewEeprom
  /\ NothingUnderWay
  /\ UNCHANGED <<game, snapshot, latest>>

NothingKept == [a \in GameAddresses[game] |-> {Erased}]

\* What a read may return once a write has been cut off ; stored: the torn word, if one is in the file.
AfterCut(stored) ==
  IF ~path THEN NothingKept
  ELSE IF asked[1] = "write" /\ wire # <<>>
       THEN [latest EXCEPT ![asked[2]] = @ \cup {asked[3]} \cup stored]
       ELSE latest

\* Bound: a write is cut off only where the one before was not.
MayBeCut == asked[1] = "write" /\ wire # <<>> => Cardinality(latest[asked[2]]) = 1

\* A session may end at any moment: nothing is saved on the way out.
EndSession ==
  /\ process = "on" /\ MayBeCut
  /\ EarlyQuits \/ ~path \/ Length(file) = Words[game]
  /\ process' = "off" /\ latest' = AfterCut({})
  /\ chip' = NewChip(Eeprom512) /\ detect' = TRUE /\ buffer' = NoFile
  /\ NothingUnderWay
  /\ UNCHANGED <<path, file, game, snapshot>>

\* It may also end between two bytes of BackupFile::write: the low ones came first.
Torn(old, new, bits) == (old \div 2 ^ bits) * 2 ^ bits + (new % 2 ^ bits)

KilledWhileStoring(bits) ==
  LET c == ShiftedIn(Head(wire))
      word == Torn(file[c.address], c.rx_buffer, bits) IN
  /\ process = "on" /\ path /\ wire # <<>> /\ MayBeCut
  /\ c.state = RxData /\ c.rx_count = DataBits /\ c.address \in DOMAIN file
  /\ EarlyQuits \/ Length(file) = Words[game]
  /\ process' = "off" /\ file' = [file EXCEPT ![c.address] = word] /\ latest' = AfterCut({word})
  /\ chip' = NewChip(Eeprom512) /\ detect' = TRUE /\ buffer' = NoFile
  /\ NothingUnderWay
  /\ UNCHANGED <<path, game, snapshot>>

-----------------------------------------------------------------------------
\* GameBoyAdvance::save_state, between two steps of the CPU: the game's memory,
\* the chip and the size of its memory, not the contents.
SaveState ==
  /\ Idle
  /\ snapshot' = [taken |-> TRUE, chip |-> chip, detect |-> detect,
                  size |-> Length(buffer), asked |-> asked]
  /\ UNCHANGED <<eepromVars, game, gameVars, latest>>

\* restore_state and from_saved_state: BackupFile is opened again with that size.
RestoreState ==
  /\ Idle /\ snapshot.taken
  /\ EarlyStates \/ ~path \/ snapshot.size = Length(file)
  /\ chip' = snapshot.chip /\ detect' = snapshot.detect /\ asked' = snapshot.asked
  /\ OpenBackup(snapshot.size)
  /\ answer' = 0
  /\ latest' = IF path THEN latest ELSE NothingKept
  /\ UNCHANGED <<process, wire, fetching, game, snapshot>>

-----------------------------------------------------------------------------
SessionsInit ==
  /\ EepromInit
  /\ game \in EepromType
  /\ wire = <<>> /\ fetching = 0 /\ asked = Nothing /\ answer = 0
  /\ snapshot = NoState /\ latest = NothingKept

GameStep ==
  \/ \E a \in GameAddresses[game] : AskRead(a)
  \/ \E a \in GameAddresses[game] : \E w \in GameWords[game][a] : AskWrite(a, w)
  \/ \E a \in GameAddresses[game] : \E w \in GameWords[game][a], n \in PartLengths : AskInPart(a, w, n)
  \/ \E n \in FetchLengths : Fetch(n)
  \/ OtherDma3 \/ ClockIn \/ ClockOut \/ Poll

SessionsNext ==
  \/ GameStep
  \/ StartSession \/ EndSession \/ (\E bits \in 1..(DataBits - 1) : KilledWhileStoring(bits))
  \/ SaveState \/ RestoreState

-----------------------------------------------------------------------------
\* EEPROM reads (eeprom.rs fill_tx_buffer, clock_data_out): the word a game gets
\* from a complete read is the one it last wrote there, in this session or an
\* earlier one; after a session that was cut off in the middle of the write, the
\* old word, the new one or the torn one that the file then held.
ReadsLastWrite ==
  [][asked[1] = "read" /\ fetching = 1 /\ asked' = Nothing /\ process' = "on"
       => answer' \in latest[asked[2]]]_vars

\* Backup write-through (backup_file.rs write, resize, flush): while a session
\* runs with a file, the file is the buffer, of the same size and cell by cell.
FileIsMemory == process = "on" /\ path => file = buffer

\* Panics (eeprom.rs write_half, read_half, on_dma3_transfer, new; an index of
\* BackupFile): a game that asks for whole commands, and reads only what it asked
\* for, never brings the emulator down, nor does the file it left behind.
NeverPanics == process # "panicked"

\* Size detection (on_dma3_transfer, EepromController::new): a chip that takes
\* commands takes those of the game's length.
SpeaksGamesType == process = "on" /\ ~detect => chip.type = game
=============================================================================

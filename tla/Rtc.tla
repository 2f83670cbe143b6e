--------------------------------- MODULE Rtc ---------------------------------
(***************************************************************************)
(* The general-purpose port of a cartridge (cartridge/gpio.rs) with the    *)
(* serial real-time clock behind it (cartridge/rtc.rs): three pins that    *)
(* the game clocks by hand.  Pins are 0 or 1.                              *)
(***************************************************************************)
EXTENDS Integers, Sequences

CONSTANTS Clocks,       \* what the host's clock may say: records of Local::now()
          StatusBytes   \* what the game writes to the status register

\* A time of this century, as load_register asserts.
ASSUME RtcAssumption ==
  /\ \A now \in Clocks :
       /\ now.year \in 2000..2099 /\ now.month \in 1..12 /\ now.day \in 1..31
       /\ now.weekday \in 1..7 /\ now.hour \in 0..23
       /\ now.minute \in 0..59 /\ now.second \in 0..59
  /\ StatusBytes \subseteq 0..255

VARIABLES gpio,   \* direction of each pin (TRUE: out of the GBA) and control
          rtc,
          rtc_panicked

gpioVars == <<gpio, rtc, rtc_panicked>>

Sck == 0
Sio == 1
Cs == 2

BitOf(x, i) == (x \div 2 ^ i) % 2

\* num2bcd
num2bcd(num) == LET n == IF num > 99 THEN 99 ELSE num IN 16 * (n \div 10) + (n % 10)

ForceReset == 0
DateTime == 2
ForceIrq == 3
Status == 4
Time == 6
Free == 7
RegisterKind == {ForceReset, DateTime, ForceIrq, Status, Time, Free}

param_count == [reg \in RegisterKind |->
  CASE reg = DateTime -> 7
    [] reg = Time -> 3
    [] reg = Status -> 1
    [] reg \in {ForceReset, ForceIrq, Free} -> 0]

RtcState == {"Idle", "WaitForChipSelectHigh", "GetCommandByte", "RxFromMaster", "TxToMaster"}

\* StatusRegister: IGNORED_MASK, mode_24h.
StatusWritten(value) == 64 * BitOf(value, 6) + 32 * BitOf(value, 5) + 8 * BitOf(value, 3) + 2 * BitOf(value, 1)
mode_24h(status) == BitOf(status, 6) = 1

\* SerialBuffer: least significant bit first.
EmptySerial == [byte |-> 0, counter |-> 0]
push_bit(s, bit) ==
  IF s.counter = 8 THEN s ELSE [byte |-> s.byte + bit * 2 ^ s.counter, counter |-> s.counter + 1]
popped(s) == [byte |-> s.byte \div 2, counter |-> s.counter - 1]

RtcNew == [state |-> "Idle", sck |-> 0, sio |-> 0, cs |-> 0, status |-> \h82, serial |-> EmptySerial,
           internal |-> [i \in 0..7 |-> 0], reg |-> ForceReset, byte_count |-> 0, byte_index |-> 0]

new_rtc ==
  /\ gpio = [out |-> [pin \in 0..3 |-> TRUE], readable |-> FALSE]
  /\ rtc = RtcNew /\ rtc_panicked = FALSE

-----------------------------------------------------------------------------
RtcIdle(r) == [r EXCEPT !.state = "Idle", !.serial = EmptySerial]

Hour(status, now) == IF mode_24h(status) THEN now.hour ELSE (now.hour + 11) % 12

\* load_register: the leading bytes of the internal buffer.
Loaded(reg, status, now) ==
  CASE reg = Status -> <<status>>
    [] reg = Time -> <<num2bcd(Hour(status, now)), num2bcd(now.minute), num2bcd(now.second)>>
    [] reg = DateTime -> <<num2bcd(now.year % 100), num2bcd(now.month), num2bcd(now.day),
                           num2bcd(now.weekday), num2bcd(Hour(status, now)),
                           num2bcd(now.minute), num2bcd(now.second)>>

load_register(r, now) ==
  LET bytes == Loaded(r.reg, r.status, now)
  IN [r EXCEPT !.internal = [i \in 0..7 |-> IF i < Len(bytes) THEN bytes[i + 1] ELSE @[i]]]

\* store_register; force_reset.
store_register(r) ==
  IF r.reg = Status THEN [r EXCEPT !.status = StatusWritten(r.internal[0])]
  ELSE IF r.reg = ForceReset THEN [RtcIdle(r) EXCEPT !.status = StatusWritten(0)] ELSE r

\* The eight bits of a command, whichever end came first.
Reversed(b) == BitOf(b, 0) * 128 + BitOf(b, 1) * 64 + BitOf(b, 2) * 32 + BitOf(b, 3) * 16
                 + BitOf(b, 4) * 8 + BitOf(b, 5) * 4 + BitOf(b, 6) * 2 + BitOf(b, 7)
IsCommand(byte) == byte % 16 = 6 \/ byte \div 16 = 6
CommandOf(byte) == IF byte % 16 = 6 THEN byte ELSE Reversed(byte)
RegOf(byte) == (CommandOf(byte) \div 16) % 8
IsRead(byte) == BitOf(CommandOf(byte), 7) = 1

CommandPanics(byte) ==
  \/ ~IsCommand(byte) \/ RegOf(byte) \notin RegisterKind
  \/ param_count[RegOf(byte)] = 0 /\ IsRead(byte)

\* load_register accepts the years of this century only.
LoadPanics(byte, now) == RegOf(byte) = DateTime /\ IsRead(byte) /\ now.year \notin 2000..2099

RunCommand(r, byte, now) ==
  LET c == [r EXCEPT !.serial = EmptySerial, !.reg = RegOf(byte),
                     !.byte_count = param_count[RegOf(byte)], !.byte_index = 0]
  IN IF c.byte_count = 0 THEN RtcIdle(store_register(c))
     ELSE IF IsRead(byte) THEN [load_register(c, now) EXCEPT !.state = "TxToMaster"]
     ELSE [c EXCEPT !.state = "RxFromMaster"]

SendBitWithoutEnd(r) ==
  LET s == IF r.serial.counter = 0 THEN [byte |-> r.internal[r.byte_index], counter |-> 8] ELSE r.serial
  IN [r EXCEPT !.sio = s.byte % 2, !.serial = popped(s)]

\* The next bit for the game; the last one of the last byte ends the transfer.
SendBit(r) ==
  LET refill == r.serial.counter = 0
      s == IF refill THEN [byte |-> r.internal[r.byte_index], counter |-> 8] ELSE r.serial
      sent == [r EXCEPT !.sio = s.byte % 2, !.serial = popped(s),
                        !.byte_index = IF refill THEN @ + 1 ELSE @]
  IN IF sent.serial.counter = 0 /\ sent.byte_index = r.byte_count THEN RtcIdle(sent) ELSE sent

ReceiveBit(r) ==
  LET s == push_bit(r.serial, r.sio)
      stored == [r EXCEPT !.serial = EmptySerial, !.internal[r.byte_index] = s.byte,
                          !.byte_index = r.byte_index + 1]
  IN IF s.counter < 8 THEN [r EXCEPT !.serial = s]
     ELSE IF stored.byte_index = r.byte_count THEN [store_register(stored) EXCEPT !.state = "Idle"]
     ELSE stored

-----------------------------------------------------------------------------
RtcPanics == rtc_panicked' = TRUE /\ UNCHANGED <<gpio, rtc>>

RtcBecomes(r) == rtc' = r /\ UNCHANGED <<gpio, rtc_panicked>>

\* Rtc::write: pins as the game drives them; a data pin it does not drive stays.
PinsSeen(sck, sio, cs) ==
  [rtc EXCEPT !.sck = sck, !.cs = cs,
              !.sio = IF rtc.sck = 1 /\ sck = 0 /\ gpio.out[Sio] THEN sio ELSE @]

\* The clock with the pins it has seen.
ClockStep(r, now) ==
  LET falling == rtc.sck = 1 /\ r.sck = 0
      byte == push_bit(r.serial, r.sio)
      transferring == r.state \notin {"Idle", "WaitForChipSelectHigh"}
  IN \/ transferring /\ r.cs = 0 /\ RtcBecomes(RtcIdle(r))
     \/ /\ r.state = "Idle"
        /\ RtcBecomes(IF r.sck = 1 /\ r.cs = 0 THEN [r EXCEPT !.state = "WaitForChipSelectHigh"] ELSE r)
     \/ /\ r.state = "WaitForChipSelectHigh"
        /\ RtcBecomes(IF r.sck = 1 /\ r.cs = 1
                      THEN [r EXCEPT !.state = "GetCommandByte", !.serial = EmptySerial] ELSE r)
     \/ transferring /\ r.cs = 1 /\ ~falling /\ RtcBecomes(r)
     \/ /\ r.state = "GetCommandByte" /\ r.cs = 1 /\ falling
        /\ IF byte.counter < 8 THEN RtcBecomes([r EXCEPT !.serial = byte])
           ELSE IF CommandPanics(byte.byte) \/ LoadPanics(byte.byte, now) THEN RtcPanics
           ELSE RtcBecomes(RunCommand(r, byte.byte, now))
     \/ /\ r.state = "TxToMaster" /\ r.cs = 1 /\ falling
        /\ IF gpio.out[Sio] THEN RtcPanics ELSE RtcBecomes(SendBit(r))
     \/ /\ r.state = "RxFromMaster" /\ r.cs = 1 /\ falling
        /\ IF ~gpio.out[Sio] THEN RtcPanics ELSE RtcBecomes(ReceiveBit(r))

RtcWrite(data, now) ==
  \/ ~(gpio.out[Sck] /\ gpio.out[Cs]) /\ RtcPanics
  \/ /\ gpio.out[Sck] /\ gpio.out[Cs]
     /\ ClockStep(PinsSeen(BitOf(data, Sck), BitOf(data, Sio), BitOf(data, Cs)), now)

\* Gpio::write and read at its three ports.
WriteDirection(value) ==
  /\ gpio' = [gpio EXCEPT !.out = [pin \in 0..3 |-> BitOf(value, pin) = 1]]
  /\ UNCHANGED <<rtc, rtc_panicked>>

WriteControl(value) ==
  gpio' = [gpio EXCEPT !.readable = value # 0] /\ UNCHANGED <<rtc, rtc_panicked>>

ReadData == 2 ^ Sck * rtc.sck + 2 ^ Sio * rtc.sio + 2 ^ Cs * rtc.cs

-----------------------------------------------------------------------------
(***************************************************************************)
(* A game that sets the clock's status, resets it and reads it over the    *)
(* pins, and may break any transfer off by lowering the chip select.       *)
(***************************************************************************)

VARIABLES transfer,  \* what the game does to the port
          place,     \* how many steps of it are done
          got,       \* the bits it has read, first one first
          want,      \* history: the bytes that a read should give
          status_is  \* history: the status register as the game knows it

rtcGameVars == <<transfer, place, got, want, status_is>>
rtcVars == <<gpioVars, rtcGameVars>>

Dir(sio_out) == <<"direction", IF sio_out THEN 7 ELSE 5>>
Pins(sck, sio, cs) == <<"data", sck + 2 * sio + 4 * cs>>
ReadPin == <<"read", 0>>

\* start_serial_transfer, transmit and receive_bytes of the module's tests: the
\* steps of a start, and the k-th step of a byte sent and of bytes received.
StartTransfer == <<<<"control", 1>>, Dir(TRUE), Pins(1, 0, 0), Pins(1, 0, 1)>>

Transmit(byte, k) == IF k % 2 = 0 THEN Pins(0, BitOf(byte, k \div 2), 1) ELSE Pins(1, 0, 1)

Receive(k) == IF k % 3 = 0 THEN Pins(0, 0, 1) ELSE IF k % 3 = 1 THEN ReadPin ELSE Pins(1, 0, 1)

EndTransfer == Pins(1, 0, 0)

\* The byte of a command, sent from either end.
CommandByte(reg, read, lsb_first) ==
  LET byte == 6 + 16 * reg + (IF read THEN 128 ELSE 0)
  IN IF lsb_first THEN byte ELSE Reversed(byte)

Transfer(kind, reg, command, value) ==
  [kind |-> kind, reg |-> reg, command |-> command, value |-> value]

Steps(t) ==
  CASE t.kind = "none"  -> 0
    [] t.kind = "end"   -> 1
    [] t.kind = "reset" -> 20
    [] t.kind = "set"   -> 36
    [] t.kind = "read"  -> 21 + 24 * param_count[t.reg]

\* A command, then the byte it stores or those it asks for.
StepOf(t, p) ==
  IF t.kind = "end" THEN EndTransfer
  ELSE CASE p < 4 -> StartTransfer[p + 1]
         [] p \in 4..19 -> Transmit(t.command, p - 4)
         [] t.kind = "set" /\ p > 19 -> Transmit(t.value, p - 20)
         [] t.kind = "read" /\ p = 20 -> Dir(FALSE)
         [] t.kind = "read" /\ p > 20 -> Receive(p - 21)

Begin(t) == transfer' = t /\ place' = 0 /\ got' = <<>> /\ want' = <<>> /\ UNCHANGED gpioVars

RtcGameIdle == place = Steps(transfer) /\ ~rtc_panicked

AskRegister(reg, lsb_first) ==
  /\ RtcGameIdle /\ reg \in {Status, Time, DateTime}
  /\ Begin(Transfer("read", reg, CommandByte(reg, TRUE, lsb_first), 0))
  /\ UNCHANGED status_is

SetStatus(value, lsb_first) ==
  /\ RtcGameIdle
  /\ Begin(Transfer("set", Status, CommandByte(Status, FALSE, lsb_first), value))
  /\ status_is' = StatusWritten(value)

ResetClock(lsb_first) ==
  /\ RtcGameIdle
  /\ Begin(Transfer("reset", ForceReset, CommandByte(ForceReset, FALSE, lsb_first), 0))
  /\ status_is' = 0

\* The chip select falls in the middle of a transfer that only reads.
BreakOff ==
  /\ transfer.kind = "read" /\ place + 1 < Steps(transfer) /\ ~rtc_panicked
  /\ Begin(Transfer("end", transfer.reg, 0, 0))
  /\ UNCHANGED status_is

\* What the clock shows, by a definition of its own: two decimal digits a byte.
Decimal(byte) == 10 * (byte \div 16) + (byte % 16)
IsDecimal(byte) == byte % 16 < 10 /\ byte \div 16 < 10
HourShown(now) == IF mode_24h(status_is) THEN now.hour ELSE (now.hour + 11) % 12

Shown(reg, now) ==
  CASE reg = Status -> <<status_is>>
    [] reg = Time -> <<HourShown(now), now.minute, now.second>>
    [] reg = DateTime -> <<now.year % 100, now.month, now.day, now.weekday,
                           HourShown(now), now.minute, now.second>>

TouchPort(now) ==
  /\ place < Steps(transfer) /\ ~rtc_panicked
  /\ LET step == StepOf(transfer, place) IN
     /\ \/ step[1] = "data" /\ RtcWrite(step[2], now)
        \/ step[1] = "direction" /\ WriteDirection(step[2])
        \/ step[1] = "control" /\ WriteControl(step[2])
        \/ step[1] = "read" /\ UNCHANGED gpioVars
     /\ got' = IF step = ReadPin THEN Append(got, BitOf(ReadData, Sio)) ELSE got
  /\ want' = IF rtc'.state = "TxToMaster" /\ rtc.state = "GetCommandByte"
             THEN Shown(transfer.reg, now) ELSE want
  /\ place' = place + 1
  /\ UNCHANGED <<transfer, status_is>>

RtcProgramInit ==
  /\ new_rtc /\ transfer = Transfer("none", Status, 0, 0) /\ place = 0
  /\ got = <<>> /\ want = <<>> /\ status_is = \h82

RtcNext ==
  \/ \E lsb_first \in BOOLEAN :
       \/ \E reg \in RegisterKind : AskRegister(reg, lsb_first)
       \/ \E value \in StatusBytes : SetStatus(value, lsb_first)
       \/ ResetClock(lsb_first)
  \/ BreakOff
  \/ \E now \in Clocks : TouchPort(now)

GotByte(n) == LET bit(i) == got[8 * n + i + 1]
              IN bit(0) + 2 * bit(1) + 4 * bit(2) + 8 * bit(3) + 16 * bit(4) + 32 * bit(5)
                   + 64 * bit(6) + 128 * bit(7)

\* Clock reads (rtc.rs write, load_register, SerialBuffer): the bytes a game
\* clocks out are the register it asked for, whole and in order, of one moment,
\* whichever end the command was sent from and whatever transfer was broken off
\* before; and no transfer that follows the protocol panics the emulator.
ClockAnswers ==
  /\ ~rtc_panicked
  /\ transfer.kind = "read" /\ place = Steps(transfer) =>
       /\ Len(got) = 8 * Len(want)
       /\ \A n \in 0..(Len(want) - 1) :
            IF transfer.reg = Status THEN GotByte(n) = want[n + 1]
            ELSE IsDecimal(GotByte(n)) /\ Decimal(GotByte(n)) = want[n + 1]
=============================================================================

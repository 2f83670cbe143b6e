# A verification project for rustboyadvance-ng

rustboyadvance-ng is a Game Boy Advance emulator in Rust. This directory holds
TLA+ modules translated from its source, TLC configurations that model-check
them on small instances, and theorems about them that TLAPS proves for every
value of the constants. `PROJECT.json` is the index: which definition
translates which lines, what each run checks, which mutation of the code each
property catches, the hazards, the findings and the theorems.

Paths below are relative to the repository.

## 1. The system

The core (`core/`, `arm7tdmi/`) is sequential: one thread owns the console and
runs it a frame at a time. What makes it hard is not threads but *time*. Every
device keeps its own idea of where it is, in counters, flags and latches, and
the only thing that drives it forward is the event it put in the scheduler's
heap the last time it was handled. Events are handled late (a CPU instruction
or a DMA transfer runs to its end first), the program rewrites registers in
between, and a device that loses its event stops for ever. Around the core, the
Android front end and the GDB stub add real threads, and the cartridge adds
files that survive a killed process.

### 1.1 Components, state, operations and interactions

| Component | Source | State | Operations | Talks to |
|---|---|---|---|---|
| Run loop | `core/src/gba.rs` | owns every device, the scheduler, the interrupt flags; static `OVERSHOOT` | `run`, `single_step`, `handle_events`, `frame`, `frame_interruptible`, `save_state`, `restore_state` | everything |
| Scheduler | `core/src/sched.rs` | `timestamp`, heap of `(type, time)` events | `schedule`, `schedule_at`, `cancel_pending`, `update`, `pop_pending_event`, `fast_forward_to_next` | shared by all devices through `Shared<Scheduler>` |
| Timers | `core/src/timer.rs` | four counters, control, reload value, `start_time`, `is_scheduled`, `running_timers` mask | register reads and writes, overflow events, cascade | scheduler, interrupts, sound |
| DMA | `core/src/dma.rs` | four channels, registers and their latched copies, `running`, `fifo_mode`, `pending_set` | register writes, activation events, GPU and FIFO requests, `perform_work` | scheduler, bus, interrupts, EEPROM |
| Display timing | `core/src/gpu/mod.rs`, `gpu/regs.rs` | `vcount`, DISPSTAT, affine reference points and their internal copies | the four events of a scan line, register writes | scheduler, DMA, interrupts |
| Display rendering | `core/src/gpu/render*`, `sfx.rs`, `window.rs`, `layer.rs`, `mosaic.rs`, `rgb15.rs` | frame buffer | one line at a time | reads video memory |
| Sound | `core/src/sound/` | two FIFOs, sample rate, control registers | timer overflows, sample events, register writes | timers, DMA, scheduler, host audio |
| Interrupts | `core/src/interrupt.rs` | `IME`, `IE`, the shared `IF` cell | `signal_irq`, `clear`, `irq_pending` | every device, the CPU |
| I/O registers, bus | `core/src/iodev.rs`, `core/src/sysbus.rs` | register file, `haltcnt`, wait-state tables | 8/16/32-bit reads and writes | every device |
| CPU | `arm7tdmi/src/` | registers, banks, CPSR and SPSRs, pipeline, breakpoints | instructions, exceptions, mode changes | bus, interrupts |
| EEPROM | `core/src/cartridge/backup/eeprom.rs` | serial chip state machine, detected size | DMA-3 bit streams, polling reads | DMA 3, backup file |
| Flash | `core/src/cartridge/backup/flash.rs` | command state machine, bank, mode | byte reads and writes | backup file |
| Backup file | `core/src/cartridge/backup/backup_file.rs` | buffer and file of the same size | open, write-through, resize, flush | host file system |
| GPIO, clock | `core/src/cartridge/gpio.rs`, `rtc.rs` | pin directions, serial state machine | half-word reads and writes | host clock |
| Save states | `core/src/gba.rs`, `serde` on every device | a snapshot of everything but ROM and backup contents | save, restore | every device |
| GDB stub | `core/src/gdb_support*`, `arm7tdmi/src/gdb/` | request channel, completion flag, one-place stop signal | attach, continue, step, interrupt, monitor commands | run loop, a second thread, a socket |
| Debugger | `core/src/debugger/` | command loop | step, continue, break, dump | run loop |
| Android | `platform/rustboyadvance-jni/`, `platform/android/` | `emustate`, `should_render`, audio thread | pause, resume, turbo, stop, save and load state | three host threads |
| Other front ends | `platform/rustboyadvance-{sdl2,minifb,term,wasm,libretro}` | frame pacing, audio ring | render, poll keys, push samples | run loop |

How they interact, in the order of one turn of `GameBoyAdvance::run`:

1. `run` pushes `RunLimitReached` and loops while the clock has not passed the
   earliest event. Each turn is one `single_step`: the DMA, if its
   `pending_set` is not empty, otherwise the CPU.
2. A CPU store may reach a device register through the bus. The device changes
   its own state and schedules or cancels its own events.
3. When the clock has passed an event, `handle_events` pops every event that is
   due. A handler receives its event's *scheduled* time and returns the time of
   its successor, which is inserted before the next event is popped.
4. A timer overflow cascades to the next timer, takes samples off the sound
   FIFOs, and a FIFO that has become half empty asks the DMA controller for a
   burst; the display's blanks ask it for theirs.
5. DMA 3 announces a transfer to the EEPROM before it makes it; the EEPROM
   guesses its size from the first one and resets itself at each request.

### 1.2 What is hard to get right, and hard to test

* **Late events.** Up to one step passes between an event and its handler; two
  events of one timer may be due at once. Anything computed from the clock where
  it should be computed from the event drifts.
* **State that is kept twice.** A timer's `is_scheduled`, its bit in
  `running_timers` and its event; a channel's `running` and the enable bit of its
  register; the ring's two positions and its count; the display's line counter,
  its flags and the type of its pending event; the EEPROM's buffer and its file.
* **Handlers that outlive their cause.** Disabling a DMA channel leaves its
  activation event in the heap.
* **Order across devices.** Timer, FIFO, DMA and sampler each act at their own
  late moment on one stream of samples.
* **Unchecked assumptions of the loop.** `run` peeks into the heap without
  checking that it is not empty.
* **Kill and restart.** A save file is written byte by byte while a game runs and
  the size of the chip is guessed from it the next time.
* **Pointers handed out twice.** Every device holds the scheduler by pointer; loading
  a state replaces devices and scheduler.
* **Banks and pipeline.** The CPU keeps each mode's registers apart by swapping, and an
  interrupt may come between any two instructions, in either instruction set.
* **Large pure functions.** Two decoders, a line renderer and a memory map, in which an
  off-by-one shows in one column, one opcode or one mirror.
* **Host threads.** `emustate` is read and written under separate locks; the GDB
  stub and the emulator wait for each other.

The places where these bite most are the rows of "hazards" in `PROJECT.json`,
with the properties that cover them.

### 1.3 What makes each component correct

| Component | Correctness | State of the work |
|---|---|---|
| Sound FIFO | it is a bounded queue | checked and proved |
| Timers | one event per running timer and none for others; counters, start times and events agree; no drift; chains count exactly | checked; events, counts, latency, drift and chains proved |
| DMA | the two enable flags agree; transfers continue where they ended; only enabled channels transfer | flags and addresses checked and proved, the pending set proved |
| Display timing | one event, agreeing with counter and flags, on time to the cycle; blanks transfer once, in their line; rows drawn from what was latched | checked; event chain, clock, blanks and rows proved |
| Display rendering | every column shows the two nearest layers its window lets through, blended as asked | checked |
| Sound | no sample lost, repeated or dropped between memory and output | checked; that no burst overflows a FIFO proved |
| Run loop | the peek is safe; runs last what they should and end; no event is lost between runs | checked; all but termination proved, for arbitrary devices, and that the console's devices are such devices |
| CPU | banks are never mixed; a handler is invisible to what it interrupted; the next instruction is the one the pipeline holds; arithmetic and conditions are the integers' | checked; proved but for the handlers |
| Decoders | each word leads to the handler and parameters of the opcode table | checked |
| Memory map | a load finds what was stored, through every mirror and width | checked |
| EEPROM, flash, SRAM and file | reads return the last write across sessions; the file is the memory; no panic for a well-behaved game; the type the game speaks | checked and proved |
| GPIO, clock | a register read is whole, of one moment, and no transfer panics | checked and proved |
| Save states | running devices have their event where the loop looks | found violated |
| GDB stub | a request has been carried out when it returns; a stop reason is of a stop, and a stop is told; requests return | checked; all but liveness proved |
| Android | `GameBoyAdvance` is used by one thread at a time; pause, stop and close return; the foreground is not left paused | checked; all but liveness proved |

## 2. The modules

```
Integers <- Interrupts          Scheduler <- RunLoop
Scheduler, Interrupts <- Timers <- TimersHistory
Scheduler, Interrupts <- Dma <- DmaProgram, GpuTiming <- GpuProgram
SoundFifo <- SoundFifoMachine (refines SoundQueue)
Timers, Dma, SoundFifo <- SoundController
SoundController, GpuTiming, RunLoop <- Gba (refines RunLoop)
BackupFile <- Eeprom, Flash     Eeprom, Flash, Rtc <- Cartridge
Words <- Arm7Alu, Arm7Modes <- Arm7Cpu
Words <- Arm7Decode, Picture, MemoryBus <- PureFunctions
JniEmulator     GdbStub     SaveStates
SoundFifoMachine <- SoundFifoProofs    DmaProgram <- DmaProofs    GpuProgram <- GpuProofs
Gba, TimersHistory <- GbaProofs        Cartridge <- CartridgeProofs    Arm7Cpu <- Arm7Proofs
GdbStub <- GdbProofs                   JniEmulator <- JniProofs
```

(`A <- B`: B extends A. The display extends the DMA controller because its
blanks make requests of it.)

Each device module holds the device's variables and one operator per handler or
register access, written as an action that leaves the clock alone. A second
module, or the second part of the same one, puts the device under a program or
user that may do anything the interface allows, with history variables where a
property speaks of the past. The `MC*` modules give constants their values where
a configuration cannot; the `*Proofs` modules hold the theorems. A definition
whose comment says *Mutant* is a bug the code might have had; no specification
uses it, and `PROJECT.json` names the property that catches it.

| Module | Models | Notes |
|---|---|---|
| `Scheduler` | `sched.rs`, and the part of `run`/`handle_events` every device lives under | The heap is a set: no device holds two equal events, and the order of equal times is unspecified in a `BinaryHeap`, so it is a choice. `Elapse(c)` is one step of the bus master of `c` cycles; `HandleEvent` one turn of `handle_events`. |
| `Interrupts` | `signal_irq` and the shared `IF` cell | a set of flags, raised by devices and acknowledged by the program |
| `SoundFifo`, `SoundFifoMachine` | `sound/fifo.rs` | the ring as a record, one operator per method; the machine performs them in any order |
| `SoundQueue` | nothing: the abstract specification of a FIFO | a sequence of bounded length; `SoundFifoMachine` refines it |
| `Timers` | `timer.rs` | register writes and reads, `handle_overflow_event` with its cascade (a recursion in the code, `Overflowing` here: the set of timers that wrap) |
| `TimersHistory` | the program, and what was counted since the last start | |
| `Dma` | `dma.rs` | latches, activation, `transfer` with all address adjustments modulo the address width, requests of the display and of the FIFOs |
| `DmaProgram` | the program, the blanks and the FIFOs as environment | `HastyRewrites` says whether a control register is rewritten while an activation is on its way |
| `GpuTiming` | `gpu/mod.rs`, `gpu/regs.rs` without drawing | a row of the frame buffer is the reference point it was drawn with |
| `GpuProgram` | the program, DMA, and the history of a picture | |
| `SoundController` | the FIFO path and the sample clock of `sound/mod.rs`; then timers, DMA and sound composed, under sound drivers | a sample of memory is the address it lies at; a driver is a sequence of register writes, each made at any later step |
| `RunLoop` | `run`, `frame`, `frame_interruptible` over arbitrary devices | the abstract specification of the console: a device step may add any event that is not in the past and remove any that is not the limit |
| `Gba` | the console | all devices above; refines `RunLoop` |
| `BackupFile` | `backup_file.rs` | buffer and file, write-through, resize, flush |
| `Eeprom` | `eeprom.rs`, then a game, save states and killed processes | a cell is a word of the chip; the serial protocol is bit by bit |
| `Flash` | `flash.rs` and SRAM, then a game, save states and killed processes | the unlocking sequence, sectors and banks at a small size; an erase can be cut off after any byte |
| `Rtc` | `gpio.rs`, `rtc.rs`, then a game at the pins | three pins clocked by hand, both bit orders, broken-off transfers, every assertion as a panic |
| `Cartridge` | `cartridge/mod.rs`, `builder.rs` | one kind of memory or a clock per run: the kinds share nothing |
| `Words` | 32-bit words at `WordBits` bits | a word is four bytes of `WordBits / 4` |
| `Arm7Alu` | `alu.rs`, conditions of `cpu.rs` | shifter, sums and differences with their flags |
| `Arm7Modes` | `cpu.rs`, `exception.rs`, `psr.rs` | banks, mode changes, exceptions; a slot of the pipeline is where and at which width its opcode was fetched |
| `Arm7Cpu` | `arm/exec.rs`, `thumb/exec.rs`, `memory.rs`; then a program, interrupts and handlers | every handler, from decoded fields; memory is a few words of `Ram`. Free instructions between interrupts that come anywhere; a handler switches modes, lets interrupts in and returns through SPSR |
| `Arm7Decode` | `build.rs`, `arm/mod.rs`, `thumb/mod.rs`, then an assembler | all 32 and 16 bits; the reference assembles each instruction from the opcode table quoted in `build.rs` |
| `Picture` | `gpu/render*`, `sfx.rs`, `window.rs`, `layer.rs`, `rgb15.rs`, then the reference | one line from registers, memories and objects; the reference finds each column's layers independently |
| `MemoryBus` | the read and write arms of `sysbus.rs`, `IoDevices`, `Gpu`, `Cartridge`, `Bios`, `BusIO`, then the reference | a register is the half-word it reads as; the reference gives every address a cell of one byte and every register byte the bits its stores decide |
| `PureFunctions` | nothing: one input per state, and the comparisons | |
| `JniEmulator` | `rustboyadvance-jni/src`, then `EmulatorActivity.java` and `Emulator.java` | emulation thread, audio worker and user-interface thread; a lock held across steps is a variable |
| `GdbStub` | `gdb_support.rs`, `gdb_support/` | server thread, emulator, channel, condition variables with spurious wake-ups, client and connection errors |
| `SaveStates` | `save_state`, `restore_state`, `from_saved_state` | who points to which scheduler, and which events each holds |

How the code's shape shows in the model:

* a *guard* is the code's condition or early return: `FifoWrite` drops when full,
  `TimerWriteCtl` schedules only where the timer was not scheduled, the display's
  handlers differ by event type;
* a handler is one action from its event to the insertion of the successor;
  interrupts, DMA requests, cascades and FIFO reads it makes on the way are in
  the same action;
* a register write takes effect *within* an instruction: where the write's time
  matters, the actions distinguish the cycle of the access (`c`) from the length
  of the step (`d`), since the bus calls the scheduler's `update` per access;
* a clock value is a natural number bounded by `Horizon`; addresses and counters
  wrap at `AddrMod` and `CounterMod`, as `u32` and `u16` do;
* between threads, a step is a critical section that does not wait; where a guard
  object lives across calls (saving on Android), taking and dropping it are steps;
* CPU instructions are operators from a processor to a processor, since the code
  makes them so; what varies is which comes next and where interrupts fall.

## 3. The runs

Deadlock checking is off where a bound stops the system (`Horizon`, `MaxSteps`,
`MaxCalls`, one input per state) or a user may simply do nothing more.

| Run | Question | Bounds, and why they are enough |
|---|---|---|
| `sound_fifo` | Is the ring a queue? | 3 places, 3 values: both positions wrap, the ring is full and empty, resets at each fill |
| `timers` | Do events, flags, counts and chains agree under any program? | 3 timers of 1 bit (a chain of three wraps every 8 ticks), 2 prescalers, steps of up to 2 cycles against periods of 1, so that two overflows of a timer are due at once; horizon 5 |
| `dma` | Do channels keep their latches, flags and transfer counts? | an ordinary and a sound channel, immediate, blank and FIFO timing, addresses wrap at 64, horizon 6: start, transfer, rewrite, request and stop fit |
| `gpu` | Does the display keep its clock, its blanks and its rows? | 3 visible lines and a blank one of 4 cycles (first, middle and last line differ), two pictures and a bit, steps from one cycle to one more than a line, so that two events and a blank's transfer come late together |
| `sound` | Does every sample get played, once and in order? | FIFOs of 4 refilled by 2, a timer period of 2 below the longest step of 3, four drivers: mono with a memory copy, stereo from one timer, timer first, CPU-written start |
| `gba` | Do runs, breakpoints and devices fit together, does the console refine the run loop, and does each run end? | a display of 2 lines of 5 cycles (frame 10), horizon 26: two frames and part of a third, a timer of period 3 with an HBlank DMA, or a copy of memory, written at any pace |
| `cartridge` | Does a game read back what it wrote, over killed sessions and loaded states, and does the clock answer? | EEPROM chips of 2 and 4 words with 1 and 3 address bits, 3 data bits, 2 dummy bits, two addresses a game; flash of one and two banks of two sectors of two bytes; two moments of the host's clock that differ in every digit, two status bytes |
| `cpu` | Are interrupts invisible, banks kept apart, the pipeline and the flags right? | words of 12 bits (a status register fits), registers 0, 1, 8, 13, 14 (low, FIQ-banked, banked), two free instructions, out of 34 ARM and 26 THUMB forms of every format, two interrupts and a service call: an interrupt within a handler within an instruction pair |
| `android` | Do the calls return and is the console used by one at a time? | 12 callbacks: several lives of the activity, or pauses, saves and loads within one; two commands in the audio channel |
| `gdb` | Do requests return, done, and is every stop told, and told truly? | two sessions, unbounded requests and interrupts within each |
| `functions` | Are decoders, line and bus what their references say? | every decoder index with 3 values in each of the 4 other fields, every THUMB word; scenes of 24 columns in every mode, map size, window, effect and order; two stores and a load at addresses that meet in a mirror, up to three stores in each register word by every width, a byte store and any register, modes changed between stores to video memory; fetches and loads outside memory in every state of the pipeline |
| `restored_state` | Do events reach the loop after a load? (violated) | two timers, a channel, four schedulers: as many as can be held at once and two |

What the passing properties say is written above each in its module. The ones
that carry the most:

* `CountIsSound`, `NoDrift`, `CascadeExact` (`TimersHistory`, `Timers`): the
  number of overflows of a timer is what the elapsed time demands, however late
  each was handled, and a chain of timers counts like one wide one.
* `AddressesExact` (`DmaProgram`): after `k` transfers the latched addresses are
  those of the start moved `k` times, with reload, decrement, wrap-around and the
  sound FIFO's fixed destination.
* `DisplayClock`, `BlankTransfers`, `ServedInLine`, `RowsExact` (`GpuProgram`): the
  picture is on time to the cycle; a blank transfers once per line, and within it
  unless the line's last step (a long copy is one) lasts a blank; a row holds what the
  reference point latched before the picture says.
* `SamplesInOrder`, `RoomForBurst`, `PlaysOn` (`SoundController`): memory to speaker
  through four devices without a gap, an overflow or a dry FIFO.
* `OneLimitPerRun` (`RunLoop`): the comment at `gba.rs:342` that justifies the
  unchecked peek, at every way a run begins or ends.
* `ReadsLastWrite`, `FileIsMemory` (`Eeprom`), `BytesAreKept` (`Cartridge`): storage.
* `HandlersAreInvisible`, `BanksAreOwn`, `NextPcIsNext` (`Arm7Cpu`): whatever an
  interrupt falls between, and whatever modes its handler visits, the program
  goes on with its own registers, status and next instruction.
* `GbaExclusive`, `CallsReturn` (`JniEmulator`): nothing but the protocol over
  `emustate` keeps two threads out of the console.
* `RequestsReturn`, `StopIsTold`, `StopIsReal` (`GdbStub`): no request and no stop is
  left unanswered, whatever shares the one place for a reason; and a client that was
  told of a stop finds one, but after a continue that found a reason left over.
* `DecodedAsAssembled`, `LineIsPicture`, `StoresAreLoaded` (`PureFunctions`).

### Fairness and liveness

* `RunsEnd` (`Gba`): a run that began ends, under weak fairness of `GbaNext` as a
  whole and nothing finer. `run` is a loop on one thread, no step of it waits for
  anything, so as long as a step is possible one is made; which one is left to
  the adversary. `StartFrame` begins only frames whose end lies within the
  horizon, so the horizon never cuts a run short.
* `CallsReturn` (`JniEmulator`): every call of the user interface returns, under
  weak fairness of each of the three threads, which the host's scheduler gives.
  `Begin`, the surface becoming ready, and the user's actions have none. A pause
  asked for before `native_run` has stored its first state is excepted (`early`):
  the store overwrites it.
* `RequestsReturn` (`GdbStub`): weak fairness of the server thread and of the
  emulation thread; the client, the connection and spurious wake-ups have none.

All other properties are safety properties and assume no fairness.

### Finding

`restored_state`: `restore_state` says "Redistribute shared pointers"
(`gba.rs:193`) and calls `connect_scheduler` before `set_io_devices`
(`gba.rs:195`). The new scheduler goes to the I/O devices about to be replaced;
the decoded ones keep the scheduler of their own deserialisation, which the run
loop never pops. A timer or an immediate transfer enabled after a load never
fires, and a timer read subtracts a start time from a clock that stands at zero.
`from_saved_state` (`gba.rs:140`) connects first and is right. With the two
calls exchanged the model satisfies the property.

### Divergences seen while modelling

These are in the models as the code has them, with properties stated so that they
say what does hold; constants named here let a run reproduce them.

* *Timers and DMA.* A second read of a timer counts elapsed ticks twice
  (`timer.rs:54`): the value read is wrong, the overflows are not, and the
  `timers` run reads a timer (`ReadTimers`) any number of times. Disabling a channel leaves its
  activation in the scheduler, and a restart is activated by it, early
  (`dma.rs:263`; `HastyRewrites = TRUE`). Any 16-bit DMA 3 resets the EEPROM.
* *Display.* Line 0 is drawn at the end of the vertical blank without an update
  after it: line 1 repeats its reference point and later lines are one behind
  (`gpu/mod.rs:414`). Window 1 is painted over window 0's columns
  (`sfx.rs:95-115`), so the scenes give both the same columns. `eva` and `evb` are
  not clamped at 16; a bitmap half-word is not masked, and 0x8000 is transparent;
  modes 6 and 7 panic; `debug_read_8` misses the mirror of video memory.
* *Run loop.* What a breakpoint left of a frame is stored as overshoot and
  shortens the next frame too (`gba.rs:234`).
* *CPU.* An exception into the bank it comes from keeps the old link and status
  (`SWI` in Supervisor mode; not `Written`). `LDM {..pc}^` that returns to THUMB
  reloads the pipeline at ARM width; an ascending one with write-back writes its base
  after it has restored the status (`exec.rs:549-551`, `621-623`), to the register of
  the mode it returned to. `ADC`, `SBC`, `RSC` without S take the
  shifter's carry; rotated loads and an immediate `MSR` change the carry flag.
  A post-indexed `LDRH`/`STRH` with W leaves User mode. THUMB `STM` stores the
  wrong base unless it is the first or second of the list. `MSR` to SPSR
  ignores the field mask. The listing's `ArmFormat::from` (`arm/mod.rs:91`)
  calls register-offset `LDR`/`STR` undefined and their undefined neighbours
  transfers, while `build.rs` executes them; `ArmListed` excepts those.
  Words that only later processors name (CLZ, saturating arithmetic, LDREX) have
  the bits of a format of this one, and decode as it.
* *Bus.* SRAM's wait states are written to one page's table only
  (`sysbus.rs:110-118`); half-word and word stores are charged as byte accesses
  (`sysbus.rs:531-541`); a byte store to an I/O register writes the other half
  back (`iodev.rs:337`), which acknowledges the interrupts of the other half of IF
  (`Requested` in the reference) and reloads timers; any bit of the half-word
  switches IME and POSTFLG, so that a byte stored to HALTCNT sets POSTFLG.
* *Cartridge.* A state saved before the EEPROM's size was detected, loaded after a
  save, truncates the save file (`backup_file.rs:89`; `EarlyStates = TRUE`). A
  session that ends before the first access leaves the wrong size for ever
  (`EarlyQuits = TRUE`). A read broken off swallows the next request
  (`FetchLengths = {2, 5}`). Flash accepts `EraseSector` without `Erase` and does
  not check the bank (`flash.rs:189`). The clock in 12-hour mode shows one hour
  less; a host year outside 2000 to 2099 and a wrong pin direction panic. An
  override takes priority over a forced save type although the warning says the
  opposite (`builder.rs:150-157`).
* *Android.* A pause before `Begin` is overwritten and its caller spins for ever; a
  turbo chosen before the start is overwritten, and a resume drops it; saving a
  state in the background resumes the game; a close waits for a `Stopped` that only
  a main loop that ran can set (`lib.rs:147`).
* *GDB.* A server thread that dies of a connection error panics the emulator at
  its join (`gdb_support.rs:154`) or leaves a stopped emulator spinning; a reset
  or an interrupt that meets a breakpoint leaves a stop reason for the next
  continue; breakpoints outlive their session. `on_interrupt` (`event_loop.rs:48`)
  is not told whether the target runs: a Ctrl-C that crosses the report of a stop
  stops the stopped target again, and gdbstub keeps the reason (`deferred`) for the
  next continue or step, which it answers as soon as it has been carried out. In
  both cases the client is told of a stop while the target runs; when it stops, that
  reason is left over in its turn. `StopIsReal` excepts just these continues
  (`stale`) until something stops the target; `StopIsTold` and `RequestsReturn`
  except nothing. What gdbstub does between `Idle` and `Running` is the library's
  (`running`, `deferred` are its states), modelled as its `run_blocking` drives
  `DebuggerEventLoop`.

## 4. What is proved

TLC's instances have one-bit counters, four-cycle lines and three-bit words. The
theorems hold for any number of timers and width of counter, any picture
geometry, any address width, any set of control values, any ring capacity, any
step length, any chip size and word length, any number of callbacks and of
debugging sessions, under the assumptions the modules name (`SchedulerAssumption`,
`TimersAssumption`, `SessionAssumption`, `FlashAssumption`, ..., all evaluated by
TLC for the instances).

| Module | Theorems | Argument |
|---|---|---|
| `SoundFifoProofs` | `FifoTypeCorrect`, `FifoPositionsAgree`, `FifoImplementsQueue` | `FifoInv`: the type and `RingConsistent` (write position = read position + count, modulo the capacity) is inductive. The refinement maps the ring to the sequence `Contents` of its `count` places from the read position; arithmetic of `%` is in lemmas (`ModStep`, `PlaceArith`, `PlacesDiffer`). |
| `DmaProofs` | `DmaTypeCorrect`, `DmaRunningIffEnabled`, `DmaPendingEnabled`, `DmaAddressesExact` | The first two are one induction. `PendingEnabled` needs `~HastyRewrites`, and the strengthening that a channel with an activation on its way is enabled. With `HastyRewrites` TLC finds a counterexample, so the assumption is needed. No run checks it, nor `SpeaksGamesType` of the cartridge: where they hold they are proved. `HistoryInv` ties the internal registers, not only the latches, to the transfers counted since the start; the rest is addition modulo `AddrMod`, in lemmas. |
| `GpuProofs` | `GpuTypeCorrect`, `GpuOneEvent`, `GpuKeepsItsClock`, `GpuRowsExact`, `GpuBlankTransfers`, `GpuServedInLine` | `GInv`: type, `OneGpuEvent`, `DisplayClock` and that pictures are counted in naturals. Each handler maps the phase, the place of the line and the time of the event to the next; the arithmetic (a line is the sum of its parts, a picture the sum of its lines) is in lemmas. `RowsInv` says what the internal reference point holds at every line, which `RowsExact` alone does not. `BlanksInv` says of each channel whose control is left alone how many transfers it still owes in this line and whether one is pending or on its way. `ServedInv` bounds when a request can still be pending after a step shorter than a blank. Nothing is assumed of the longest step: a history variable (`overran`) says of the last one whether it was as long as a blank. |
| `GbaProofs`, the timers | `TimersTypeCorrect`, `TimersOneOverflowEvent`, `TimersCountIsSound`, `TimersLatencyBounded`, `TimersNoDrift`, `TimersCascadeExact` | None is inductive alone: an event's time must be tied to count and start time (`CountIsSound`) to show that a successor is in the future, which is what bounds the latency, which is what keeps a start time from passing the clock. `TimersInv` is their conjunction with the type. The last two are about the recorded history: `HistInv` adds its type and the two properties. Every write and every overflow keeps them because an overflow moves the start time on by exactly the period it counts, and because the timers that wrap together are the longest run of full cascading timers above the first (`Overflowing`), for chains of any length. |
| `GbaProofs`, the console | `RunTypeCorrect`, `PeekIsSafe`, `RunsAreBounded`, `LatencyIsBounded`; `GbaImplementsRunLoop`, `GbaKeepsPromises`, `GbaOneOfEach`; `SoundRoomForBurst`, `GbaRoomForBurst` | The first four are about *arbitrary* devices: `RInv` relates the limit's time, the clock and the phase. The next three are about the console; see below. The last two hold for drivers that are `Settled`; see below. |
| `CartridgeProofs` | `CartridgeFileIsMemory`, `CartridgeNeverPanics`, `CartridgeSpeaksGamesType`, `CartridgeReadsLastWrite`, `CartridgeBytesAreKept`, `CartridgeClockAnswers` | See below. |
| `Arm7Proofs` | `CpuTypeCorrect`, `CpuNextPcIsNext`, `CpuBanksAreOwn`, `CpuArithmeticIsExact` | See below. |
| `GdbProofs` | `GdbTypeCorrect`, `GdbReturnedIsDone`, `GdbStopIsReal`, `GdbStopIsTold`, `GdbNoLostWakeup` | `GdbInv`: at most one request exists, in the channel, at the emulator or finished (`OneRequest`); what a request under way has made of the target, and what the library takes it for (`WorkDone`); that a reason in its place or kept by the library is of a stop, and who may have ended (`Ending`). `GdbNoLostWakeup` is not checked by a run: a thread asleep has something to wait for that is still to come, which is what `RequestsReturn` rests on. |
| `JniProofs` | `JniTypeCorrect`, `JniGbaExclusive`, `JniStoppedIsClean`, `JniForegroundRuns` | What is left of a call, `todo`, is a suffix of a script that the callback put together, and a failure drops all of it up to a `catch`. `JInv` says what every such rest still promises: a request is followed by the wait for its answer (`Waits`), a step that touches the console lies after a wait for `Paused` with no store in between, or `emustate` is `Paused` already (`TouchInv`), and in the foreground a store of `Running` comes after everything that can fail, or has happened (`ForegroundInv`). `StateInv` and `WorkerInv` give the state and the channel from where the two other threads are. Lemmas show the scripts' properties once per script, and that both the tail and the part from a `catch` keep them. |

### The console

`GbaImplementsRunLoop` is a refinement, step by step: a register write, a DMA step,
a display event, an overflow with its cascade, a sample and an activation each
only remove events that are not the run's limit and add events that are not in the
past, which is what a device of `RunLoop` may do. That needs every device's state
to be of its type (`DevicesOK`) and the latency bound, which is the run loop's own
invariant, so `GbaInv` is proved as one: `RInv`, `DevicesOK` and `OneOfEach`. With the
refinement the theorems about arbitrary devices hold of the console
(`GbaKeepsPromises`). The assumptions are the modules' (`DevicesAssumption`,
`DriversAssumption`, `SoundAssumption`: a driver's writes store what a register holds,
a frame is the display's).

`RoomForBurst` needs more than its statement: a request of a sound FIFO may wait
while the program goes on. `FeedInv` says for each channel that while it is enabled
in sound mode its internal destination is the one in its register and its timing
is still special (`Feeds`), and that a pending channel's FIFO has room for its burst;
every later read of it makes more, and the only writes that could take it away are
writes of a driver that gives a running channel another address or timing, or
that hands to the sound a channel it has started for a copy. `Settled` excludes
those; `MCSound` assumes it of its drivers, so that TLC evaluates it. The burst itself
is a recursive function (`Filled`); that it adds at most its length is
`FilledCounted`, by an induction over a set of numbers (`UpToAll`).

### The cartridge

`EepromInv` has three parts for a running process. Before the size is known, a
request of the game's length is all that can be on the wire (`DetectInv`). After,
`CommandInv` says of chip and wire together that what the chip has counted and
what is still to come are one command of the game's length, so no bit is missing
or left over: this is what excludes the panics, and it holds for every
`FetchLengths`, since it leaves out what the words are. Between sessions the file
has the length of no, the smaller or the game's chip (`OffInv`), and a state that
can be loaded has the size of the one or the other chip (`SnapshotInv`).

`ReadInv` adds the words, for games that read their answers whole. The buffer (the
file between sessions) holds one of the words in `latest` at every address, but
for the one step in which a word is stored and its request not ended
(`KeptInv`). A chip transmits exactly while a read is asked for and its request
is over; then what has come of the word, and what the shift register still
holds, are the high and the low part of one word that the game may read
(`AnswerUnderway`, `HalfOut`). A saved state has either no read under way or one
of which no bit is out (`SnapshotAnswers`). The arithmetic of one shift is in
`BitLeaves` and `PlacesOut`.

`FlashInv` rests on `Protocol`: the chip's sequence and mode, the writes on the
bus, what the game is doing and what it believes of the chip are at the same
position of one of five plans (write a byte, erase a sector, erase the chip, select
a bank, enter or leave identification). With that, each byte of the memory is one
that `holds` allows is inductive, through a kill after any byte of an erase.

`ClockInv` says for each step of a transfer what the clock has made of the edges so
far: the bits of a byte sent that are in its shift register (`TakenIn`), the bits of
the internal buffer that are out, on the pin or left (`SentOut`), that the buffer tells
what the register read at the one moment it was loaded (`Telling`), and that the
status register is the one the game knows, except between a command that is to
change it and its last bit (`StatusKnown`). Between transfers the clock's state
machine rests, also after a read that was broken off. The digits of `num2bcd` and the
reversed commands are finite case splits on numbers below 256, in lemmas.
`RtcAssumption` says that the host's clock tells a time of this century, which
`load_register` asserts, and that a byte is a byte.

The EEPROM theorems assume `EarlyStates = FALSE` and `EarlyQuits = FALSE`, as the
`cartridge` run does. Both are needed: section 3 says what a game loses in a
session that ends before its first access, or when a state from before it is
loaded, and TLC shows it. `CartridgeReadsLastWrite` assumes `FetchLengths` to have
no other length than that of a whole answer, as the run does: a read broken off
swallows the next request. `CartridgeBytesAreKept` assumes none of this.

### The processor

`CpuInv` says that a state between two instructions is a `Processor` (words in
words, statuses in statuses, memory where there is memory), in a mode of the seven,
`InStep` (`pc` aligned to the state's width and both slots of the pipeline holding
what was fetched on the way to it), and that what is left of the handlers is code
that may be run. It is inductive over every handler of `arm/exec.rs` and
`thumb/exec.rs`, each with its lemma: an instruction either leaves `pc`, state and
pipeline alone and then advances, or reloads the pipeline at the width it leaves the
processor in, and each must compute words. A bitwise and of words is a function by
recursion on the number of bits, shown to give a number by an induction over a set of
numbers, as in `FilledCounted`; the provers cannot use a module that declares
operators recursive.

`BanksAreOwn` needs of every instruction what it leaves alone. Most keep the mode and
with it the banks (`Live`). Where the mode changes, a register or saved status of a
mode is the same after `change_mode` as before, wherever it is kept, live or in the
banks (`AllSame`), with the two places of R8 to R12 told apart. An exception adds the
link and status of the mode it enters, a transfer of the user's registers the user's
bank; and visiting a bank and coming back composes. Each handler's lemma states which
of these it does.

`ArithmeticIsExact` is one lemma for each of the two additions and two subtractions
(`Adds`, `AddsCarry`, `Differs`, `DiffersCarry`) over half the range of a word, one
that the four flags of `a - b` order `a` and `b` (`Orders`), and one that a data
processing instruction puts exactly those into the flags and its register.

The hypotheses are those of `Arm7Cpu`. `ProgramAssumption`: instructions are of the
decoders' formats, without the program counter where the architecture calls the
result unpredictable (`ArmForm`, `ThumbForm`). Handlers are ARM code that makes no
call. `Written`: `MSR` leaves the processor in one of its modes and in ARM state, and
`LDM {..pc}^` returns to ARM code, without a rising write-back, which would go to the
base register of the mode returned to; the theorems fail without these, and the code
does nothing about it. `StatusAssumption`: a word has room for a status register, and
powers of two multiply, which TLC evaluates for the instance and the provers do not
know.

Only model-checked, and why:

* `SamplesInOrder` and `PlaysOn`: they speak of the samples in the FIFOs and of the
  drivers' periods, for which the invariant would have to follow every burst;
* `HandlersAreInvisible`: it needs what each of a handler's instructions does to
  what, a proof about one program and not about the processor;
* `DecodedAsAssembled`, `LineIsPicture`, `StoresAreLoaded`: the decoders, the line
  and the bus are enumerated. Folds over scenes and instructions are inductions
  whose steps are as large as the code;
* `RunsEnd`, `CallsReturn`, `RequestsReturn`: liveness under fairness is out of the
  prover's reach.

## 5. Not modelled, and why

* **Mixing**: volumes, bias and the four tone generators, which this emulator
  leaves unimplemented or keeps as settings no other device reads.
* **The memory a DMA moves**, and with it a DMA that writes the DMA's registers.
* **Cycle counts** of instructions and wait states: a step takes 1 to `MaxStep`
  cycles.
* **Byte accesses to the registers of the timers, the sound and the DMA channels**
  (those of the display and the interrupts are in `MemoryBus`), keypad and debug
  port: single assignments behind the same merge.
* **The halt state**: HALTCNT is at an odd address that no store reaches (a byte
  store is merged into the half-word below, `iodev.rs:309`), so
  `fast_forward_to_next` (`gba.rs:322`) is not reached. Were it reached with the
  clock exactly on the next event, it would advance by nothing and the loop would
  not leave for `handle_events`.
* **Which interrupts IME and IE let through**: `Arm7Cpu` takes one wherever
  CPSR allows it, which is every behaviour of the two registers.
* **Undefined instructions**, which end the emulator, and coprocessors.
* **Mosaic**, which the code does not draw.
* In the bus model: a cartridge with GPIO or EEPROM (they are in `Cartridge`),
  and the registers just named. A register is its readable value; the internal
  reference points and the timing that a write also sets are in `GpuTiming`.
* In the Android model: keys, touch, pictures and samples; in the GDB model: the
  packets (a library's) and what a request copies.
* **Desktop, terminal, web and libretro front ends, command-line debugger**: loops
  of one thread over `frame` and `run`.
* **Host audio, resampler, disassembly, benchmarks, ROM header and override table**:
  input and output, floating point or text, without state a property could be
  about.

## 6. Plan

The model covers the plan but for byte accesses to a few devices' registers and
wait states. The proof worth adding next is `SamplesInOrder` of `SoundController`, with
the contents of the rings in `FeedInv`.

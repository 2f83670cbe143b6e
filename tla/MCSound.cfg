\* FIFOs of four samples refilled by two; a timer that overflows every other cycle, more
\* often than the slowest step.
CONSTANTS
  NumTimers = 1
  CounterMod = 4
  TickCycles <- Ticks
  Controls <- MCControls
  Reloads = {2}
  ReadTimers = {}
  Channels = {1, 2}
  AddrMod = 64
  FifoA = 56
  FifoB = 60
  Addresses = {0, 16, 56, 60}
  WordCounts = {0}
  DmaControls <- MCDmaControls
  FifoBurst = 2
  MaxCount = 1
  Samples <- MCSamples
  Silence <- MCSilence
  Capacity = 4
  SampleCycles <- MCSampleCycles
  Drivers <- MCDrivers
  MaxStep = 3
  Horizon = 44
SPECIFICATION PSpec
INVARIANT
  RoomForBurst
PROPERTIES
  PlaysOn
  SamplesInOrder
CHECK_DEADLOCK FALSE

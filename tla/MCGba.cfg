\* A display of one line and one blank line of five cycles each.
CONSTANTS
  NumTimers = 1
  CounterMod = 4
  TickCycles <- Ticks
  Controls <- MCControls
  Reloads = {1}
  ReadTimers = {}
  Channels = {0}
  AddrMod = 64
  FifoA = 56
  FifoB = 60
  Addresses = {0}
  WordCounts = {0}
  DmaControls <- MCDmaControls
  FifoBurst = 2
  MaxCount = 1
  Samples <- MCSamples
  Silence <- MCSilence
  Capacity = 4
  SampleCycles <- MCSampleCycles
  Drivers <- MCDrivers
  DISPLAY_HEIGHT = 1
  VBLANK_LINES = 1
  CYCLES_HDRAW = 2
  CYCLES_HBLANK = 3
  VcountSettings = {}
  RefPoints = {}
  RefDeltas = {}
  FrameCycles = 10
  DeviceTypes <- MCDeviceTypes
  MaxStep = 2
  Horizon = 26
SPECIFICATION GbaSpec
INVARIANTS
  OneLimitPerRun
  OneOfEach
  LatencyBounded
PROPERTIES
  RunLoopSpec
  RunsEnd
CHECK_DEADLOCK FALSE

\* Three visible lines and one blank one of four cycles, a little over two pictures,
\* drawn with reference points that move between the lines.
CONSTANTS
  Channels = {0}
  AddrMod = 64
  FifoA = 40
  FifoB = 44
  Addresses = {}
  WordCounts = {}
  DmaControls <- BlankControls
  FifoBurst = 16
  MaxCount = 1
  DISPLAY_HEIGHT = 3
  VBLANK_LINES = 1
  CYCLES_HDRAW = 1
  CYCLES_HBLANK = 3
  VcountSettings = {3}
  DispstatWrites <- MCDispstats
  RefPoints = {7}
  RefDeltas = {2}
  MaxStep = 5
  Horizon = 34
SPECIFICATION GSpec
INVARIANTS
  OneGpuEvent
  DisplayClock
  BlankTransfers
  RowsExact
PROPERTIES
  ServedInLine
CHECK_DEADLOCK FALSE

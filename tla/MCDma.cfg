\* A sound channel and an ordinary one; addresses wrap at 64, FIFO_A is 40.
CONSTANTS
  Channels = {0, 1}
  AddrMod = 64
  FifoA = 40
  FifoB = 44
  Addresses = {40, 60}
  WordCounts = {0, 1}
  DmaControls <- MCControls
  FifoBurst = 16
  MaxCount = 3
  HastyRewrites = FALSE
  MaxStep = 2
  Horizon = 6
SPECIFICATION DSpec
INVARIANTS
  RunningIffEnabled
  AddressesExact
CHECK_DEADLOCK FALSE

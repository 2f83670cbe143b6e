CONSTANTS
  WordBits = 12
  Gprs = {0, 1, 8, 13, 14}
  Ram <- MCRam
  ArmInstructions <- MCArm
  ThumbInstructions <- MCThumb
  IrqHandler <- MCIrqHandler
  SwiHandler <- MCSwiHandler
  Starts <- MCStarts
  MaxSteps = 2
  MaxIrqs = 2
SPECIFICATION PSpec
INVARIANTS
  NextPcIsNext
PROPERTIES
  BanksAreOwn
  HandlersAreInvisible
  ArithmeticIsExact
CHECK_DEADLOCK FALSE

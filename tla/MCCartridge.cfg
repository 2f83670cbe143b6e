CONSTANTS
  Cell <- MCCell
  Erased = 7
  AddrBits <- MCAddrBits
  Words <- MCWords
  DataBits = 3
  DummyBits = 2
  GameAddresses <- MCGameAddresses
  GameWords <- MCGameWords
  PartLengths = {1, 5}
  FetchLengths = {5}
  EarlyQuits = FALSE
  EarlyStates = FALSE
  SectorSize = 2
  BankSize = 4
  Banks = {1, 2}
  CommandAddr = 1
  MagicAddr = 2
  FlashCells = {0, 1}
  FlashBytes = {2, 170}
  Clocks <- MCClocks
  StatusBytes = {64, 255}
  Media = {"Eeprom", "Sram", "Flash512", "Flash1M", "Rtc"}
SPECIFICATION CartridgeSpec
INVARIANTS
  FileIsMemory
  NeverPanics
  ClockAnswers
  BytesAreKept
PROPERTY ReadsLastWrite

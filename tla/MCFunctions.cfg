CONSTANTS
  WordBits = 12
  Nibbles = {0, 9, 15}
  DISPLAY_WIDTH = 24
  DISPLAY_HEIGHT = 160
  Vram <- MCVram
  Palette <- MCPalette
  Scenes <- MCScenes
  PowerOn <- MCPowerOn
  RomSize = 512
  Hardware <- MCHardware
  Histories <- MCHistories
SPECIFICATION FSpec
INVARIANTS
  DecodedAsAssembled
  LineIsPicture
  StoresAreLoaded
CHECK_DEADLOCK FALSE

SPECIFICATION Spec
CONSTANTS
  BYTE = 256
  ROM_BEGIN = 32768
  PRGROM_BANK_SIZE = 16384
  CHRROM_BANK_SIZE = 8192
  INES_HEADER_SIZE = 16
  PATTERN_TABLE_ADDR = 8192
  NAMETABLE_SIZE = 1024
  VRAM_ADDR_SIZE = 16384
  PALETTE_ADDR = 16128
  PALETTE_RAM_SIZE = 32
  PALETTE_SIZE = 4
  CIRAM_ADDR = 8192
  CIRAM_SIZE = 2048
  PATTERN_SIZE = 16
  RAM_SIZE = 16416
  CARTRIDGE_BEGIN = 16416
  RAM_MIRRORING_RANGE_START = 2048
  RAM_MIRRORING_RANGE_END = 6143
  RAM_MIRRORING_BASE = 2048
  PPU_REG_MIRRORING_RANGE_START = 8200
  PPU_REG_MIRRORING_RANGE_END = 16383
  PPU_REG_MIRRORING_BASE = 8
  PPU_REG_MIRRORING_ADDR = 8192
  SCREEN_WIDTH = 16
  RENDERING_SCANLINES = 8
  SCANLINES = 12
  DOTS_PER_SCANLINE = 341
  Garbage <- MCGarbage
  Files <- MCFiles
INVARIANT TypeOK
INVARIANT RefusesUnloadable
INVARIANT CartridgeIsFile
INVARIANT NoLineAfterStop
INVARIANT OvershootBounded
PROPERTY BootsFromFile
PROPERTY CatchUpEnds
PROPERTY InterruptEndsLoop
PROPERTY StopEndsLoop

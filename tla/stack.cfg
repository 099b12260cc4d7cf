SPECIFICATION Spec
CONSTANTS
  BYTE = 6
  ROM_BEGIN = 32
  PRGROM_BANK_SIZE = 2
  CHRROM_BANK_SIZE = 4
  RAM_SIZE = 20
  CARTRIDGE_BEGIN = 20
  RAM_MIRRORING_RANGE_START = 7
  RAM_MIRRORING_RANGE_END = 13
  RAM_MIRRORING_BASE = 7
  PPU_REG_MIRRORING_RANGE_START = 16
  PPU_REG_MIRRORING_RANGE_END = 19
  PPU_REG_MIRRORING_BASE = 2
  PPU_REG_MIRRORING_ADDR = 14
  Values = {0, 1, 2}
INVARIANT TypeOK
PROPERTY ImplementsLifo

SPECIFICATION Spec
CONSTANTS
  BYTE = 4
  ROM_BEGIN = 12
  PRGROM_BANK_SIZE = 2
  CHRROM_BANK_SIZE = 4
  RAM_SIZE = 11
  CARTRIDGE_BEGIN = 11
  RAM_MIRRORING_RANGE_START = 2
  RAM_MIRRORING_RANGE_END = 4
  RAM_MIRRORING_BASE = 2
  PPU_REG_MIRRORING_RANGE_START = 8
  PPU_REG_MIRRORING_RANGE_END = 9
  PPU_REG_MIRRORING_BASE = 2
  PPU_REG_MIRRORING_ADDR = 6
  Values = {0, 3}
  Addresses <- MCAddresses
  Cartridges <- MCCartridges
INVARIANT TypeOK
INVARIANT MirrorsUnused
PROPERTY ImplementsAddressSpace

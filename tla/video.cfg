SPECIFICATION Spec
CONSTANTS
  BYTE = 4
  ROM_BEGIN = 12
  PRGROM_BANK_SIZE = 2
  CHRROM_BANK_SIZE = 2
  INES_HEADER_SIZE = 16
  PATTERN_TABLE_ADDR = 2
  NAMETABLE_SIZE = 2
  VRAM_ADDR_SIZE = 15
  PALETTE_ADDR = 11
  PALETTE_RAM_SIZE = 2
  PALETTE_SIZE = 2
  CIRAM_ADDR = 2
  CIRAM_SIZE = 4
  PATTERN_SIZE = 2
  Values = {0, 3}
  Addresses <- MCAddresses
  Cartridges <- MCCartridges
INVARIANT TypeOK
INVARIANT PatternIsBytes
INVARIANT PaletteIsBytes
PROPERTY ImplementsAddressSpace

SPECIFICATION Spec
CONSTANTS
  BYTE = 256
  ROM_BEGIN = 32768
  PRGROM_BANK_SIZE = 16384
  CHRROM_BANK_SIZE = 8192
  RAM_SIZE = 16416
  CARTRIDGE_BEGIN = 16416
  RAM_MIRRORING_RANGE_START = 2048
  RAM_MIRRORING_RANGE_END = 6143
  RAM_MIRRORING_BASE = 2048
  PPU_REG_MIRRORING_RANGE_START = 8200
  PPU_REG_MIRRORING_RANGE_END = 16383
  PPU_REG_MIRRORING_BASE = 8
  PPU_REG_MIRRORING_ADDR = 8192
  Garbage <- MCGarbage
  START_PC <- Start
  Cartridges <- ProcessorPrograms
  MayRestart <- MCMayRestart
  MaxResets = 1
  MaxSteps = 16
CHECK_DEADLOCK FALSE
INVARIANT TypeOK
INVARIANT BreakFlagNeverLive
INVARIANT FramesIntact
PROPERTY FailureIsolation
PROPERTY FailureReported
PROPERTY SuccessMeansStored
PROPERTY ReturnsToCaller

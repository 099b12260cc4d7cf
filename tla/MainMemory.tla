------------------------------ MODULE MainMemory ------------------------------
(***************************************************************************)
(* struct nes_mem_main: the CPU's bus.  Addresses below CARTRIDGE_BEGIN    *)
(* are cells of _data, two ranges of which are mirrors of others; the rest *)
(* is delegated to the cartridge.  The numbers of the C header are         *)
(* constants so that TLC can check the same functions over a small map.    *)
(***************************************************************************)
EXTENDS Nrom

CONSTANTS
  RAM_SIZE,                        \* Cells of _data, 0x4020.
  CARTRIDGE_BEGIN,                 \* First address of the cartridge, 0x4020.
  RAM_MIRRORING_RANGE_START,       \* 0x0800
  RAM_MIRRORING_RANGE_END,         \* 0x17FF
  RAM_MIRRORING_BASE,              \* 0x0800
  PPU_REG_MIRRORING_RANGE_START,   \* 0x2008
  PPU_REG_MIRRORING_RANGE_END,     \* 0x3FFF
  PPU_REG_MIRRORING_BASE,          \* 0x0008
  PPU_REG_MIRRORING_ADDR           \* 0x2000

ASSUME MapAssumption ==
  /\ RAM_SIZE \in Nat
  /\ CARTRIDGE_BEGIN \in Nat
  /\ RAM_MIRRORING_RANGE_START \in Nat
  /\ RAM_MIRRORING_RANGE_END \in Nat
  /\ RAM_MIRRORING_BASE \in Nat \ {0}
  /\ PPU_REG_MIRRORING_RANGE_START \in Nat
  /\ PPU_REG_MIRRORING_RANGE_END \in Nat
  /\ PPU_REG_MIRRORING_BASE \in Nat \ {0}
  /\ PPU_REG_MIRRORING_ADDR \in Nat
  /\ RAM_MIRRORING_RANGE_START = RAM_MIRRORING_BASE
  /\ RAM_MIRRORING_RANGE_END < PPU_REG_MIRRORING_ADDR
  /\ PPU_REG_MIRRORING_ADDR % PPU_REG_MIRRORING_BASE = 0
  /\ PPU_REG_MIRRORING_RANGE_START
       = PPU_REG_MIRRORING_ADDR + PPU_REG_MIRRORING_BASE
  /\ PPU_REG_MIRRORING_RANGE_END < CARTRIDGE_BEGIN
  /\ PPU_REG_MIRRORING_RANGE_START <= CARTRIDGE_BEGIN
  /\ RAM_MIRRORING_BASE <= PPU_REG_MIRRORING_ADDR
  /\ CARTRIDGE_BEGIN <= ROM_BEGIN
  /\ CARTRIDGE_BEGIN <= RAM_SIZE

RamMirrors == RAM_MIRRORING_RANGE_START .. RAM_MIRRORING_RANGE_END
PpuMirrors == PPU_REG_MIRRORING_RANGE_START .. PPU_REG_MIRRORING_RANGE_END

(* _data after nes_mem_init. *)
nes_mem_init == ZeroArray

(* The type of _data. *)
IsData(data) == IsArray(data, 0 .. (RAM_SIZE - 1))

(* Mutant of Cell: the PPU registers are not mirrored. *)
CellPpuUnmirrored(addr) ==
  IF addr \in RamMirrors THEN addr % RAM_MIRRORING_BASE ELSE addr

(* The cell of _data an address below CARTRIDGE_BEGIN stands for. *)
Cell(addr) ==
  IF addr \in RamMirrors THEN addr % RAM_MIRRORING_BASE
  ELSE IF addr \in PpuMirrors
    THEN (addr % PPU_REG_MIRRORING_BASE) + PPU_REG_MIRRORING_ADDR
  ELSE addr

(* Mutant of nes_mem_w8: the cartridge begins one address late. *)
nes_mem_w8_off_by_one(data, addr, value) ==
  IF addr > CARTRIDGE_BEGIN
    THEN [err |-> "CARTRIDGE_PRGROM_READ_ONLY", data |-> data]
    ELSE [err |-> "SUCCESS", data |-> Poke(data, Cell(addr), value)]

nes_mem_w8(data, addr, value) ==
  IF addr >= CARTRIDGE_BEGIN
    THEN [err |-> "CARTRIDGE_PRGROM_READ_ONLY", data |-> data]
    ELSE [err |-> "SUCCESS", data |-> Poke(data, Cell(addr), value)]

nes_mem_r8(cartridge, data, addr, old) ==
  IF addr >= CARTRIDGE_BEGIN
    THEN nes_ines_nrom_prg_reader(cartridge, addr, old)
    ELSE [err |-> "SUCCESS", result |-> Peek(data, Cell(addr))]

(* Mutant of nes_mem_w16: the high byte is written first. *)
nes_mem_w16_swapped(data, addr, value) ==
  LET high == nes_mem_w8(data, Inc16(addr), Msb(value))
  IN  IF high.err # "SUCCESS" THEN high
      ELSE nes_mem_w8(high.data, addr, Lsb(value))

(* The low byte first; its failure leaves the high byte unwritten, a       *)
(* failure of the high byte leaves the low byte written.                   *)
nes_mem_w16(data, addr, value) ==
  LET low == nes_mem_w8(data, addr, Lsb(value))
  IN  IF low.err # "SUCCESS" THEN low
      ELSE nes_mem_w8(low.data, Inc16(addr), Msb(value))

nes_mem_r16(cartridge, data, addr, old) ==
  LET lsb == nes_mem_r8(cartridge, data, addr, 0)
      msb == nes_mem_r8(cartridge, data, Inc16(addr), 0)
  IN  IF lsb.err # "SUCCESS" THEN [err |-> lsb.err, result |-> old]
      ELSE IF msb.err # "SUCCESS" THEN [err |-> msb.err, result |-> old]
      ELSE [err |-> "SUCCESS", result |-> U16(msb.result, lsb.result)]
=============================================================================

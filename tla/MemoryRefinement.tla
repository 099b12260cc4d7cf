--------------------------- MODULE MemoryRefinement ---------------------------
(***************************************************************************)
(* Main memory implements the address space of AddressSpace.tla.           *)
(***************************************************************************)
EXTENDS MemoryClient

(* The bus the code gives: every address answers with what a read returns, *)
(* RAM repeats with period RAM_MIRRORING_BASE up to the end of its         *)
(* mirrors, the PPU registers with period PPU_REG_MIRRORING_BASE.          *)
Bus == [a \in Word |-> nes_mem_r8(cartridge, data, a, 0).result]

Repeats(range, period, a, b) ==
  a \in range /\ b \in range /\ a % period = b % period

MirrorAlias ==
  [a \in Word |-> {b \in Word :
     \/ a = b
     \/ Repeats(0 .. RAM_MIRRORING_RANGE_END, RAM_MIRRORING_BASE, a, b)
     \/ Repeats(PPU_REG_MIRRORING_ADDR .. PPU_REG_MIRRORING_RANGE_END,
                PPU_REG_MIRRORING_BASE, a, b)}]

CartridgeAddresses == {a \in Word : a >= CARTRIDGE_BEGIN}
UnmappedAddresses  == {a \in CartridgeAddresses : a < ROM_BEGIN}

Abstract == INSTANCE AddressSpace
  WITH bus        <- Bus,
       wiring     <- MirrorAlias,
       ReadError  <- [a \in UnmappedAddresses |-> "CARTRIDGE_ADDR_NOT_MAPPED"],
       WriteError <- [a \in CartridgeAddresses |-> "CARTRIDGE_PRGROM_READ_ONLY"]

(* Cell is the quotient of the address space by its mirrors: a write is    *)
(* read back at every mirror and disturbs no other address, a failed call  *)
(* changes only the low byte of a word, and no read changes anything.      *)
ImplementsAddressSpace == Abstract!Spec
=============================================================================

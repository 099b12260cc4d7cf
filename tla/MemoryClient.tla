----------------------------- MODULE MemoryClient -----------------------------
(***************************************************************************)
(* Main memory under any sequence of its four calls.  `ret' and `result'   *)
(* are what the last call returned and what the caller's out-parameter     *)
(* holds after it.                                                         *)
(***************************************************************************)
EXTENDS MainMemory

CONSTANTS
  Addresses,    \* The addresses the client uses.
  Values,       \* The bytes the client writes.
  Cartridges    \* The cartridges that may be inserted.

ASSUME ClientAssumption ==
  /\ Addresses \subseteq Word
  /\ Values \subseteq Byte
  /\ \A cartridge \in Cartridges : IsNrom(cartridge)

VARIABLES data, cartridge, ret, result

vars == <<data, cartridge, ret, result>>

Init ==
  /\ data = nes_mem_init
  /\ cartridge \in Cartridges
  /\ ret = "SUCCESS"
  /\ result = 0

Write(w) ==
  /\ data' = w.data
  /\ ret' = w.err
  /\ UNCHANGED <<cartridge, result>>

Read(r) ==
  /\ ret' = r.err
  /\ result' = r.result
  /\ UNCHANGED <<data, cartridge>>

Next ==
  \E addr \in Addresses :
    \/ \E value \in Values : Write(nes_mem_w8(data, addr, value))
    \/ \E msb, lsb \in Values :
         Write(nes_mem_w16(data, addr, U16(msb, lsb)))
    \/ Read(nes_mem_r8(cartridge, data, addr, result))
    \/ Read(nes_mem_r16(cartridge, data, addr, result))

Spec == Init /\ [][Next]_vars

-----------------------------------------------------------------------------
(* _data holds bytes, at its own indices only: no call leaves the array.   *)
TypeOK ==
  /\ IsData(data)
  /\ IsNrom(cartridge)
  /\ ret \in {"SUCCESS", "CARTRIDGE_PRGROM_READ_ONLY",
              "CARTRIDGE_ADDR_NOT_MAPPED"}
  /\ result \in Word

(* The cells of the mirrored ranges are never used, whatever is written    *)
(* through them: the header's "OPTIMIZATION" note may drop them from the   *)
(* array without changing any answer.                                      *)
MirrorsUnused == DOMAIN data \cap (RamMirrors \cup PpuMirrors) = {}

(* main.h's table under RAM_MIRRORING_BASE: all RAM below the PPU          *)
(* registers repeats 0x0000-0x07FF, 0x1800-0x1FFF included.                *)
RamFullyMirrored ==
  \A a \in Addresses :
    a < PPU_REG_MIRRORING_ADDR =>
      Peek(data, Cell(a)) = Peek(data, a % RAM_MIRRORING_BASE)
=============================================================================

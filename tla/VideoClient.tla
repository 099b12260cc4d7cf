------------------------------ MODULE VideoClient ------------------------------
(***************************************************************************)
(* Video memory under any sequence of its four byte and word calls.  `ret' *)
(* and `result' are what the last call returned and what the caller's      *)
(* out-parameter holds after it.                                           *)
(***************************************************************************)
EXTENDS Video

CONSTANTS
  Addresses,    \* The addresses the client uses.
  Values,       \* The bytes the client writes.
  Cartridges    \* The cartridges that may be inserted.

ASSUME ClientAssumption ==
  /\ Addresses \subseteq Word
  /\ Values \subseteq Byte
  /\ \A c \in Cartridges : IsCartridge(c) /\ c.chr_mapper_fn \in Mappers

VARIABLES vram, cartridge, ret, result

vars == <<vram, cartridge, ret, result>>

Init ==
  /\ vram = nes_vram_init
  /\ cartridge \in Cartridges
  /\ ret = "SUCCESS"
  /\ result = 0

Write(w) ==
  /\ vram' = w.vram
  /\ ret' = w.err
  /\ UNCHANGED <<cartridge, result>>

Read(r) ==
  /\ ret' = r.err
  /\ result' = r.result
  /\ UNCHANGED <<vram, cartridge>>

Next ==
  \E addr \in Addresses :
    \/ \E value \in Values : Write(nes_vram_w8(vram, cartridge, addr, value))
    \/ \E msb, lsb \in Values :
         /\ msb # lsb   \* Tells which half went where.
         /\ Write(nes_vram_w16(vram, cartridge, addr, U16(msb, lsb)))
    \/ Read(nes_vram_r8(vram, cartridge, addr, result))
    \/ Read(nes_vram_r16(vram, cartridge, addr, result))

Spec == Init /\ [][Next]_vars

-----------------------------------------------------------------------------
(* ciram and palette_ram hold bytes, at their own indices only: no address *)
(* and no mirroring function leads a write out of its array.               *)
TypeOK ==
  /\ IsVram(vram)
  /\ IsCartridge(cartridge)
  /\ ret \in {"SUCCESS", "MEMORY_INVALILD_ADDR", "CARTRIDGE_CHRROM_READ_ONLY",
              "CARTRIDGE_ADDR_NOT_MAPPED"}
  /\ result \in Word

ByteAt(a) == nes_vram_r8(vram, cartridge, a, 0)

(* nes_vram_pattern_read is the bytes nes_vram_r8 gives one by one: it     *)
(* succeeds exactly when each of them is in the pattern tables, and never  *)
(* runs from the last pattern into the nametables.                         *)
PatternIsBytes ==
  \A a \in Addresses :
    LET p == nes_vram_pattern_read(cartridge, a, [i \in PatternBytes |-> 0])
    IN  /\ (p.err = "SUCCESS") <=> (a + PATTERN_SIZE <= PATTERN_TABLE_ADDR)
        /\ p.err = "SUCCESS" =>
             \A i \in PatternBytes : p.pattern[i] = ByteAt(a + i).result

(* The addresses at which a palette starts, in palette RAM or a mirror. *)
PaletteStarts ==
  {a \in Addresses : /\ a \in PALETTE_ADDR .. (VRAM_ADDR_SIZE - 1)
                     /\ (a - PALETTE_ADDR) % PALETTE_SIZE = 0}

(* nes_vram_palette_read at the start of a palette, in every mirror, is    *)
(* the bytes nes_vram_r8 gives, and reads nothing after palette_ram.       *)
PaletteIsBytes ==
  \A a \in PaletteStarts :
    LET p == nes_vram_palette_read(vram, a, [i \in PaletteBytes |-> 0])
    IN  \A i \in PaletteBytes : p.palette[i] = ByteAt(a + i).result
=============================================================================

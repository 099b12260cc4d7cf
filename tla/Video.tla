--------------------------------- MODULE Video ---------------------------------
(***************************************************************************)
(* struct nes_mem_video: the PPU's bus.  The pattern tables are in the     *)
(* cartridge, the nametables in `ciram' where the cartridge's mirroring    *)
(* function puts them, the palettes in `palette_ram'.                      *)
(***************************************************************************)
EXTENDS Ines, Mirroring

CONSTANTS
  VRAM_ADDR_SIZE,     \* End of the address space, 0x4000.
  PALETTE_ADDR,       \* First address of palette RAM, 0x3F00.
  PALETTE_RAM_SIZE,   \* Bytes of palette_ram, 0x20.
  PALETTE_SIZE,       \* Bytes of a palette, 4.
  CIRAM_ADDR,         \* First address a mapper may return, 0x2000.
  CIRAM_SIZE,         \* Bytes of ciram, 0x800.
  PATTERN_SIZE        \* Bytes of a pattern, 16.

ASSUME VideoAssumption ==
  /\ VRAM_ADDR_SIZE \in Nat
  /\ VRAM_ADDR_SIZE < WORD
  /\ PALETTE_ADDR \in Nat
  /\ PALETTE_ADDR < VRAM_ADDR_SIZE
  /\ PATTERN_TABLE_ADDR <= PALETTE_ADDR
  /\ PALETTE_ADDR <= 2 * SecondHalf
  /\ VRAM_ADDR_SIZE <= 2 * PALETTE_ADDR
  /\ PALETTE_SIZE \in Nat \ {0}
  /\ PALETTE_RAM_SIZE \in Nat \ {0}
  /\ PALETTE_RAM_SIZE % PALETTE_SIZE = 0
  /\ (VRAM_ADDR_SIZE - PALETTE_ADDR) % PALETTE_RAM_SIZE = 0
  /\ CIRAM_ADDR = PATTERN_TABLE_ADDR
  /\ CIRAM_SIZE = 2 * NAMETABLE_SIZE
  /\ PATTERN_SIZE \in Nat \ {0}

IsVram(vram) ==
  /\ IsArray(vram.ciram, 0 .. (CIRAM_SIZE - 1))
  /\ IsArray(vram.palette_ram, 0 .. (PALETTE_RAM_SIZE - 1))

nes_vram_init == [ciram |-> ZeroArray, palette_ram |-> ZeroArray]

(* A byte from outside of palette_ram: whatever lies after the array.      *)
Beyond == -1

_cartridge_mapping(cartridge, addr) ==
  CASE cartridge.chr_mapper_fn = "vertical" ->
         nes_cartridge_mapper_vertical(addr)
    [] cartridge.chr_mapper_fn = "horizontal" ->
         nes_cartridge_mapper_horizontal(addr)
    [] OTHER -> [err |-> "CARTRIDGE_NO_CALLBACK", mapped |-> addr]

(* Mutant of PaletteCell: the second modulo is missing, so that the        *)
(* mirrors are cells of their own.                                         *)
PaletteCellUnmirrored(addr) == addr % PALETTE_ADDR

(* The index in palette_ram: two modulos in turn. *)
PaletteCell(addr) == (addr % PALETTE_ADDR) % PALETTE_RAM_SIZE

(* Where the byte of an address is: an index in one of the three memories, *)
(* or the code that refuses it.                                            *)
Located(where, index) == [where |-> where, index |-> index]

Locate(cartridge, addr) ==
  LET m == _cartridge_mapping(cartridge, addr)
  IN  IF addr >= VRAM_ADDR_SIZE THEN Located("MEMORY_INVALILD_ADDR", 0)
      ELSE IF addr >= PALETTE_ADDR THEN Located("palette", PaletteCell(addr))
      ELSE IF m.err = "DELEGATE_RWOP" THEN Located("chr", m.mapped)
      ELSE IF m.err # "SUCCESS" THEN Located(m.err, 0)
      ELSE IF m.mapped < CIRAM_ADDR THEN Located("MEMORY_VRAM_BAD_MAPPER", 0)
      ELSE Located("ciram", m.mapped % CIRAM_SIZE)

Stored(vram) == [err |-> "SUCCESS", vram |-> vram]

(* NROM has no chr_write_fn. *)
nes_vram_w8(vram, cartridge, addr, data) ==
  LET at == Locate(cartridge, addr)
  IN  CASE at.where = "palette" ->
             Stored([vram EXCEPT !.palette_ram = Poke(@, at.index, data)])
        [] at.where = "ciram" ->
             Stored([vram EXCEPT !.ciram = Poke(@, at.index, data)])
        [] at.where = "chr" ->
             [err |-> "CARTRIDGE_CHRROM_READ_ONLY", vram |-> vram]
        [] OTHER -> [err |-> at.where, vram |-> vram]

nes_vram_r8(vram, cartridge, addr, old) ==
  LET at == Locate(cartridge, addr)
  IN  CASE at.where = "palette" ->
             [err |-> "SUCCESS", result |-> Peek(vram.palette_ram, at.index)]
        [] at.where = "ciram" ->
             [err |-> "SUCCESS", result |-> Peek(vram.ciram, at.index)]
        [] at.where = "chr" ->
             nes_ines_nrom_chr_reader(cartridge, at.index, old)
        [] OTHER -> [err |-> at.where, result |-> old]

(* The low byte first; it stays written when the high byte is refused. *)
nes_vram_w16(vram, cartridge, addr, data) ==
  LET low == nes_vram_w8(vram, cartridge, addr, Lsb(data))
  IN  IF low.err # "SUCCESS" THEN low
      ELSE nes_vram_w8(low.vram, cartridge, Inc16(addr), Msb(data))

nes_vram_r16(vram, cartridge, addr, old) ==
  LET lsb == nes_vram_r8(vram, cartridge, addr, 0)
      msb == nes_vram_r8(vram, cartridge, Inc16(addr), 0)
  IN  IF lsb.err # "SUCCESS" THEN [err |-> lsb.err, result |-> old]
      ELSE IF msb.err # "SUCCESS" THEN [err |-> msb.err, result |-> old]
      ELSE [err |-> "SUCCESS", result |-> U16(msb.result, lsb.result)]

PatternBytes == 0 .. (PATTERN_SIZE - 1)
PaletteBytes == 0 .. (PALETTE_SIZE - 1)

(* Mutant of nes_vram_pattern_read: the last byte's failure is lost. *)
nes_vram_pattern_read_lost(cartridge, addr, old) ==
  LET m    == _cartridge_mapping(cartridge, addr)
      read == [i \in PatternBytes |->
                 nes_ines_nrom_chr_reader(cartridge, m.mapped + i, old[i])]
  IN  IF addr >= PATTERN_TABLE_ADDR
        THEN [err |-> "MEMORY_INVALILD_ADDR", pattern |-> old]
        ELSE [err |-> read[0].err,
              pattern |-> [i \in PatternBytes |-> read[i].result]]

(* The bytes one by one, up to the first the cartridge refuses; the ones   *)
(* before it are in the caller's buffer.                                   *)
nes_vram_pattern_read(cartridge, addr, old) ==
  LET m       == _cartridge_mapping(cartridge, addr)
      read    == [i \in PatternBytes |->
                    nes_ines_nrom_chr_reader(cartridge, m.mapped + i, old[i])]
      refused == {read[i].err : i \in PatternBytes} \ {"SUCCESS"}
  IN  IF addr >= PATTERN_TABLE_ADDR
        THEN [err |-> "MEMORY_INVALILD_ADDR", pattern |-> old]
      ELSE IF m.err = "DELEGATE_RWOP"
        THEN [err |-> IF refused = {} THEN "SUCCESS" ELSE CHOOSE e \in refused : TRUE,
              pattern |-> [i \in PatternBytes |-> read[i].result]]
      ELSE [err |-> IF m.err = "SUCCESS" THEN "MEMORY_VRAM_BAD_MAPPER" ELSE m.err,
            pattern |-> old]

(* Mutant of nes_vram_palette_read: the start is not reduced to a mirror. *)
nes_vram_palette_read_unmirrored(vram, addr, old) ==
  [err |-> "SUCCESS",
   palette |-> [i \in PaletteBytes |->
      LET cell == (addr % PALETTE_ADDR) + i
      IN  IF cell < PALETTE_RAM_SIZE THEN Peek(vram.palette_ram, cell)
          ELSE Beyond]]

(* The start is reduced to an index, the bytes after it are not. *)
nes_vram_palette_read(vram, addr, old) ==
  IF addr >= VRAM_ADDR_SIZE \/ addr < PALETTE_ADDR
    THEN [err |-> "MEMORY_INVALILD_ADDR", palette |-> old]
    ELSE [err |-> "SUCCESS",
          palette |-> [i \in PaletteBytes |->
             LET cell == PaletteCell(addr) + i
             IN  IF cell < PALETTE_RAM_SIZE THEN Peek(vram.palette_ram, cell)
                 ELSE Beyond]]
=============================================================================

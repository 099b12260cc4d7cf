---------------------------------- MODULE Ppu ----------------------------------
(***************************************************************************)
(* struct nes_ppu, of which only the scanline is used at this commit, and  *)
(* nes_ppu_render, which draws one scanline of the background.  A drawn    *)
(* line is kept by tile: its palette and the two bit planes of its row.    *)
(* Colours are kept as indexes of the system palette.                      *)
(***************************************************************************)
EXTENDS Video, MainMemory, Sequences

CONSTANTS
  SCREEN_WIDTH,          \* Pixels of a line, 256.
  RENDERING_SCANLINES,   \* Last visible scanline, 239.
  SCANLINES,             \* Scanlines of a frame, 262.
  DOTS_PER_SCANLINE      \* PPU cycles of a scanline, 341.

DOTS_PER_TILE        == 8
TILES_PER_ATTR       == 4
TILES_PER_QUAD       == 2
ATTRTABLE_OFFSET     == \h3C0
ATTRTABLE_WIDTH      == 8
NAMETABLE_BASE_ADDR  == \h2000
NAMETABLE_WIDTH      == 32
PATTERN_OFFSET       == \h1000
PRERENDER_SCANLINE   == SCANLINES - 1
PPU_REG_PPUCTRL      == PPU_REG_MIRRORING_ADDR

ASSUME PpuAssumption ==
  /\ BYTE = 256
  /\ SCREEN_WIDTH \in 1 .. NAMETABLE_WIDTH * DOTS_PER_TILE
  /\ SCREEN_WIDTH % DOTS_PER_TILE = 0
  /\ RENDERING_SCANLINES \in Nat
  /\ SCANLINES \in Nat
  /\ RENDERING_SCANLINES + 2 < SCANLINES
  /\ RENDERING_SCANLINES < BYTE
  /\ DOTS_PER_SCANLINE \in Nat

(* The renderer's own numbers are those of the map: four nametables that   *)
(* end in their attribute tables, two tables of BYTE patterns that fill    *)
(* the cartridge's CHR bank, four background palettes.                     *)
ASSUME PpuMapAssumption ==
  /\ PATTERN_TABLE_ADDR = NAMETABLE_BASE_ADDR
  /\ NAMETABLE_SIZE = ATTRTABLE_OFFSET + 64
  /\ PATTERN_TABLE_ADDR + 4 * NAMETABLE_SIZE <= PALETTE_ADDR
  /\ PATTERN_SIZE = 2 * DOTS_PER_TILE
  /\ NROM_CHRROM_SIZE = PATTERN_TABLE_ADDR
  /\ PALETTE_SIZE = 4
  /\ PALETTE_ADDR + 4 * PALETTE_SIZE <= VRAM_ADDR_SIZE

(* The scanline after nes_ppu_init. *)
nes_ppu_init == PRERENDER_SCANLINE

(* The columns of tiles of a line. *)
Columns == 0 .. (SCREEN_WIDTH \div DOTS_PER_TILE - 1)

(* The two fields of PPUCTRL that are read. *)
BaseNametable(ppuctrl) == NAMETABLE_BASE_ADDR + (ppuctrl % 4) * NAMETABLE_SIZE
BackgroundTable(ppuctrl) ==
  IF (ppuctrl \div 16) % 2 = 0 THEN 0 ELSE PATTERN_OFFSET

(* Mutant of PaletteIndex: the quadrants are numbered by column first. *)
PaletteIndexTransposed(attribute, ycoarse, xcoarse) ==
  LET quadx == (xcoarse % TILES_PER_ATTR) \div TILES_PER_QUAD
      quady == (ycoarse % TILES_PER_ATTR) \div TILES_PER_QUAD
  IN  (attribute \div 4 ^ (quadx * TILES_PER_QUAD + quady)) % 4

(* The two bits of an attribute byte for the quadrant of a tile. *)
PaletteIndex(attribute, ycoarse, xcoarse) ==
  LET quadx == (xcoarse % TILES_PER_ATTR) \div TILES_PER_QUAD
      quady == (ycoarse % TILES_PER_ATTR) \div TILES_PER_QUAD
  IN  (attribute \div 4 ^ (quady * TILES_PER_QUAD + quadx)) % 4

FirstError(codes) ==
  LET failed == {n \in DOMAIN codes : codes[n] # "SUCCESS"}
  IN  IF failed = {} THEN "SUCCESS"
      ELSE codes[CHOOSE n \in failed : \A k \in failed : n <= k]

(* The row of a tile, after its nametable byte and its attribute byte. *)
TileRow(vram, cartridge, ppuctrl, scanline, xcoarse, tile, attribute) ==
  LET ycoarse == scanline \div DOTS_PER_TILE
      yfine   == scanline % DOTS_PER_TILE
      palette == nes_vram_palette_read(vram,
                PALETTE_ADDR + PALETTE_SIZE
                  * PaletteIndex(attribute.result, ycoarse, xcoarse),
                [i \in PaletteBytes |-> 0])
      pattern == nes_vram_pattern_read(cartridge,
                BackgroundTable(ppuctrl) + PATTERN_SIZE * tile.result,
                [i \in PatternBytes |-> 0])
  IN  [err     |-> FirstError(<<tile.err, attribute.err,
                                palette.err, pattern.err>>),
       palette |-> palette.palette,
       plane0  |-> pattern.pattern[yfine],
       plane1  |-> pattern.pattern[yfine + DOTS_PER_TILE]]

(* What is read on the first dot of a tile, in the order of the reads. *)
ReadTile(vram, cartridge, ppuctrl, scanline, xcoarse) ==
  LET ycoarse == scanline \div DOTS_PER_TILE
      ntaddr  == BaseNametable(ppuctrl)
  IN  TileRow(vram, cartridge, ppuctrl, scanline, xcoarse,
        nes_vram_r8(vram, cartridge,
          ntaddr + ycoarse * NAMETABLE_WIDTH + xcoarse, 0),
        nes_vram_r8(vram, cartridge,
          ntaddr + ATTRTABLE_OFFSET
            + (ycoarse \div TILES_PER_ATTR) * ATTRTABLE_WIDTH
            + (xcoarse \div TILES_PER_ATTR), 0))

(* The colour of a dot of a tile, the leftmost in the highest bit. *)
Dot(tile, xfine) ==
  LET shift(plane) == (plane \div 2 ^ (7 - xfine)) % 2
  IN  tile.palette[2 * shift(tile.plane1) + shift(tile.plane0)]

(* Mutant of NextScanline: a failed line is skipped. *)
NextScanlineAlways(scanline, err) == (scanline + 1) % SCANLINES

(* Mutant of NextScanline: the counter does not wrap around. *)
NextScanlineUnwrapped(scanline, err) ==
  IF err = "SUCCESS" THEN scanline + 1 ELSE scanline

(* An error returns before the end of the function: the line is tried      *)
(* again.                                                                  *)
NextScanline(scanline, err) ==
  IF err = "SUCCESS" THEN (scanline + 1) % SCANLINES ELSE scanline

(* A line, given what is read for each of its tiles.  `tiles' is the part  *)
(* that is drawn, up to the first tile that fails.                         *)
DrawLine(scanline, line) ==
  LET failed == {x \in DOMAIN line : line[x].err # "SUCCESS"}
      drawn  == {x \in DOMAIN line : \A f \in failed : x < f}
      err    == IF failed = {} THEN "SUCCESS"
                ELSE line[CHOOSE f \in failed : \A g \in failed : f <= g].err
  IN  [err      |-> err,
       scanline |-> NextScanline(scanline, err),
       tiles    |-> [x \in drawn |-> line[x]],
       cycles   |-> DOTS_PER_SCANLINE]

(* A line of the visible part of the frame has tiles, the others none.     *)
(* `cycles' is set on every path.                                          *)
nes_ppu_render(scanline, vram, cartridge, data) ==
  LET ppuctrl == nes_mem_r8(cartridge, data, PPU_REG_PPUCTRL, 0)
      visible == IF scanline <= RENDERING_SCANLINES THEN Columns ELSE {}
  IN  DrawLine(scanline,
        [x \in visible |->
           ReadTile(vram, cartridge, ppuctrl.result, scanline, x)])
=============================================================================

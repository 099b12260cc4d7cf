------------------------------- MODULE PpuClient -------------------------------
(***************************************************************************)
(* The PPU under a host that, between two lines, may write PPUCTRL on the  *)
(* CPU's bus and load another file into the cartridge's structure, which   *)
(* may fail and leave it without callbacks.  The host continues after      *)
(* errors.  `drawn' is a history: the lines drawn in this frame.           *)
(***************************************************************************)
EXTENDS Ppu

CONSTANTS
  Files,           \* The files the host loads.
  Vrams,           \* Video memory as the host has filled it.
  ControlAddrs,    \* The addresses of PPUCTRL the host uses.
  Controls         \* The values it writes there.

ASSUME PpuClientAssumption ==
  /\ \A file \in Files : IsFile(file)
  /\ \A v \in Vrams : IsVram(v)
  /\ ControlAddrs \subseteq Word
  /\ Controls \subseteq Byte

VARIABLES vram, data, cartridge, scanline, ret, drawn

vars == <<vram, data, cartridge, scanline, ret, drawn>>

Init ==
  /\ vram \in Vrams
  /\ data = nes_mem_init
  /\ \E file \in Files :
       cartridge = nes_cartridge_read_ines(EmptyCartridge, file).cartridge
  /\ scanline = nes_ppu_init
  /\ ret = "SUCCESS"
  /\ drawn = <<>>

(* The lines drawn, after one more call. *)
DrawnAfter(line) ==
  IF line.scanline = PRERENDER_SCANLINE THEN <<>>
  ELSE IF DOMAIN line.tiles = Columns THEN Append(drawn, scanline)
  ELSE drawn

RenderLine ==
  LET line == nes_ppu_render(scanline, vram, cartridge, data)
  IN  /\ scanline' = line.scanline
      /\ ret' = line.err
      /\ drawn' = DrawnAfter(line)
      /\ UNCHANGED <<vram, data, cartridge>>

WriteControl(addr, value) ==
  LET w == nes_mem_w8(data, addr, value)
  IN  /\ data' = w.data
      /\ ret' = w.err
      /\ UNCHANGED <<vram, cartridge, scanline, drawn>>

Insert(file) ==
  LET load == nes_cartridge_read_ines(cartridge, file)
  IN  /\ cartridge' = load.cartridge
      /\ ret' = load.err
      /\ UNCHANGED <<vram, data, scanline, drawn>>

Next ==
  \/ RenderLine
  \/ \E addr \in ControlAddrs, value \in Controls : WriteControl(addr, value)
  \/ \E file \in Files : Insert(file)

Spec == Init /\ [][Next]_vars

-----------------------------------------------------------------------------
TypeOK ==
  /\ IsVram(vram)
  /\ IsData(data)
  /\ IsCartridge(cartridge)
  /\ scanline \in 0 .. PRERENDER_SCANLINE
  /\ drawn \in Seq(0 .. RENDERING_SCANLINES)

(* Every visible line is drawn once a frame and in order, whatever fails   *)
(* in between: a line that fails is neither lost nor counted twice.        *)
FrameWhole ==
  LET done == IF scanline = PRERENDER_SCANLINE THEN 0
              ELSE IF scanline <= RENDERING_SCANLINES THEN scanline
              ELSE RENDERING_SCANLINES + 1
  IN  drawn = [n \in 1 .. done |-> n - 1]

VideoByte(addr) == nes_vram_r8(vram, cartridge, addr, 0).result

(* The colour the background has at a pixel: the nametable byte of its 8x8 *)
(* tile chooses a pattern, the attribute byte of its 32x32 block gives two *)
(* bits to its 16x16 quarter.                                              *)
Background(x, y) ==
  LET control  == Peek(data, PPU_REG_PPUCTRL)
      table    == CIRAM_ADDR + (control % 4) * NAMETABLE_SIZE
      tile     == VideoByte(table + 32 * (y \div 8) + (x \div 8))
      block    == VideoByte(table + \h3C0 + 8 * (y \div 32) + (x \div 32))
      quarter  == block \div 2 ^ (4 * ((y \div 16) % 2) + 2 * ((x \div 16) % 2))
      row      == \h1000 * ((control \div 16) % 2) + 16 * tile + (y % 8)
      bit(addr) == (VideoByte(addr) \div 2 ^ (7 - (x % 8))) % 2
  IN  VideoByte(PALETTE_ADDR + 4 * (quarter % 4) + 2 * bit(row + 8) + bit(row))

(* With any loaded cartridge and any PPUCTRL, the next line is drawn whole *)
(* and each of its pixels is the background's there.                       *)
LineIsBackground ==
  (scanline <= RENDERING_SCANLINES /\ cartridge.chr_mapper_fn # "NULL") =>
    LET line == nes_ppu_render(scanline, vram, cartridge, data)
    IN  /\ DOMAIN line.tiles = Columns
        /\ \A column \in Columns :
             LET tile == line.tiles[column]
             IN  \A xfine \in 0 .. 7 :
                   Dot(tile, xfine) = Background(8 * column + xfine, scanline)
=============================================================================

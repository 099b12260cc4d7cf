--------------------------- MODULE PpuClient_proofs ---------------------------
(***************************************************************************)
(* The PPU draws every visible line of a frame once and in order, whatever *)
(* fails in between, and each of its pixels is the background's: for every *)
(* size of the screen and of the frame that PpuAssumption admits, every    *)
(* file, every contents of video memory and every value of PPUCTRL.        *)
(***************************************************************************)
EXTENDS PpuClient, Memory_proofs, SequenceTheorems

-----------------------------------------------------------------------------
(* A line.                                                                 *)

(* What the assumptions say of the numbers of the frame.                   *)
LEMMA FrameNumbers ==
  /\ RENDERING_SCANLINES \in Nat /\ RENDERING_SCANLINES < 256
  /\ PRERENDER_SCANLINE \in Nat
  /\ RENDERING_SCANLINES + 1 < PRERENDER_SCANLINE
  /\ SCANLINES = PRERENDER_SCANLINE + 1
BY PpuAssumption DEF PRERENDER_SCANLINE

(* A line has a column, and the columns are natural numbers.               *)
LEMMA ColumnsType == 0 \in Columns /\ Columns \subseteq 0 .. 31
<1>1. /\ SCREEN_WIDTH \in Int /\ SCREEN_WIDTH % 8 = 0
      /\ 1 <= SCREEN_WIDTH /\ SCREEN_WIDTH <= 256
  BY PpuAssumption DEF NAMETABLE_WIDTH, DOTS_PER_TILE
<1> DEFINE q == SCREEN_WIDTH \div 8
<1>2. q \in Int /\ SCREEN_WIDTH = q * 8 + 0
  BY <1>1, DivMod
<1>3. Columns = 0 .. (q - 1)
  BY DEF Columns, DOTS_PER_TILE
<1> HIDE DEF q
<1>4. 1 <= q /\ q <= 32
  BY <1>1, <1>2
<1> QED
  BY <1>2, <1>3, <1>4

(* The scanline after a line that succeeds.                                *)
LEMMA NextScanlineType ==
  ASSUME NEW s \in 0 .. PRERENDER_SCANLINE
  PROVE  (s + 1) % SCANLINES = IF s = PRERENDER_SCANLINE THEN 0 ELSE s + 1
<1>1. CASE s = PRERENDER_SCANLINE
  <2>1. (1 * SCANLINES + 0) % SCANLINES = 0
    BY FrameNumbers, DivModUnique
  <2> QED
    BY <1>1, <2>1, FrameNumbers
<1>2. CASE s # PRERENDER_SCANLINE
  BY <1>2, FrameNumbers
<1> QED
  BY <1>1, <1>2

(* A line succeeds when each of its tiles does, and is then drawn whole;   *)
(* it stops before its first tile that fails, and is not drawn whole.      *)
LEMMA DrawnLine ==
  ASSUME NEW s, NEW line, DOMAIN line \in SUBSET Nat
  PROVE  LET d == DrawLine(s, line)
         IN  /\ d.cycles = DOTS_PER_SCANLINE
             /\ \/ /\ \A x \in DOMAIN line : line[x].err = "SUCCESS"
                   /\ d.err = "SUCCESS"
                   /\ d.scanline = (s + 1) % SCANLINES
                   /\ d.tiles = [x \in DOMAIN line |-> line[x]]
                   /\ DOMAIN d.tiles = DOMAIN line
                \/ /\ \E x \in DOMAIN line : line[x].err # "SUCCESS"
                   /\ d.err # "SUCCESS"
                   /\ d.scanline = s
                   /\ DOMAIN d.tiles # DOMAIN line
<1> DEFINE failed == {x \in DOMAIN line : line[x].err # "SUCCESS"}
           drawn_ == {x \in DOMAIN line : \A f \in failed : x < f}
           first  == CHOOSE f \in failed : \A g \in failed : f <= g
           err    == IF failed = {} THEN "SUCCESS" ELSE line[first].err
           d      == DrawLine(s, line)
<1>1. d = [err      |-> err,
           scanline |-> NextScanline(s, err),
           tiles    |-> [x \in drawn_ |-> line[x]],
           cycles   |-> DOTS_PER_SCANLINE]
  BY DEF DrawLine
<1>2. CASE failed = {}
  <2>1. drawn_ = DOMAIN line /\ err = "SUCCESS"
    BY <1>2
  <2>2. \A x \in DOMAIN line : line[x].err = "SUCCESS"
    BY <1>2
  <2> HIDE DEF failed, drawn_, err, d
  <2> QED
    BY <1>1, <2>1, <2>2 DEF NextScanline, d
<1>3. CASE failed # {}
  <2>1. \E f \in failed : \A g \in failed : f <= g
    <3>1. failed \in SUBSET Nat
      OBVIOUS
    <3> HIDE DEF failed
    <3> QED
      BY <1>3, <3>1, Least
  <2>2. first \in failed
    BY <2>1
  <2>3. err # "SUCCESS" /\ first \in DOMAIN line /\ first \in Nat
    BY <1>3, <2>2
  <2>4. first \notin drawn_
    BY <2>2, <2>3
  <2>5. \E x \in DOMAIN line : line[x].err # "SUCCESS"
    BY <2>2
  <2> HIDE DEF failed, drawn_, err, d, first
  <2> QED
    BY <1>1, <2>3, <2>4, <2>5 DEF NextScanline, d
<1> QED
  BY <1>2, <1>3

-----------------------------------------------------------------------------
(* The types and the frame.                                                *)

(* The lines that are drawn when a scanline is to come.                    *)
Done(s) ==
  IF s = PRERENDER_SCANLINE THEN 0
  ELSE IF s <= RENDERING_SCANLINES THEN s
  ELSE RENDERING_SCANLINES + 1

(* The first lines, in order.                                              *)
Lines(n) == [k \in 1 .. n |-> k - 1]

(* A frame is whole when the lines drawn are the first ones, in order.     *)
LEMMA FrameIsLines == /\ FrameWhole <=> drawn = Lines(Done(scanline))
                      /\ FrameWhole' <=> drawn' = Lines(Done(scanline'))
BY DEF FrameWhole, Lines, Done

(* One more line is the next one.                                          *)
LEMMA NextLine ==
  ASSUME NEW n \in Nat
  PROVE  /\ Lines(n) \in Seq(Nat)
         /\ Append(Lines(n), n) = Lines(n + 1)
<1>1. Lines(n) \in Seq(Nat) /\ Len(Lines(n)) = n
  BY DEF Lines
<1>2. \A k \in 1 .. n : Lines(n)[k] = k - 1
  BY DEF Lines
<1> DEFINE more == Append(Lines(n), n)
<1>3. /\ more \in Seq(Nat) /\ Len(more) = n + 1
      /\ \A k \in 1 .. n : more[k] = Lines(n)[k]
      /\ more[n + 1] = n
  BY <1>1, AppendProperties
<1>4. Lines(n + 1) \in Seq(Nat) /\ Len(Lines(n + 1)) = n + 1
  BY DEF Lines
<1>5. \A k \in 1 .. (n + 1) : Lines(n + 1)[k] = k - 1
  BY DEF Lines
<1> HIDE DEF more
<1>6. \A k \in 1 .. (n + 1) : more[k] = Lines(n + 1)[k]
  BY <1>2, <1>3, <1>5
<1>7. more = Lines(n + 1)
  BY <1>3, <1>4, <1>6, SeqEqual
<1> QED
  BY <1>1, <1>7 DEF more

(* The lines drawn of a frame are visible ones.                            *)
LEMMA LinesType ==
  ASSUME NEW s \in 0 .. PRERENDER_SCANLINE
  PROVE  /\ Done(s) \in 0 .. (RENDERING_SCANLINES + 1)
         /\ Lines(Done(s)) \in Seq(0 .. RENDERING_SCANLINES)
<1>1. Done(s) \in 0 .. (RENDERING_SCANLINES + 1)
  BY FrameNumbers DEF Done
<1> DEFINE n == Done(s)
<1>2. \A k \in 1 .. n : k - 1 \in 0 .. RENDERING_SCANLINES
  BY <1>1, FrameNumbers
<1> HIDE DEF n
<1>3. n \in Nat
  BY <1>1, FrameNumbers DEF n
<1>4. Lines(n) \in Seq(0 .. RENDERING_SCANLINES)
  BY <1>2, <1>3 DEF Lines
<1> QED
  BY <1>1, <1>4 DEF n

(* The lines drawn are whole at the end of the vertical blank.             *)
IInv == TypeOK /\ FrameWhole

(* A loaded file leaves a cartridge, also when its load failed.            *)
LEMMA InitIInv == Init => IInv
<1> SUFFICES ASSUME Init PROVE IInv
  OBVIOUS
<1>1. IsCartridge(EmptyCartridge)
  <2>1. /\ IsArray(ZeroArray, 0 .. (NROM_PRGROM_SIZE - 1))
        /\ IsArray(ZeroArray, 0 .. (NROM_CHRROM_SIZE - 1))
    BY ZeroArrayType
  <2> QED
    BY <2>1 DEF IsCartridge, IsNrom, EmptyCartridge, Mappers
<1>2. IsCartridge(cartridge)
  BY <1>1, LoadType, PpuClientAssumption DEF Init
<1>3. IsVram(vram)
  BY PpuClientAssumption DEF Init
<1>4. IsData(data)
  BY ZeroArrayType DEF Init, nes_mem_init, IsData
<1>5. scanline = PRERENDER_SCANLINE /\ scanline \in 0 .. PRERENDER_SCANLINE
  BY FrameNumbers DEF Init, nes_ppu_init
<1>6. drawn = Lines(Done(scanline))
  BY <1>5 DEF Init, Lines, Done
<1> QED
  BY <1>2, <1>3, <1>4, <1>5, <1>6, LinesType, FrameIsLines DEF IInv, TypeOK

(* A call of nes_ppu_render draws the next line, or none.                  *)
LEMMA RenderIInv == IInv /\ RenderLine => IInv'
<1> SUFFICES ASSUME IInv, RenderLine PROVE IInv'
  OBVIOUS
<1> DEFINE ppuctrl == nes_mem_r8(cartridge, data, PPU_REG_PPUCTRL, 0)
           visible == IF scanline <= RENDERING_SCANLINES THEN Columns ELSE {}
           tiles   == [x \in visible |->
                         ReadTile(vram, cartridge, ppuctrl.result, scanline, x)]
           line    == DrawLine(scanline, tiles)
<1>1. line = nes_ppu_render(scanline, vram, cartridge, data)
  BY DEF nes_ppu_render
<1>2. /\ scanline' = line.scanline
      /\ drawn' = DrawnAfter(line)
      /\ UNCHANGED <<vram, data, cartridge>>
  BY <1>1 DEF RenderLine
<1>3. DOMAIN tiles = visible /\ visible \in SUBSET Nat
  BY ColumnsType
<1> HIDE DEF tiles, visible
<1>4. \/ line.scanline = (scanline + 1) % SCANLINES /\ DOMAIN line.tiles = visible
      \/ /\ line.scanline = scanline /\ DOMAIN line.tiles # visible
         /\ \E x \in visible : TRUE
  BY <1>3, DrawnLine
<1> HIDE DEF line
<1>5. /\ scanline \in 0 .. PRERENDER_SCANLINE
      /\ drawn = Lines(Done(scanline))
  BY FrameIsLines DEF IInv, TypeOK
<1>6. /\ scanline' \in 0 .. PRERENDER_SCANLINE
      /\ drawn' = Lines(Done(scanline'))
  <2>1. CASE scanline <= RENDERING_SCANLINES
    <3>1. visible = Columns /\ scanline # PRERENDER_SCANLINE /\ Done(scanline) = scanline
      BY <1>5, <2>1, FrameNumbers DEF Done, visible
    <3>2. CASE DOMAIN line.tiles = Columns
      <4>1. scanline' = scanline + 1 /\ scanline' # PRERENDER_SCANLINE
            /\ scanline' \in 0 .. PRERENDER_SCANLINE
            /\ Done(scanline') = scanline + 1
        BY <1>2, <1>4, <1>5, <2>1, <3>1, <3>2, NextScanlineType, FrameNumbers DEF Done
      <4>2. drawn' = Append(drawn, scanline)
        BY <1>2, <3>2, <4>1 DEF DrawnAfter
      <4>3. scanline \in Nat
        BY <1>5, FrameNumbers
      <4> QED
        BY <1>5, <3>1, <4>1, <4>2, <4>3, NextLine
    <3>3. CASE DOMAIN line.tiles # Columns
      BY <1>2, <1>4, <1>5, <3>1, <3>3 DEF DrawnAfter
    <3> QED
      BY <3>2, <3>3
  <2>2. CASE ~ (scanline <= RENDERING_SCANLINES)
    <3>1. visible = {} /\ Columns # {} /\ \A S : S # visible => S # {}
      BY <2>2, ColumnsType DEF visible
    <3>2. scanline' = (scanline + 1) % SCANLINES /\ DOMAIN line.tiles = {}
      BY <1>2, <1>4, <3>1
    <3>3. scanline' = IF scanline = PRERENDER_SCANLINE THEN 0 ELSE scanline + 1
      BY <1>5, <3>2, NextScanlineType
    <3>4. drawn' = IF scanline' = PRERENDER_SCANLINE THEN <<>> ELSE drawn
      BY <1>2, <3>1, <3>2 DEF DrawnAfter
    <3>5. Lines(0) = <<>>
      BY DEF Lines
    <3>6. scanline' \in 0 .. PRERENDER_SCANLINE
      BY <1>5, <3>3, FrameNumbers
    <3>7. CASE scanline' = PRERENDER_SCANLINE
      BY <3>4, <3>5, <3>6, <3>7 DEF Done
    <3>8. CASE scanline' # PRERENDER_SCANLINE
      <4>1. Done(scanline') = Done(scanline)
        BY <1>5, <2>2, <3>3, <3>8, FrameNumbers DEF Done
      <4> QED
        BY <1>5, <3>4, <3>6, <3>8, <4>1
    <3> QED
      BY <3>7, <3>8
  <2> QED
    BY <2>1, <2>2
<1>7. drawn' \in Seq(0 .. RENDERING_SCANLINES)
  BY <1>6, LinesType
<1> QED
  BY <1>2, <1>6, <1>7, FrameIsLines DEF IInv, TypeOK

(* Every step keeps the types and the frame.                               *)
LEMMA NextIInv == IInv /\ [Next]_vars => IInv'
<1> SUFFICES ASSUME IInv, [Next]_vars PROVE IInv'
  OBVIOUS
<1>1. CASE RenderLine
  BY <1>1, RenderIInv
<1>2. ASSUME NEW addr \in ControlAddrs, NEW value \in Controls,
             WriteControl(addr, value)
      PROVE  IInv'
  <2>1. IsData(data')
    BY <1>2, Write8Type, PpuClientAssumption DEF WriteControl, IInv, TypeOK
  <2>2. UNCHANGED <<vram, cartridge, scanline, drawn>>
    BY <1>2 DEF WriteControl
  <2> QED
    BY <2>1, <2>2, FrameIsLines DEF IInv, TypeOK
<1>3. ASSUME NEW file \in Files, Insert(file)
      PROVE  IInv'
  <2>1. IsCartridge(cartridge')
    BY <1>3, LoadType, PpuClientAssumption DEF Insert, IInv, TypeOK
  <2>2. UNCHANGED <<vram, data, scanline, drawn>>
    BY <1>3 DEF Insert
  <2> QED
    BY <2>1, <2>2, FrameIsLines DEF IInv, TypeOK
<1>4. CASE UNCHANGED vars
  BY <1>4, FrameIsLines DEF vars, IInv, TypeOK
<1> QED
  BY <1>1, <1>2, <1>3, <1>4 DEF Next

(* Every state satisfies the invariant.                                    *)
LEMMA SpecIInv == Spec => []IInv
BY InitIInv, NextIInv, PTL DEF Spec

(* Video memory, main memory and the cartridge stay inside their arrays    *)
(* and the scanline inside the frame, whatever file is loaded and fails to *)
(* load between two lines.                                                 *)
THEOREM TypeCorrect == Spec => []TypeOK
<1>1. IInv => TypeOK
  BY DEF IInv
<1> QED
  BY <1>1, SpecIInv, PTL

(* Every visible line is drawn once a frame and in order: a line that      *)
(* fails is tried again, neither lost nor counted twice.                   *)
THEOREM FrameIsWhole == Spec => []FrameWhole
<1>1. IInv => FrameWhole
  BY DEF IInv
<1> QED
  BY <1>1, SpecIInv, PTL

-----------------------------------------------------------------------------
(* The pixels.                                                             *)

(* The tiles of a line or of a column, the dots of a tile, the four parts  *)
(* of a block.                                                             *)
Tiles == 0 .. 31
Dots  == 0 .. 7
Parts == 0 .. 3

(* The powers that the renderer divides by.                                *)
LEMMA Powers ==
  ASSUME NEW k \in 0 .. 7
  PROVE  2 ^ k \in Nat \ {0}
<1>1. /\ 2 ^ 0 \in Nat \ {0} /\ 2 ^ 1 \in Nat \ {0} /\ 2 ^ 2 \in Nat \ {0}
      /\ 2 ^ 3 \in Nat \ {0} /\ 2 ^ 4 \in Nat \ {0} /\ 2 ^ 5 \in Nat \ {0}
      /\ 2 ^ 6 \in Nat \ {0} /\ 2 ^ 7 \in Nat \ {0}
  OBVIOUS
<1>2. \/ k = 0 \/ k = 1 \/ k = 2 \/ k = 3 \/ k = 4 \/ k = 5 \/ k = 6 \/ k = 7
  OBVIOUS
<1> QED
  BY ONLY <1>1, <1>2, Zenon

(* Two bits a quarter.                                                     *)
LEMMA Quarters ==
  ASSUME NEW a \in {0, 1}, NEW b \in {0, 1}
  PROVE  /\ 4 ^ (b * 2 + a) = 2 ^ (4 * b + 2 * a)
         /\ 2 ^ (4 * b + 2 * a) \in Nat \ {0}
<1>1. /\ 4 ^ 0 = 2 ^ 0 /\ 4 ^ 1 = 2 ^ 2 /\ 4 ^ 2 = 2 ^ 4 /\ 4 ^ 3 = 2 ^ 6
      /\ 2 ^ 0 \in Nat \ {0} /\ 2 ^ 2 \in Nat \ {0}
      /\ 2 ^ 4 \in Nat \ {0} /\ 2 ^ 6 \in Nat \ {0}
  OBVIOUS
<1>2. \/ b * 2 + a = 0 /\ 4 * b + 2 * a = 0
      \/ b * 2 + a = 1 /\ 4 * b + 2 * a = 2
      \/ b * 2 + a = 2 /\ 4 * b + 2 * a = 4
      \/ b * 2 + a = 3 /\ 4 * b + 2 * a = 6
  OBVIOUS
<1> QED
  BY ONLY <1>1, <1>2, Zenon

(* A bit of a byte.                                                        *)
LEMMA BitType ==
  ASSUME NEW n \in Nat, NEW k \in 0 .. 7
  PROVE  (n \div 2 ^ k) % 2 \in {0, 1}
<1> DEFINE p == 2 ^ k
<1>1. p \in Nat \ {0}
  BY Powers
<1> HIDE DEF p
<1>2. n \div p \in Int
  BY <1>1, DivMod
<1> QED
  BY <1>2 DEF p

(* The quotients and remainders of the renderer and those of the pixel.    *)
LEMMA PixelNumbers ==
  ASSUME NEW y \in Byte, NEW column \in Tiles, NEW xfine \in Dots
  PROVE  LET x == 8 * column + xfine
         IN  /\ x \div 8 = column /\ x % 8 = xfine
             /\ (column % 4) \div 2 = (x \div 16) % 2
             /\ column \div 4 = x \div 32
             /\ ((y \div 8) % 4) \div 2 = (y \div 16) % 2
             /\ (y \div 8) \div 4 = y \div 32
             /\ (x \div 16) % 2 \in {0, 1} /\ (y \div 16) % 2 \in {0, 1}
             /\ y \div 8 \in Tiles /\ y % 8 \in Dots
             /\ y \div 32 \in Dots /\ x \div 32 \in Dots
<1> DEFINE x == 8 * column + xfine
<1>0. y \in 0 .. 255 /\ column \in 0 .. 31 /\ xfine \in 0 .. 7
  BY PpuAssumption DEF Byte, Tiles, Dots
<1>1. x \in Int /\ x \div 8 = column /\ x % 8 = xfine
  BY <1>0
<1>2. (column % 4) \div 2 = (x \div 16) % 2
  BY <1>0
<1>3. column \div 4 = x \div 32 /\ x \div 32 \in 0 .. 7
  BY <1>0
<1>4. ((y \div 8) % 4) \div 2 = (y \div 16) % 2
  BY <1>0
<1>5. (y \div 8) \div 4 = y \div 32 /\ y \div 32 \in 0 .. 7
  BY <1>0
<1>6. (x \div 16) % 2 \in {0, 1} /\ (y \div 16) % 2 \in {0, 1}
  BY <1>0
<1>7. y \div 8 \in 0 .. 31 /\ y % 8 \in 0 .. 7
  BY <1>0
<1> QED
  BY <1>1, <1>2, <1>3, <1>4, <1>5, <1>6, <1>7 DEF Tiles, Dots

(* A byte of a nametable is always read.                                   *)
LEMMA NametableRead ==
  ASSUME NEW c, c.chr_mapper_fn \in Mappers,
         NEW v, IsVram(v), NEW a \in Nametable
  PROVE  LET r == nes_vram_r8(v, c, a, 0)
         IN  r.err = "SUCCESS" /\ r.result \in Byte
<1>1. a \in Word /\ a \notin Outside /\ a \notin Palette /\ a \notin Chr
  <2>1. WORD \in Nat
    BY ByteAssumption DEF WORD
  <2>2. a \in Word
    BY <2>1, VideoNumbers, VideoAssumption DEF Nametable, Word
  <2> QED
    BY <2>2, Regions
<1>2. Locate(c, a) = Located("ciram", CiramCell(c.chr_mapper_fn, a))
  BY <1>1, LocatedByRegion
<1> QED
  BY <1>2, PeekType DEF nes_vram_r8, Located, IsVram

(* The two nametable addresses that are read for a tile.                   *)
LEMMA TileAddresses ==
  ASSUME NEW control \in Byte, NEW ycoarse \in Tiles, NEW xcoarse \in Tiles,
         NEW down \in Dots, NEW right \in Dots
  PROVE  LET table == CIRAM_ADDR + (control % 4) * NAMETABLE_SIZE
         IN  /\ BaseNametable(control) = table
             /\ table + 32 * ycoarse + xcoarse \in Nametable
             /\ table + \h3C0 + 8 * down + right \in Nametable
<1> DEFINE table == CIRAM_ADDR + (control % 4) * NAMETABLE_SIZE
<1>1. control % 4 \in 0 .. 3
  BY PpuAssumption DEF Byte
<1>2. /\ NAMETABLE_SIZE = 1024 /\ CIRAM_ADDR = NAMETABLE_BASE_ADDR
      /\ PATTERN_TABLE_ADDR + 4096 <= PALETTE_ADDR
      /\ CIRAM_ADDR = PATTERN_TABLE_ADDR
      /\ PATTERN_TABLE_ADDR \in Nat /\ PALETTE_ADDR \in Nat
  BY VideoNumbers, PpuMapAssumption DEF ATTRTABLE_OFFSET
<1>3. BaseNametable(control) = table
  BY <1>2 DEF BaseNametable
<1>4. table \in Nat /\ PATTERN_TABLE_ADDR <= table
      /\ table + 1023 <= PALETTE_ADDR - 1
  BY <1>1, <1>2
<1> HIDE DEF table
<1>5. table + 32 * ycoarse + xcoarse \in Nametable
  BY <1>2, <1>4 DEF Nametable, Tiles, Dots
<1>6. table + \h3C0 + 8 * down + right \in Nametable
  BY <1>2, <1>4 DEF Nametable, Tiles, Dots
<1> QED
  BY <1>3, <1>5, <1>6 DEF table

(* The palette of a tile is read, and is one of the four of the background.*)
LEMMA TilePalette ==
  ASSUME NEW v, NEW c, c.chr_mapper_fn \in Mappers, NEW index \in Parts
  PROVE  LET start == PALETTE_ADDR + 4 * index
             p == nes_vram_palette_read(v, PALETTE_ADDR + PALETTE_SIZE * index,
                                        [i \in PaletteBytes |-> 0])
         IN  /\ p.err = "SUCCESS"
             /\ \A i \in Parts :
                  p.palette[i] = nes_vram_r8(v, c, start + i, 0).result
<1> DEFINE start == PALETTE_ADDR + 4 * index
<1>1. /\ PALETTE_SIZE = 4 /\ PaletteBytes = Parts
      /\ PALETTE_ADDR \in Nat /\ VRAM_ADDR_SIZE \in Nat
      /\ PALETTE_ADDR + 16 <= VRAM_ADDR_SIZE
  BY VideoNumbers, PpuMapAssumption DEF PaletteBytes, Parts
<1>2. start \in Palette
  BY <1>1 DEF Palette, Parts
<1>3. (start - PALETTE_ADDR) % PALETTE_SIZE = 0
  BY <1>1 DEF Parts
<1>4. PALETTE_ADDR + PALETTE_SIZE * index = start
  BY <1>1 DEF Parts
<1> HIDE DEF start
<1> QED
  BY <1>1, <1>2, <1>3, <1>4, PaletteRead DEF start

(* The row of a pattern is read: the pattern is whole inside of its table. *)
LEMMA TilePattern ==
  ASSUME NEW v, NEW c, c.chr_mapper_fn \in Mappers, NEW control \in Byte,
         NEW number \in Byte, NEW yfine \in Dots
  PROVE  LET start == \h1000 * ((control \div 16) % 2) + 16 * number
             p == nes_vram_pattern_read(c,
                    BackgroundTable(control) + PATTERN_SIZE * number,
                    [i \in PatternBytes |-> 0])
         IN  /\ p.err = "SUCCESS"
             /\ p.pattern[yfine] = nes_vram_r8(v, c, start + yfine, 0).result
             /\ p.pattern[yfine + DOTS_PER_TILE]
                  = nes_vram_r8(v, c, start + yfine + 8, 0).result
<1> DEFINE half  == (control \div 16) % 2
           start == \h1000 * half + 16 * number
<1>1. /\ PATTERN_SIZE = 16 /\ PatternBytes = 0 .. 15
      /\ PATTERN_TABLE_ADDR = 8192 /\ NROM_CHRROM_SIZE = PATTERN_TABLE_ADDR
  BY PpuMapAssumption DEF PatternBytes, DOTS_PER_TILE, NAMETABLE_BASE_ADDR
<1>2. half \in {0, 1} /\ number \in 0 .. 255 /\ yfine \in 0 .. 7
  BY PpuAssumption DEF Byte, Dots
<1>3. BackgroundTable(control) = \h1000 * half
  BY <1>2 DEF BackgroundTable, PATTERN_OFFSET
<1> HIDE DEF half
<1>4. BackgroundTable(control) + PATTERN_SIZE * number = start
  BY <1>1, <1>2, <1>3
<1>5. start \in Nat /\ start + PATTERN_SIZE <= PATTERN_TABLE_ADDR
  BY <1>1, <1>2
<1>6. start \in Word
  <2>1. WORD \in Nat /\ PATTERN_TABLE_ADDR < WORD
    BY VideoNumbers, VideoAssumption, ByteAssumption DEF WORD
  <2> QED
    BY <1>1, <1>5, <2>1 DEF Word
<1> HIDE DEF start
<1> DEFINE p == nes_vram_pattern_read(c, start, [i \in PatternBytes |-> 0])
<1>7. /\ p.err = "SUCCESS"
      /\ \A i \in PatternBytes : p.pattern[i] = nes_vram_r8(v, c, start + i, 0).result
  <2>1. NROM_CHRROM_SIZE = PATTERN_TABLE_ADDR
    BY <1>1
  <2>2. start + PATTERN_SIZE <= PATTERN_TABLE_ADDR
    BY <1>5
  <2> QED
    BY <1>6, <2>1, <2>2, PatternRead
<1> HIDE DEF p
<1>8. /\ yfine \in PatternBytes /\ yfine + 8 \in PatternBytes
      /\ start + (yfine + 8) = start + yfine + 8
  BY <1>1, <1>2, <1>5
<1>9. /\ p.pattern[yfine] = nes_vram_r8(v, c, start + yfine, 0).result
      /\ p.pattern[yfine + 8] = nes_vram_r8(v, c, start + yfine + 8, 0).result
  BY <1>7, <1>8
<1> QED
  BY <1>4, <1>7, <1>9 DEF half, start, p, DOTS_PER_TILE

(* The codes of four reads that succeed.                                   *)
LEMMA NoError ==
  ASSUME NEW a, NEW b, NEW c, NEW d,
         a = "SUCCESS", b = "SUCCESS", c = "SUCCESS", d = "SUCCESS"
  PROVE  FirstError(<<a, b, c, d>>) = "SUCCESS"
<1> DEFINE codes == <<a, b, c, d>>
<1>1. \A n \in DOMAIN codes : codes[n] = "SUCCESS"
  OBVIOUS
<1>2. {n \in DOMAIN codes : codes[n] # "SUCCESS"} = {}
  BY <1>1
<1> HIDE DEF codes
<1> QED
  BY <1>2 DEF FirstError, codes

(* A byte that the PPU reads, also when it is refused.                     *)
LEMMA VideoByteType ==
  ASSUME IsVram(vram), IsNrom(cartridge), cartridge.chr_mapper_fn \in Mappers,
         NEW a \in Word
  PROVE  VideoByte(a) \in Byte
<1>1. 0 \in Byte
  BY ByteAssumption DEF Byte
<1> QED
  BY <1>1, VideoRead8Type DEF VideoByte

(* The addresses of the two planes of a row.                               *)
LEMMA RowType ==
  ASSUME NEW control \in Byte, NEW number \in Byte, NEW yfine \in Dots
  PROVE  LET row == \h1000 * ((control \div 16) % 2) + 16 * number + yfine
         IN  row \in Word /\ row + 8 \in Word
<1> DEFINE half == (control \div 16) % 2
<1>1. half \in {0, 1} /\ number \in 0 .. 255 /\ yfine \in 0 .. 7
  BY PpuAssumption DEF Byte, Dots
<1> HIDE DEF half
<1>2. WORD \in Nat /\ 8192 < WORD
  BY VideoNumbers, VideoAssumption, PpuMapAssumption, ByteAssumption
     DEF WORD, NAMETABLE_BASE_ADDR
<1> QED
  BY <1>1, <1>2 DEF Word, half

(* A tile is read without an error, and its dots are the background's.     *)
LEMMA TileIsBackground ==
  ASSUME TypeOK, cartridge.chr_mapper_fn \in Mappers,
         NEW column \in Tiles, NEW xfine \in Dots,
         scanline <= RENDERING_SCANLINES
  PROVE  LET control == Peek(data, PPU_REG_PPUCTRL)
             tile == ReadTile(vram, cartridge, control, scanline, column)
         IN  /\ tile.err = "SUCCESS"
             /\ Dot(tile, xfine) = Background(8 * column + xfine, scanline)
<1> DEFINE control == Peek(data, PPU_REG_PPUCTRL)
           x       == 8 * column + xfine
           y       == scanline
           ycoarse == y \div 8
           yfine   == y % 8
           down    == y \div 32
           right   == x \div 32
           table   == CIRAM_ADDR + (control % 4) * NAMETABLE_SIZE
           taddr   == table + 32 * ycoarse + column
           baddr   == table + \h3C0 + 8 * down + right
           tile    == nes_vram_r8(vram, cartridge, taddr, 0)
           block   == nes_vram_r8(vram, cartridge, baddr, 0)
<1>1. y \in Byte /\ IsVram(vram) /\ control \in Byte
  <2>1. Byte = 0 .. 255
    BY PpuAssumption DEF Byte
  <2> QED
    BY <2>1, FrameNumbers, PeekType DEF TypeOK, IsData
<1> HIDE DEF control, y
<1>2. /\ x \div 8 = column /\ x % 8 = xfine
      /\ (column % 4) \div 2 = (x \div 16) % 2 /\ column \div 4 = right
      /\ (ycoarse % 4) \div 2 = (y \div 16) % 2 /\ ycoarse \div 4 = down
      /\ (x \div 16) % 2 \in {0, 1} /\ (y \div 16) % 2 \in {0, 1}
      /\ ycoarse \in Tiles /\ yfine \in Dots
      /\ down \in Dots /\ right \in Dots
  BY <1>1, PixelNumbers
<1> HIDE DEF ycoarse, yfine, down, right
<1>3. BaseNametable(control) = table /\ taddr \in Nametable /\ baddr \in Nametable
  BY <1>1, <1>2, TileAddresses
<1> HIDE DEF table, taddr, baddr
<1>4. /\ tile.err = "SUCCESS" /\ tile.result \in Byte
      /\ block.err = "SUCCESS" /\ block.result \in Byte
  BY <1>1, <1>3, NametableRead
<1> HIDE DEF tile, block
<1> DEFINE a       == (x \div 16) % 2
           b       == (y \div 16) % 2
           quarter == block.result \div 2 ^ (4 * b + 2 * a)
           index   == quarter % 4
           palette == nes_vram_palette_read(vram, PALETTE_ADDR + PALETTE_SIZE * index,
                                            [i \in PaletteBytes |-> 0])
           pattern == nes_vram_pattern_read(cartridge,
                        BackgroundTable(control) + PATTERN_SIZE * tile.result,
                        [i \in PatternBytes |-> 0])
           start   == PALETTE_ADDR + 4 * index
           row     == \h1000 * ((control \div 16) % 2) + 16 * tile.result + yfine
<1>5. PaletteIndex(block.result, ycoarse, column) = index
  <2> HIDE DEF a, b
  <2>1. (column % 4) \div 2 = a /\ (ycoarse % 4) \div 2 = b
        /\ a \in {0, 1} /\ b \in {0, 1}
    BY <1>2 DEF a, b
  <2>2. PaletteIndex(block.result, ycoarse, column)
          = (block.result \div 4 ^ (b * 2 + a)) % 4
    BY <2>1 DEF PaletteIndex, TILES_PER_ATTR, TILES_PER_QUAD
  <2>3. 4 ^ (b * 2 + a) = 2 ^ (4 * b + 2 * a)
    BY <2>1, Quarters
  <2> QED
    BY <2>2, <2>3
<1>6. index \in Parts
  <2> DEFINE power == 2 ^ (4 * b + 2 * a)
  <2>1. power \in Nat \ {0}
    BY <1>2, Quarters
  <2>2. block.result \in Int
    BY <1>4, ByteAssumption DEF Byte
  <2> HIDE DEF power
  <2>3. block.result \div power \in Int
    BY <2>1, <2>2, DivMod
  <2>4. index = (block.result \div power) % 4
    BY DEF power
  <2> QED
    BY <2>3, <2>4 DEF Parts
<1> HIDE DEF a, b, quarter, index
<1>7. /\ palette.err = "SUCCESS"
      /\ \A i \in Parts : palette.palette[i] = VideoByte(start + i)
  BY <1>6, TilePalette DEF VideoByte
<1>8. /\ pattern.err = "SUCCESS"
      /\ pattern.pattern[yfine] = VideoByte(row)
      /\ pattern.pattern[yfine + DOTS_PER_TILE] = VideoByte(row + 8)
  BY <1>1, <1>2, <1>4, TilePattern DEF VideoByte
<1> HIDE DEF palette, pattern, row
<1> DEFINE drawn_ == [err     |-> FirstError(<<tile.err, block.err,
                                              palette.err, pattern.err>>),
                      palette |-> palette.palette,
                      plane0  |-> pattern.pattern[yfine],
                      plane1  |-> pattern.pattern[yfine + DOTS_PER_TILE]]
<1>9. ReadTile(vram, cartridge, control, scanline, column) = drawn_
  <2>1. ReadTile(vram, cartridge, control, scanline, column)
          = TileRow(vram, cartridge, control, scanline, column, tile, block)
    <3>1. scanline \div DOTS_PER_TILE = ycoarse
      BY DEF DOTS_PER_TILE, ycoarse, y
    <3>2. ycoarse \in Int /\ down \in Int
      BY <1>2 DEF Tiles, Dots
    <3>3. table + ycoarse * NAMETABLE_WIDTH + column = taddr
      BY <3>2 DEF NAMETABLE_WIDTH, taddr
    <3>4. table + ATTRTABLE_OFFSET + (ycoarse \div TILES_PER_ATTR) * ATTRTABLE_WIDTH
            + (column \div TILES_PER_ATTR) = baddr
      BY <1>2, <3>2 DEF ATTRTABLE_OFFSET, TILES_PER_ATTR, ATTRTABLE_WIDTH, baddr
    <3> QED
      BY <1>3, <3>1, <3>3, <3>4 DEF ReadTile, tile, block
  <2>2. TileRow(vram, cartridge, control, scanline, column, tile, block) = drawn_
    <3>1. scanline \div DOTS_PER_TILE = ycoarse /\ scanline % DOTS_PER_TILE = yfine
      BY DEF DOTS_PER_TILE, ycoarse, yfine, y
    <3> QED
      BY <1>5, <3>1 DEF TileRow, palette, pattern
  <2> QED
    BY <2>1, <2>2
<1>10. drawn_.err = "SUCCESS"
  BY <1>4, <1>7, <1>8, NoError
<1>11. Dot(drawn_, xfine) = Background(8 * column + xfine, scanline)
  <2> DEFINE bit(byte) == (byte \div 2 ^ (7 - xfine)) % 2
             low  == bit(VideoByte(row))
             high == bit(VideoByte(row + 8))
  <2>1. Dot(drawn_, xfine) = palette.palette[2 * high + low]
    <3> DEFINE planes == drawn_
    <3>1. /\ planes.palette = palette.palette
          /\ planes.plane0 = VideoByte(row) /\ planes.plane1 = VideoByte(row + 8)
      BY <1>8
    <3> HIDE DEF planes
    <3>2. Dot(planes, xfine) = palette.palette[2 * high + low]
      BY <3>1 DEF Dot
    <3> QED
      BY <3>2 DEF planes
  <2>2. low \in {0, 1} /\ high \in {0, 1}
    <3>1. row \in Word /\ row + 8 \in Word
      BY <1>1, <1>2, <1>4, RowType DEF row
    <3>2. VideoByte(row) \in Byte /\ VideoByte(row + 8) \in Byte
      BY <3>1, <1>1, VideoByteType DEF TypeOK, IsCartridge
    <3>3. VideoByte(row) \in Nat /\ VideoByte(row + 8) \in Nat /\ 7 - xfine \in 0 .. 7
      BY <3>2, ByteAssumption DEF Byte, Dots
    <3> HIDE DEF row
    <3> QED
      BY <3>3, BitType
  <2> HIDE DEF low, high
  <2>3. start \in Int /\ 2 * high + low \in Parts
    BY <1>6, <2>2, VideoNumbers DEF Parts, start
  <2>5. start + (2 * high + low) = start + 2 * high + low
    <3> HIDE DEF start
    <3> QED
      BY <2>2, <2>3
  <2>6. Background(8 * column + xfine, scanline) = VideoByte(start + 2 * high + low)
    BY <1>2 DEF Background, control, y, table, tile, block, row, index, quarter,
                a, b, taddr, baddr, ycoarse, down, right, yfine, VideoByte,
                low, high
  <2> QED
    BY <1>7, <2>1, <2>3, <2>5, <2>6
<1> QED
  BY <1>9, <1>10, <1>11 DEF control

(* A line of the types is the background's.                                *)
LEMMA TypesDrawBackground == TypeOK => LineIsBackground
<1> SUFFICES ASSUME TypeOK, scanline <= RENDERING_SCANLINES,
                    cartridge.chr_mapper_fn # "NULL"
             PROVE  LET line == nes_ppu_render(scanline, vram, cartridge, data)
                    IN  /\ DOMAIN line.tiles = Columns
                        /\ \A column \in Columns :
                             LET tile == line.tiles[column]
                             IN  \A xfine \in 0 .. 7 :
                                   Dot(tile, xfine)
                                     = Background(8 * column + xfine, scanline)
  BY DEF LineIsBackground
<1> DEFINE ppuctrl == nes_mem_r8(cartridge, data, PPU_REG_PPUCTRL, 0)
           control == Peek(data, PPU_REG_PPUCTRL)
           tiles   == [x \in Columns |->
                         ReadTile(vram, cartridge, control, scanline, x)]
           line    == DrawLine(scanline, tiles)
<1>1. cartridge.chr_mapper_fn \in Mappers
  BY DEF TypeOK, IsCartridge
<1>2. ppuctrl.result = control
  <2>1. ~ (PPU_REG_PPUCTRL >= CARTRIDGE_BEGIN) /\ Cell(PPU_REG_PPUCTRL) = PPU_REG_PPUCTRL
    BY MapAssumption DEF PPU_REG_PPUCTRL, Cell, RamMirrors, PpuMirrors
  <2> QED
    BY <2>1 DEF nes_mem_r8
<1>3. nes_ppu_render(scanline, vram, cartridge, data) = line
  BY <1>2 DEF nes_ppu_render
<1>4. \A x \in Columns, xfine \in Dots :
        LET tile == ReadTile(vram, cartridge, control, scanline, x)
        IN  /\ tile.err = "SUCCESS"
            /\ Dot(tile, xfine) = Background(8 * x + xfine, scanline)
  BY <1>1, ColumnsType, TileIsBackground DEF Tiles
<1> HIDE DEF control
<1>5. /\ DOMAIN tiles = Columns /\ DOMAIN tiles \in SUBSET Nat
      /\ \A x \in Columns : tiles[x] = ReadTile(vram, cartridge, control, scanline, x)
      /\ \A x \in DOMAIN tiles : tiles[x].err = "SUCCESS"
  <2>1. 0 \in Dots
    BY DEF Dots
  <2> QED
    BY <1>4, <2>1, ColumnsType
<1> HIDE DEF tiles
<1>6. DOMAIN line.tiles = Columns /\ \A x \in Columns : line.tiles[x] = tiles[x]
  <2>1. DOMAIN tiles \in SUBSET Nat
    BY <1>5
  <2>2. \A x \in DOMAIN tiles : tiles[x].err = "SUCCESS"
    BY <1>5
  <2>3. line.tiles = [x \in DOMAIN tiles |-> tiles[x]]
    BY <2>1, <2>2, DrawnLine
  <2> HIDE DEF line
  <2> QED
    BY <1>5, <2>3
<1> HIDE DEF line
<1> QED
  BY <1>3, <1>4, <1>5, <1>6 DEF Dots

(* With any loaded cartridge and any PPUCTRL, the next line is drawn whole *)
(* and each of its pixels is the background's: the renderer's counters of  *)
(* tiles and dots address what the coordinates of the pixel do.            *)
THEOREM LineIsBackgrounds == Spec => []LineIsBackground
BY TypeCorrect, TypesDrawBackground, PTL
=============================================================================

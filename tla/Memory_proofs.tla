------------------------------ MODULE Memory_proofs ------------------------------
(***************************************************************************)
(* Lemmas about the memories, for every width of a byte and every map that *)
(* the assumptions admit: divisions, bytes, words and sparse arrays; the   *)
(* calls of memory/main.c and of cpu/stack.c; where the bytes of video     *)
(* memory are and the calls of memory/video.c.                             *)
(***************************************************************************)
EXTENDS Stack, Video, WellFoundedInduction, TLAPS

-----------------------------------------------------------------------------
(* Words.                                                                  *)

(* The remainder of a division is below the divisor.                       *)
LEMMA ModRange ==
  ASSUME NEW n \in Int, NEW d \in Nat \ {0}
  PROVE  n % d \in 0 .. (d - 1)
OBVIOUS

(* A quotient and a remainder determine each other.                        *)
LEMMA DivModUnique ==
  ASSUME NEW d \in Nat \ {0}, NEW q \in Int, NEW r \in 0 .. (d - 1)
  PROVE  /\ (q * d + r) \div d = q
         /\ (q * d + r) % d = r
OBVIOUS

(* Every number has a quotient and a remainder.                            *)
LEMMA DivMod ==
  ASSUME NEW n \in Int, NEW d \in Nat \ {0}
  PROVE  n \div d \in Int /\ n = (n \div d) * d + (n % d)
OBVIOUS

(* A nonempty set of natural numbers has a least element.                  *)
LEMMA Least ==
  ASSUME NEW S \in SUBSET Nat, S # {}
  PROVE  \E n \in S : \A k \in S : n <= k
<1> DEFINE R == {ss \in Nat \X Nat : ss[1] < ss[2]}
<1>1. R = OpToRel(<, Nat)
  BY DEF OpToRel
<1>2. IsWellFoundedOn(R, Nat)
  BY <1>1, NatLessThanWellFounded
<1>3. PICK x \in S : \A y \in S : ~(<<y, x>> \in R)
  BY <1>2, WFMin
<1>4. \A y \in S : y \in Nat /\ x \in Nat /\ (y < x => <<y, x>> \in R)
  OBVIOUS
<1>5. \A y \in S : ~ (y < x)
  BY <1>3, <1>4
<1> QED
  BY <1>4, <1>5

(* NESEMU_UTIL_U16 makes a word of two bytes, and its halves are them.     *)
LEMMA HalvesOfU16 ==
  ASSUME NEW msb \in Byte, NEW lsb \in Byte
  PROVE  /\ U16(msb, lsb) \in Word
         /\ Msb(U16(msb, lsb)) = msb
         /\ Lsb(U16(msb, lsb)) = lsb
<1>1. Msb(U16(msb, lsb)) = msb /\ Lsb(U16(msb, lsb)) = lsb
  BY DivModUnique, ByteAssumption DEF Byte, Msb, Lsb, U16
<1>2. U16(msb, lsb) >= 0
  BY ByteAssumption DEF Byte, U16
<1>3. msb * BYTE <= (BYTE - 1) * BYTE
  BY ByteAssumption DEF Byte
<1>4. U16(msb, lsb) < BYTE * BYTE
  BY <1>3, ByteAssumption DEF Byte, U16
<1> QED
  BY <1>1, <1>2, <1>4, ByteAssumption DEF Byte, U16, Word, WORD

(* Every byte is a word.                                                   *)
LEMMA ByteIsWord == Byte \subseteq Word
<1>1. BYTE * BYTE >= BYTE
  BY ByteAssumption
<1> QED
  BY <1>1, ByteAssumption DEF Byte, Word, WORD

(* The halves of a word are bytes.                                         *)
LEMMA HalvesOfWord ==
  ASSUME NEW w \in Word
  PROVE  Msb(w) \in Byte /\ Lsb(w) \in Byte
BY ByteAssumption DEF Word, WORD, Byte, Msb, Lsb

(* The word after a word is a word.                                        *)
LEMMA Inc16Type ==
  ASSUME NEW a \in Word
  PROVE  Inc16(a) \in Word
BY ByteAssumption DEF Word, WORD, Inc16

-----------------------------------------------------------------------------
(* Sparse arrays.                                                          *)

(* A cell of an array is a byte.                                           *)
LEMMA PeekType ==
  ASSUME NEW array, NEW cells, NEW c, IsArray(array, cells)
  PROVE  Peek(array, c) \in Byte
BY ByteAssumption DEF IsArray, Peek, Byte

(* A cell changes when it is stored to, and no other cell does.            *)
LEMMA PeekPoke ==
  ASSUME NEW array, NEW c, NEW d, NEW v
  PROVE  Peek(Poke(array, c, v), d) = IF d = c THEN v ELSE Peek(array, d)
BY DEF Peek, Poke

(* Storing a byte keeps an array an array, on the same cells.              *)
LEMMA PokeType ==
  ASSUME NEW array, NEW cells, NEW c \in cells, NEW v \in Byte,
         IsArray(array, cells)
  PROVE  IsArray(Poke(array, c, v), cells)
BY DEF IsArray, Poke

(* A store touches the cell it names and no other one.                     *)
LEMMA PokeDomain ==
  ASSUME NEW array, NEW c, NEW v
  PROVE  DOMAIN Poke(array, c, v) \subseteq DOMAIN array \cup {c}
BY DEF Poke

(* The array after memset is an array, on any cells.                       *)
LEMMA ZeroArrayType ==
  ASSUME NEW cells
  PROVE  /\ IsArray(ZeroArray, cells)
         /\ \A c : Peek(ZeroArray, c) = 0
BY DEF ZeroArray, IsArray, Peek

-----------------------------------------------------------------------------
(* The memory map.                                                         *)

(* An address below the cartridge stands for a cell of _data that is not   *)
(* itself in a mirrored range, so that mirroring is idempotent.            *)
LEMMA CellType ==
  ASSUME NEW a \in Nat, a < CARTRIDGE_BEGIN
  PROVE  /\ Cell(a) \in 0 .. (RAM_SIZE - 1)
         /\ Cell(a) < CARTRIDGE_BEGIN
         /\ Cell(a) \notin RamMirrors \cup PpuMirrors
<1>1. a \in Int /\ RAM_MIRRORING_BASE \in Nat \ {0}
      /\ PPU_REG_MIRRORING_BASE \in Nat \ {0}
  BY MapAssumption
<1>2. CASE a \in RamMirrors
  <2>1. a % RAM_MIRRORING_BASE \in 0 .. (RAM_MIRRORING_BASE - 1)
    BY <1>1, ModRange
  <2> QED
    BY <1>2, <2>1, MapAssumption DEF Cell, RamMirrors, PpuMirrors
<1>3. CASE a \in PpuMirrors /\ a \notin RamMirrors
  <2>1. a % PPU_REG_MIRRORING_BASE \in 0 .. (PPU_REG_MIRRORING_BASE - 1)
    BY <1>1, ModRange
  <2> QED
    BY <1>3, <2>1, MapAssumption DEF Cell, RamMirrors, PpuMirrors
<1>4. CASE a \notin RamMirrors \cup PpuMirrors
  BY <1>4, MapAssumption DEF Cell
<1> QED
  BY <1>2, <1>3, <1>4

-----------------------------------------------------------------------------
(* The four calls of memory/main.c.                                        *)

(* nes_mem_w8 keeps _data well-typed and stores nothing in a mirror.       *)
LEMMA Write8Type ==
  ASSUME NEW data, IsData(data), NEW addr \in Word, NEW v \in Byte
  PROVE  LET w == nes_mem_w8(data, addr, v)
         IN  /\ w.err \in {"SUCCESS", "CARTRIDGE_PRGROM_READ_ONLY"}
             /\ IsData(w.data)
             /\ DOMAIN w.data \cap (RamMirrors \cup PpuMirrors)
                  \subseteq DOMAIN data
<1>1. CASE addr >= CARTRIDGE_BEGIN
  BY <1>1 DEF nes_mem_w8
<1>2. CASE ~ (addr >= CARTRIDGE_BEGIN)
  <2>1. addr \in Nat /\ addr < CARTRIDGE_BEGIN
    BY <1>2, MapAssumption, ByteAssumption DEF Word, WORD
  <2>2. /\ Cell(addr) \in 0 .. (RAM_SIZE - 1)
        /\ Cell(addr) \notin RamMirrors \cup PpuMirrors
    BY <2>1, CellType
  <2>3. IsData(Poke(data, Cell(addr), v))
    BY <2>2, PokeType DEF IsData
  <2>4. DOMAIN Poke(data, Cell(addr), v) \subseteq DOMAIN data \cup {Cell(addr)}
    BY PokeDomain
  <2> QED
    BY <1>2, <2>2, <2>3, <2>4 DEF nes_mem_w8
<1> QED
  BY <1>1, <1>2

(* nes_mem_w16 keeps _data well-typed and stores nothing in a mirror, also *)
(* when its second byte fails.                                             *)
LEMMA Write16Type ==
  ASSUME NEW data, IsData(data), NEW addr \in Word, NEW value \in Word
  PROVE  LET w == nes_mem_w16(data, addr, value)
         IN  /\ w.err \in {"SUCCESS", "CARTRIDGE_PRGROM_READ_ONLY"}
             /\ IsData(w.data)
             /\ DOMAIN w.data \cap (RamMirrors \cup PpuMirrors)
                  \subseteq DOMAIN data
<1> DEFINE low  == nes_mem_w8(data, addr, Lsb(value))
           high == nes_mem_w8(low.data, Inc16(addr), Msb(value))
           Good(w) == /\ w.err \in {"SUCCESS", "CARTRIDGE_PRGROM_READ_ONLY"}
                      /\ IsData(w.data)
                      /\ DOMAIN w.data \cap (RamMirrors \cup PpuMirrors)
                           \subseteq DOMAIN data
<1>1. Msb(value) \in Byte /\ Lsb(value) \in Byte /\ Inc16(addr) \in Word
  BY HalvesOfWord, Inc16Type
<1>2. Good(low)
  BY <1>1, Write8Type
<1>3. /\ IsData(high.data)
      /\ high.err \in {"SUCCESS", "CARTRIDGE_PRGROM_READ_ONLY"}
      /\ DOMAIN high.data \cap (RamMirrors \cup PpuMirrors)
           \subseteq DOMAIN low.data
  BY <1>1, <1>2, Write8Type
<1>4. Good(high)
  BY <1>2, <1>3
<1>5. nes_mem_w16(data, addr, value) = IF low.err # "SUCCESS" THEN low ELSE high
  BY DEF nes_mem_w16
<1> QED
  BY <1>2, <1>4, <1>5

(* nes_mem_r8 returns a byte or leaves the out-parameter alone.            *)
LEMMA Read8Type ==
  ASSUME NEW cartridge, IsNrom(cartridge), NEW data, IsData(data),
         NEW addr \in Word, NEW old
  PROVE  LET r == nes_mem_r8(cartridge, data, addr, old)
         IN  \/ r.err = "SUCCESS" /\ r.result \in Byte
             \/ r.err = "CARTRIDGE_ADDR_NOT_MAPPED" /\ r.result = old
<1>1. \A c : Peek(data, c) \in Byte /\ Peek(cartridge.prgrom, c) \in Byte
  BY PeekType DEF IsData, IsNrom
<1> QED
  BY <1>1 DEF nes_mem_r8, nes_ines_nrom_prg_reader

(* nes_mem_r16 returns a word or leaves the out-parameter alone.           *)
LEMMA Read16Type ==
  ASSUME NEW cartridge, IsNrom(cartridge), NEW data, IsData(data),
         NEW addr \in Word, NEW old
  PROVE  LET r == nes_mem_r16(cartridge, data, addr, old)
         IN  \/ r.err = "SUCCESS" /\ r.result \in Word
             \/ r.err = "CARTRIDGE_ADDR_NOT_MAPPED" /\ r.result = old
<1> DEFINE lsb == nes_mem_r8(cartridge, data, addr, 0)
           msb == nes_mem_r8(cartridge, data, Inc16(addr), 0)
<1>1. \/ lsb.err = "SUCCESS" /\ lsb.result \in Byte
      \/ lsb.err = "CARTRIDGE_ADDR_NOT_MAPPED"
  BY Read8Type
<1>2. \/ msb.err = "SUCCESS" /\ msb.result \in Byte
      \/ msb.err = "CARTRIDGE_ADDR_NOT_MAPPED"
  BY Read8Type, Inc16Type
<1>3. ASSUME lsb.result \in Byte, msb.result \in Byte
      PROVE  U16(msb.result, lsb.result) \in Word
  BY <1>3, HalvesOfU16
<1>4. nes_mem_r16(cartridge, data, addr, old)
        = IF lsb.err # "SUCCESS" THEN [err |-> lsb.err, result |-> old]
          ELSE IF msb.err # "SUCCESS" THEN [err |-> msb.err, result |-> old]
          ELSE [err |-> "SUCCESS", result |-> U16(msb.result, lsb.result)]
  BY DEF nes_mem_r16
<1> HIDE DEF lsb, msb
<1> QED
  BY <1>1, <1>2, <1>3, <1>4

-----------------------------------------------------------------------------
(* What the four calls of the stack do, in terms of the cells of the page.  The memory  *)
(* errors cannot happen: no address the stack computes reaches them.       *)

(* The truncated base leaves the pointer; it and its successor are RAM     *)
(* cells of their own.                                                     *)
LEMMA StackCells ==
  ASSUME NEW p \in Byte
  PROVE  /\ STACK_GET_ADDR(p) = p
         /\ Inc16(p) = p + 1
         /\ p < CARTRIDGE_BEGIN /\ p + 1 < CARTRIDGE_BEGIN
         /\ Cell(p) = p /\ Cell(p + 1) = p + 1
<1>1. (1 * BYTE + p) % BYTE = p
  BY DivModUnique, ByteAssumption DEF Byte
<1>2. STACK_GET_ADDR(p) = p
  BY <1>1, ByteAssumption DEF STACK_GET_ADDR, STACK_BASE_ADDR, Wrap8, Byte
<1>3. BYTE * BYTE >= 4 * BYTE
  BY ByteAssumption
<1>4. Inc16(p) = p + 1
  BY <1>3, ByteAssumption DEF Inc16, WORD, Byte
<1>5. p + 1 < RAM_MIRRORING_BASE
  BY StackAssumption, MapAssumption, ByteAssumption DEF Byte
<1> QED
  BY <1>2, <1>4, <1>5, MapAssumption, ByteAssumption
     DEF Cell, RamMirrors, PpuMirrors, Byte

(* What a byte push returns and stores.                                    *)
LEMMA PushByte ==
  ASSUME NEW d, NEW p \in Byte, NEW v, p # 0
  PROVE  nes_stack_push_u8(d, p, v)
           = [err |-> "SUCCESS", data |-> Poke(d, p, v), sp |-> p - 1]
<1>1. STACK_GET_ADDR(p) = p /\ ~ (p >= CARTRIDGE_BEGIN) /\ Cell(p) = p
  BY StackCells, MapAssumption DEF Byte
<1> QED
  BY <1>1 DEF nes_stack_push_u8, nes_mem_w8, Dec8

(* What a byte pop returns.                                                *)
LEMMA PopByte ==
  ASSUME NEW c, NEW d, NEW p \in Byte, NEW old, p # STACK_SIZE
  PROVE  nes_stack_pop_u8(c, d, p, old)
           = [err |-> "SUCCESS", result |-> Peek(d, p + 1), sp |-> p + 1]
<1>1. Inc8(p) = p + 1 /\ p + 1 \in Byte
  BY ByteAssumption DEF Inc8, STACK_SIZE, Byte
<1>2. /\ STACK_GET_ADDR(p + 1) = p + 1 /\ ~ (p + 1 >= CARTRIDGE_BEGIN)
      /\ Cell(p + 1) = p + 1
  BY <1>1, StackCells, MapAssumption DEF Byte
<1> QED
  BY <1>1, <1>2 DEF nes_stack_pop_u8, nes_mem_r8

(* What a word push returns and stores, wrap-around included.              *)
LEMMA PushWord ==
  ASSUME NEW d, NEW p \in Byte, NEW msb \in Byte, NEW lsb \in Byte, p # 0
  PROVE  nes_stack_push_u16(d, p, U16(msb, lsb))
           = [err  |-> "SUCCESS",
              data |-> Poke(Poke(d, p - 1, lsb), p, msb),
              sp   |-> IF p = 1 THEN STACK_SIZE ELSE p - 2]
<1>1. /\ Dec8(p) = p - 1 /\ p - 1 \in Byte
      /\ Dec8(p - 1) = IF p = 1 THEN STACK_SIZE ELSE p - 2
  BY ByteAssumption DEF Dec8, STACK_SIZE, Byte
<1>2. /\ STACK_GET_ADDR(p - 1) = p - 1 /\ Inc16(p - 1) = p
      /\ ~ (p - 1 >= CARTRIDGE_BEGIN) /\ ~ (p >= CARTRIDGE_BEGIN)
      /\ Cell(p - 1) = p - 1 /\ Cell(p) = p
  BY <1>1, StackCells, MapAssumption DEF Byte
<1>3. Msb(U16(msb, lsb)) = msb /\ Lsb(U16(msb, lsb)) = lsb
  BY HalvesOfU16
<1> QED
  BY <1>1, <1>2, <1>3 DEF nes_stack_push_u16, nes_mem_w16, nes_mem_w8

(* What a word pop returns, wrap-around included.                          *)
LEMMA PopWord ==
  ASSUME NEW c, NEW d, NEW p \in Byte, NEW old, p # STACK_SIZE
  PROVE  nes_stack_pop_u16(c, d, p, old)
           = [err    |-> "SUCCESS",
              result |-> U16(Peek(d, p + 2), Peek(d, p + 1)),
              sp     |-> IF p = STACK_SIZE - 1 THEN 0 ELSE p + 2]
<1>1. /\ Inc8(p) = p + 1 /\ p + 1 \in Byte
      /\ Inc8(p + 1) = IF p = STACK_SIZE - 1 THEN 0 ELSE p + 2
  BY ByteAssumption DEF Inc8, STACK_SIZE, Byte
<1>2. /\ STACK_GET_ADDR(p + 1) = p + 1 /\ Inc16(p + 1) = p + 2
      /\ ~ (p + 1 >= CARTRIDGE_BEGIN) /\ ~ (p + 2 >= CARTRIDGE_BEGIN)
      /\ Cell(p + 1) = p + 1 /\ Cell(p + 2) = p + 2
  BY <1>1, StackCells, MapAssumption, ByteAssumption DEF Byte
<1> QED
  BY <1>1, <1>2 DEF nes_stack_pop_u16, nes_mem_r16, nes_mem_r8

-----------------------------------------------------------------------------
(* Remainders.                                                             *)

(* A remainder does not see a multiple of the divisor.                     *)
LEMMA ModShift ==
  ASSUME NEW d \in Nat \ {0}, NEW n \in Int, NEW k \in Int
  PROVE  (n + k * d) % d = n % d
<1> DEFINE q == n \div d
           r == n % d
<1>1. q \in Int /\ n = q * d + r /\ r \in 0 .. (d - 1)
  BY DivMod, ModRange
<1> HIDE DEF q, r
<1>2. q + k \in Int /\ (q + k) * d + r = n + k * d
  BY <1>1
<1>3. ((q + k) * d + r) % d = r
  BY <1>1, <1>2, DivModUnique
<1> QED
  BY <1>2, <1>3 DEF r

(* Below twice the divisor a remainder is at most one subtraction.         *)
LEMMA ModOnce ==
  ASSUME NEW d \in Nat \ {0}, NEW n \in Int
  PROVE  /\ (n - d) % d = n % d
         /\ (d <= n /\ n < 2 * d) => n % d = n - d
<1> DEFINE k == -1
<1>1. k \in Int /\ n + k * d = n - d
  OBVIOUS
<1> HIDE DEF k
<1>2. (n - d) % d = n % d
  BY <1>1, ModShift
<1>3. (n - d \in 0 .. (d - 1)) => (n - d) % d = n - d
  OBVIOUS
<1> QED
  BY <1>2, <1>3

(* Shifted by the same amount, two different remainders stay different.    *)
LEMMA ModInjective ==
  ASSUME NEW d \in Nat \ {0}, NEW b \in Int,
         NEW u \in 0 .. (d - 1), NEW v \in 0 .. (d - 1),
         (b + u) % d = (b + v) % d
  PROVE  u = v
<1> DEFINE q == (b + u) \div d
           p == (b + v) \div d
           r == (b + u) % d
<1>1. q \in Int /\ p \in Int /\ b + u = q * d + r /\ b + v = p * d + r
  BY DivMod
<1>2. r \in 0 .. (d - 1)
  BY ModRange
<1> HIDE DEF q, p, r
<1>3. u - v = (q - p) * d
  BY <1>1, <1>2
<1>4. q - p >= 1 => (q - p) * d >= d
  BY <1>1
<1>5. q - p <= -1 => (q - p) * d <= -d
  BY <1>1
<1>6. q - p = 0
  BY <1>1, <1>3, <1>4, <1>5
<1> QED
  BY <1>3, <1>6

-----------------------------------------------------------------------------
(* The four regions of the address space.                                  *)

Chr        == {a \in Word : a < PATTERN_TABLE_ADDR}
Nametable  == PATTERN_TABLE_ADDR .. (PALETTE_ADDR - 1)
Palette    == PALETTE_ADDR .. (VRAM_ADDR_SIZE - 1)
Outside    == {a \in Word : a >= VRAM_ADDR_SIZE}

(* What the assumptions say of the numbers of the map.                     *)
LEMMA VideoNumbers ==
  /\ Word \subseteq Nat
  /\ PATTERN_TABLE_ADDR \in Nat /\ PALETTE_ADDR \in Nat /\ VRAM_ADDR_SIZE \in Nat
  /\ NAMETABLE_SIZE \in Nat \ {0} /\ PALETTE_RAM_SIZE \in Nat \ {0}
  /\ PALETTE_SIZE \in Nat \ {0} /\ PATTERN_SIZE \in Nat \ {0}
  /\ CIRAM_SIZE \in Nat \ {0}
  /\ PATTERN_TABLE_ADDR <= PALETTE_ADDR /\ PALETTE_ADDR < VRAM_ADDR_SIZE
  /\ VRAM_ADDR_SIZE <= 2 * PALETTE_ADDR
  /\ CIRAM_ADDR = PATTERN_TABLE_ADDR
  /\ CIRAM_SIZE = 2 * NAMETABLE_SIZE
  /\ SecondHalf = PATTERN_TABLE_ADDR + CIRAM_SIZE
  /\ PALETTE_ADDR <= 2 * SecondHalf
BY VideoAssumption, MirroringAssumption, ByteAssumption
   DEF Word, WORD, SecondHalf

(* Every address is in exactly one of the four regions.                    *)
LEMMA Regions ==
  ASSUME NEW a \in Word
  PROVE  \/ /\ a \in Chr /\ a < PATTERN_TABLE_ADDR
            /\ ~ (a >= PALETTE_ADDR) /\ ~ (a >= VRAM_ADDR_SIZE)
            /\ a \notin Nametable \cup Palette \cup Outside
         \/ /\ a \in Nametable /\ ~ (a < PATTERN_TABLE_ADDR)
            /\ ~ (a >= PALETTE_ADDR) /\ ~ (a >= VRAM_ADDR_SIZE)
            /\ a \notin Chr \cup Palette \cup Outside
         \/ /\ a \in Palette /\ a >= PALETTE_ADDR /\ ~ (a >= VRAM_ADDR_SIZE)
            /\ a \notin Chr \cup Nametable \cup Outside
         \/ /\ a \in Outside /\ a >= VRAM_ADDR_SIZE
            /\ a \notin Chr \cup Nametable \cup Palette
BY VideoNumbers DEF Chr, Nametable, Palette, Outside

-----------------------------------------------------------------------------
(* The two mirroring functions.                                            *)

(* Vertical mirroring: CIRAM's modulo alone decides the cell.              *)
LEMMA VerticalCell ==
  ASSUME NEW a \in Nametable
  PROVE  LET m == nes_cartridge_mapper_vertical(a)
         IN  /\ m.err = "SUCCESS"
             /\ ~ (m.mapped < CIRAM_ADDR)
             /\ m.mapped % CIRAM_SIZE = a % CIRAM_SIZE
<1>1. a \in Int /\ PATTERN_TABLE_ADDR <= a /\ ~ (a < PATTERN_TABLE_ADDR)
      /\ a < PALETTE_ADDR
  BY VideoNumbers DEF Nametable
<1>2. CASE a < SecondHalf
  BY <1>1, <1>2, VideoNumbers DEF nes_cartridge_mapper_vertical, MappedTo
<1>3. CASE ~ (a < SecondHalf)
  <2>1. SecondHalf \in Nat \ {0} /\ SecondHalf <= a /\ a < 2 * SecondHalf
    BY <1>1, <1>3, VideoNumbers
  <2>2. a % SecondHalf = a - SecondHalf
    BY <1>1, <2>1, ModOnce
  <2>3. nes_cartridge_mapper_vertical(a)
          = MappedTo((a - SecondHalf) + PATTERN_TABLE_ADDR)
    BY <1>1, <1>3, <2>2 DEF nes_cartridge_mapper_vertical, NametableA
  <2>4. (a - SecondHalf) + PATTERN_TABLE_ADDR = a - CIRAM_SIZE
    BY <1>1, VideoNumbers
  <2>5. (a - CIRAM_SIZE) % CIRAM_SIZE = a % CIRAM_SIZE
    BY <1>1, VideoNumbers, ModOnce
  <2>6. ~ ((a - SecondHalf) + PATTERN_TABLE_ADDR < CIRAM_ADDR)
    BY <1>1, <2>1, VideoNumbers
  <2> QED
    BY <2>3, <2>4, <2>5, <2>6 DEF MappedTo
<1> QED
  BY <1>2, <1>3

(* Horizontal mirroring: a slot of CIRAM for each half and offset.         *)
Slot(a) == (a % NAMETABLE_SIZE) + (IF a < SecondHalf THEN 0 ELSE NAMETABLE_SIZE)

(* A slot is an index of CIRAM.                                            *)
LEMMA SlotType ==
  ASSUME NEW a \in Nametable
  PROVE  Slot(a) \in 0 .. (CIRAM_SIZE - 1)
<1>1. a % NAMETABLE_SIZE \in 0 .. (NAMETABLE_SIZE - 1)
  BY VideoNumbers, ModRange DEF Nametable
<1> QED
  BY <1>1, VideoNumbers DEF Slot

(* Two addresses share a slot when they mirror each other horizontally.    *)
LEMMA SlotsEqual ==
  ASSUME NEW a \in Nametable, NEW b \in Nametable
  PROVE  Slot(a) = Slot(b) <=> /\ a % NAMETABLE_SIZE = b % NAMETABLE_SIZE
                               /\ (a < SecondHalf) <=> (b < SecondHalf)
<1>1. /\ a % NAMETABLE_SIZE \in 0 .. (NAMETABLE_SIZE - 1)
      /\ b % NAMETABLE_SIZE \in 0 .. (NAMETABLE_SIZE - 1)
  BY VideoNumbers, ModRange DEF Nametable
<1> QED
  BY <1>1, VideoNumbers DEF Slot

(* Horizontal mirroring maps an address of a nametable to its slot.        *)
LEMMA HorizontalCell ==
  ASSUME NEW a \in Nametable
  PROVE  LET m == nes_cartridge_mapper_horizontal(a)
         IN  /\ m.err = "SUCCESS"
             /\ ~ (m.mapped < CIRAM_ADDR)
             /\ m.mapped = PATTERN_TABLE_ADDR + Slot(a)
<1>1. a % NAMETABLE_SIZE \in 0 .. (NAMETABLE_SIZE - 1)
  BY VideoNumbers, ModRange DEF Nametable
<1>2. ~ (a < PATTERN_TABLE_ADDR)
  BY VideoNumbers DEF Nametable
<1>3. nes_cartridge_mapper_horizontal(a) = MappedTo(PATTERN_TABLE_ADDR + Slot(a))
  BY <1>1, <1>2, VideoNumbers
     DEF nes_cartridge_mapper_horizontal, Slot, NametableA, NametableB
<1> QED
  BY <1>3, SlotType, VideoNumbers DEF MappedTo

-----------------------------------------------------------------------------
(* Locate.                                                                 *)

(* The cell of palette_ram: the distance from the first palette, modulo    *)
(* the size of the array.                                                  *)
LEMMA PaletteCellIs ==
  ASSUME NEW a \in Palette
  PROVE  /\ PaletteCell(a) = (a - PALETTE_ADDR) % PALETTE_RAM_SIZE
         /\ PaletteCell(a) \in 0 .. (PALETTE_RAM_SIZE - 1)
<1>1. a \in Int /\ a - PALETTE_ADDR \in Int /\ PALETTE_ADDR <= a
      /\ a < 2 * PALETTE_ADDR /\ PALETTE_ADDR \in Nat \ {0}
  BY VideoNumbers DEF Palette
<1>2. a % PALETTE_ADDR = a - PALETTE_ADDR
  BY <1>1, ModOnce
<1> QED
  BY <1>1, <1>2, VideoNumbers, ModRange DEF PaletteCell

(* The cell of ciram with either mirroring function.                       *)
CiramCell(mapper, a) ==
  IF mapper = "vertical" THEN a % CIRAM_SIZE
  ELSE (PATTERN_TABLE_ADDR + Slot(a)) % CIRAM_SIZE

(* Either mirroring leads to an index of CIRAM.                            *)
LEMMA CiramCellType ==
  ASSUME NEW a \in Nametable, NEW mapper
  PROVE  CiramCell(mapper, a) \in 0 .. (CIRAM_SIZE - 1)
<1>1. a \in Int /\ PATTERN_TABLE_ADDR + Slot(a) \in Int /\ CIRAM_SIZE \in Nat \ {0}
  BY SlotType, VideoNumbers DEF Nametable
<1> QED
  BY <1>1, ModRange DEF CiramCell

(* What Locate is in each of the regions.                                  *)
LEMMA LocatedByRegion ==
  ASSUME NEW c, c.chr_mapper_fn \in Mappers, NEW a \in Word
  PROVE  Locate(c, a) =
           IF a \in Outside THEN Located("MEMORY_INVALILD_ADDR", 0)
           ELSE IF a \in Palette THEN Located("palette", PaletteCell(a))
           ELSE IF a \in Chr THEN Located("chr", a)
           ELSE Located("ciram", CiramCell(c.chr_mapper_fn, a))
<1> DEFINE m == _cartridge_mapping(c, a)
<1>1. \/ c.chr_mapper_fn = "vertical" /\ m = nes_cartridge_mapper_vertical(a)
      \/ /\ c.chr_mapper_fn = "horizontal" /\ c.chr_mapper_fn # "vertical"
         /\ m = nes_cartridge_mapper_horizontal(a)
  BY DEF Mappers, _cartridge_mapping
<1>2. a \in Chr => m = Delegated(a)
  BY <1>1 DEF Chr, nes_cartridge_mapper_vertical,
              nes_cartridge_mapper_horizontal
<1>3. a \in Nametable => /\ m.err = "SUCCESS"
                         /\ ~ (m.mapped < CIRAM_ADDR)
                         /\ m.mapped % CIRAM_SIZE
                              = CiramCell(c.chr_mapper_fn, a)
  BY <1>1, VerticalCell, HorizontalCell DEF CiramCell
<1>4. Locate(c, a) =
        IF a >= VRAM_ADDR_SIZE THEN Located("MEMORY_INVALILD_ADDR", 0)
        ELSE IF a >= PALETTE_ADDR THEN Located("palette", PaletteCell(a))
        ELSE IF m.err = "DELEGATE_RWOP" THEN Located("chr", m.mapped)
        ELSE IF m.err # "SUCCESS" THEN Located(m.err, 0)
        ELSE IF m.mapped < CIRAM_ADDR THEN Located("MEMORY_VRAM_BAD_MAPPER", 0)
        ELSE Located("ciram", m.mapped % CIRAM_SIZE)
  BY DEF Locate
<1> HIDE DEF m
<1> QED
  BY <1>2, <1>3, <1>4, Regions DEF Delegated

-----------------------------------------------------------------------------
(* The calls of memory/video.c.                                            *)

(* What a write can return, and the arrays it leaves.                      *)
WriteCodes == {"SUCCESS", "MEMORY_INVALILD_ADDR", "CARTRIDGE_CHRROM_READ_ONLY"}

(* The structure has its two arrays and no other field.                    *)
TwoArrays(vram) == DOMAIN vram = {"ciram", "palette_ram"} /\ IsVram(vram)

(* A byte write returns one of the codes and keeps both arrays.            *)
LEMMA VideoWrite8Type ==
  ASSUME NEW c, c.chr_mapper_fn \in Mappers, NEW vram, TwoArrays(vram),
         NEW a \in Word, NEW v \in Byte
  PROVE  LET w == nes_vram_w8(vram, c, a, v)
         IN  w.err \in WriteCodes /\ TwoArrays(w.vram)
<1> DEFINE w == nes_vram_w8(vram, c, a, v)
<1>1. CASE a \in Outside
  <2>1. Locate(c, a) = Located("MEMORY_INVALILD_ADDR", 0)
    BY <1>1, LocatedByRegion
  <2>2. w = [err |-> "MEMORY_INVALILD_ADDR", vram |-> vram]
    BY <2>1 DEF nes_vram_w8, Located
  <2> QED
    BY <2>2 DEF WriteCodes
<1>2. CASE a \in Palette
  <2>1. Locate(c, a) = Located("palette", PaletteCell(a))
    BY <1>2, LocatedByRegion, Regions
  <2>2. w = Stored([vram EXCEPT !.palette_ram = Poke(@, PaletteCell(a), v)])
    BY <2>1 DEF nes_vram_w8, Located
  <2>3. IsArray(Poke(vram.palette_ram, PaletteCell(a), v),
                0 .. (PALETTE_RAM_SIZE - 1))
    BY <1>2, PaletteCellIs, PokeType DEF TwoArrays, IsVram
  <2> QED
    BY <2>2, <2>3 DEF Stored, TwoArrays, IsVram, WriteCodes
<1>3. CASE a \in Chr
  <2>1. Locate(c, a) = Located("chr", a)
    BY <1>3, LocatedByRegion, Regions
  <2>2. w = [err |-> "CARTRIDGE_CHRROM_READ_ONLY", vram |-> vram]
    BY <2>1 DEF nes_vram_w8, Located
  <2> QED
    BY <2>2 DEF WriteCodes
<1>4. CASE a \in Nametable
  <2> DEFINE cell == CiramCell(c.chr_mapper_fn, a)
  <2>1. Locate(c, a) = Located("ciram", cell)
    BY <1>4, LocatedByRegion, Regions
  <2>2. w = Stored([vram EXCEPT !.ciram = Poke(@, cell, v)])
    BY <2>1 DEF nes_vram_w8, Located
  <2>3. IsArray(Poke(vram.ciram, cell, v), 0 .. (CIRAM_SIZE - 1))
    BY <1>4, CiramCellType, PokeType DEF TwoArrays, IsVram
  <2> QED
    BY <2>2, <2>3 DEF Stored, TwoArrays, IsVram, WriteCodes
<1> QED
  BY <1>1, <1>2, <1>3, <1>4, Regions

(* A word write returns one of the codes and keeps both arrays.            *)
LEMMA VideoWrite16Type ==
  ASSUME NEW c, c.chr_mapper_fn \in Mappers, NEW vram, TwoArrays(vram),
         NEW a \in Word, NEW value \in Word
  PROVE  LET w == nes_vram_w16(vram, c, a, value)
         IN  w.err \in WriteCodes /\ TwoArrays(w.vram)
<1> DEFINE low  == nes_vram_w8(vram, c, a, Lsb(value))
           high == nes_vram_w8(low.vram, c, Inc16(a), Msb(value))
<1>1. Msb(value) \in Byte /\ Lsb(value) \in Byte /\ Inc16(a) \in Word
  BY HalvesOfWord, Inc16Type
<1>2. low.err \in WriteCodes /\ TwoArrays(low.vram)
  BY <1>1, VideoWrite8Type
<1>3. high.err \in WriteCodes /\ TwoArrays(high.vram)
  BY <1>1, <1>2, VideoWrite8Type
<1>4. nes_vram_w16(vram, c, a, value) = IF low.err # "SUCCESS" THEN low ELSE high
  BY DEF nes_vram_w16
<1> QED
  BY <1>2, <1>3, <1>4

ReadCodes == {"MEMORY_INVALILD_ADDR", "CARTRIDGE_ADDR_NOT_MAPPED"}

(* A byte read gives a byte, or a code and the old value.                  *)
LEMMA VideoRead8Type ==
  ASSUME NEW c, IsNrom(c), c.chr_mapper_fn \in Mappers,
         NEW vram, IsVram(vram), NEW a \in Word, NEW old
  PROVE  LET r == nes_vram_r8(vram, c, a, old)
         IN  \/ r.err = "SUCCESS" /\ r.result \in Byte
             \/ r.err \in ReadCodes /\ r.result = old
<1>1. \A k : /\ Peek(vram.ciram, k) \in Byte
             /\ Peek(vram.palette_ram, k) \in Byte
             /\ Peek(c.chrrom, k) \in Byte
  BY PeekType DEF IsVram, IsNrom
<1>2. \/ Locate(c, a) = Located("MEMORY_INVALILD_ADDR", 0)
      \/ Locate(c, a) = Located("palette", PaletteCell(a))
      \/ Locate(c, a) = Located("chr", a)
      \/ Locate(c, a) = Located("ciram", CiramCell(c.chr_mapper_fn, a))
  BY LocatedByRegion
<1> QED
  BY <1>1, <1>2 DEF Located, nes_vram_r8, nes_ines_nrom_chr_reader, ReadCodes

(* A word read gives a word, or a code and the old value.                  *)
LEMMA VideoRead16Type ==
  ASSUME NEW c, IsNrom(c), c.chr_mapper_fn \in Mappers,
         NEW vram, IsVram(vram), NEW a \in Word, NEW old
  PROVE  LET r == nes_vram_r16(vram, c, a, old)
         IN  \/ r.err = "SUCCESS" /\ r.result \in Word
             \/ r.err \in ReadCodes /\ r.result = old
<1> DEFINE lsb == nes_vram_r8(vram, c, a, 0)
           msb == nes_vram_r8(vram, c, Inc16(a), 0)
<1>1. \/ lsb.err = "SUCCESS" /\ lsb.result \in Byte
      \/ lsb.err \in ReadCodes
  BY VideoRead8Type
<1>2. \/ msb.err = "SUCCESS" /\ msb.result \in Byte
      \/ msb.err \in ReadCodes
  BY VideoRead8Type, Inc16Type
<1>3. ASSUME lsb.result \in Byte, msb.result \in Byte
      PROVE  U16(msb.result, lsb.result) \in Word
  BY <1>3, HalvesOfU16
<1>4. nes_vram_r16(vram, c, a, old)
        = IF lsb.err # "SUCCESS" THEN [err |-> lsb.err, result |-> old]
          ELSE IF msb.err # "SUCCESS" THEN [err |-> msb.err, result |-> old]
          ELSE [err |-> "SUCCESS", result |-> U16(msb.result, lsb.result)]
  BY DEF nes_vram_r16
<1> HIDE DEF lsb, msb
<1> QED
  BY <1>1, <1>2, <1>3, <1>4 DEF ReadCodes

-----------------------------------------------------------------------------
(* Palettes.                                                               *)

(* The multiples of s are s apart.                                         *)
LEMMA NextMultiple ==
  ASSUME NEW s \in Nat \ {0}, NEW j \in Int, NEW k \in Int, j * s < k * s
  PROVE  (j + 1) * s <= k * s
<1> DEFINE e == k - j
<1>1. e \in Int /\ e * s = k * s - j * s /\ (j + 1) * s = j * s + s
  OBVIOUS
<1> HIDE DEF e
<1>2. j * s \in Int /\ k * s \in Int
  OBVIOUS
<1>3. e <= 0 => e * s <= 0
  BY <1>1
<1>4. e >= 1 => e * s >= s
  BY <1>1
<1> QED
  BY <1>1, <1>2, <1>3, <1>4

(* A palette that starts at a multiple of its size, in any mirror, ends    *)
(* before palette_ram and before the mirror do.                            *)
LEMMA PaletteFits ==
  ASSUME NEW a \in Palette, (a - PALETTE_ADDR) % PALETTE_SIZE = 0,
         NEW i \in PaletteBytes
  PROVE  /\ a + i \in Palette
         /\ PaletteCell(a + i) = PaletteCell(a) + i
         /\ PaletteCell(a) + i < PALETTE_RAM_SIZE
<1> DEFINE S == PALETTE_SIZE
           R == PALETTE_RAM_SIZE
           d == a - PALETTE_ADDR
           m == d \div R
           r == d % R
           k == R \div S
           N == VRAM_ADDR_SIZE - PALETTE_ADDR
           t == N \div R
           q == d \div S
<1>1. /\ S \in Nat \ {0} /\ R \in Nat \ {0} /\ d \in Nat /\ i \in 0 .. (S - 1)
      /\ a \in Palette /\ PALETTE_ADDR \in Nat /\ VRAM_ADDR_SIZE \in Nat
      /\ d % S = 0 /\ d < N
  BY VideoNumbers DEF PaletteBytes, Palette
<1>2. k \in Int /\ R = k * S
  <2>1. R % S = 0
    BY VideoAssumption
  <2>2. k \in Int /\ R = k * S + (R % S)
    BY <1>1, DivMod
  <2> QED
    BY <1>1, <2>1, <2>2
<1>3. t \in Int /\ VRAM_ADDR_SIZE - PALETTE_ADDR = t * R
  <2>1. N % R = 0
    BY VideoAssumption
  <2>2. N \in Int /\ t \in Int /\ N = t * R + (N % R)
    BY <1>1, DivMod
  <2> QED
    BY <1>1, <2>1, <2>2
<1>4. q \in Int /\ d = q * S
  <2>1. d \in Int /\ S \in Nat \ {0} /\ d % S = 0
    BY <1>1
  <2> HIDE DEF d, S
  <2>2. q \in Int /\ d = q * S + (d % S)
    BY <2>1, DivMod
  <2> QED
    BY <2>1, <2>2
<1>5. m \in Int /\ d = m * R + r /\ r \in 0 .. (R - 1)
  <2>1. d \in Int /\ R \in Nat \ {0}
    BY <1>1
  <2> HIDE DEF d, R
  <2>2. m \in Int /\ d = m * R + (d % R)
    BY <2>1, DivMod
  <2>3. d % R \in 0 .. (R - 1)
    BY <2>1, ModRange
  <2> QED
    BY <2>2, <2>3
<1> HIDE DEF m, r, k, t, q
<1>6. r + i < R
  <2> DEFINE j == q - m * k
  <2>1. j \in Int /\ m * k \in Int
    BY <1>2, <1>4, <1>5
  <2>2. m * R = (m * k) * S
    BY <1>1, <1>2, <1>5
  <2>3. (q - m * k) * S = q * S - (m * k) * S
    BY <1>1, <1>4, <2>1
  <2>4. r = j * S
    BY <1>1, <1>4, <1>5, <2>1, <2>2, <2>3
  <2> HIDE DEF j
  <2>5. j * S < k * S
    BY <1>1, <1>2, <1>5, <2>4
  <2>6. (j + 1) * S <= k * S
    BY <1>1, <1>2, <2>1, <2>5, NextMultiple
  <2>7. (j + 1) * S = r + S
    BY <1>1, <2>1, <2>4
  <2> QED
    BY <1>1, <1>2, <1>5, <2>6, <2>7
<1>7. d + i < VRAM_ADDR_SIZE - PALETTE_ADDR
  <2>1. m * R \in Int /\ (m + 1) * R = m * R + R
    BY <1>1, <1>5
  <2>2. m * R < t * R
    BY <1>1, <1>3, <1>5, <2>1
  <2>3. (m + 1) * R <= t * R
    BY <1>1, <1>3, <1>5, <2>2, NextMultiple
  <2> QED
    BY <1>1, <1>3, <1>5, <1>6, <2>1, <2>3
<1>8. a + i \in Palette /\ (a + i) - PALETTE_ADDR = m * R + (r + i)
  BY <1>1, <1>5, <1>7 DEF Palette
<1>9. (m * R + (r + i)) % R = r + i
  <2>1. r + i \in 0 .. (R - 1)
    BY <1>1, <1>5, <1>6
  <2> DEFINE s == r + i
  <2> HIDE DEF s
  <2>2. (m * R + s) % R = s
    BY <1>1, <1>5, <2>1, DivModUnique DEF s
  <2> QED
    BY <2>2 DEF s
<1> QED
  BY <1>1, <1>6, <1>8, <1>9, PaletteCellIs DEF r

(* A palette read at the start of a palette succeeds and gives the bytes   *)
(* of its addresses, one by one.                                           *)
LEMMA PaletteRead ==
  ASSUME NEW v, NEW c, c.chr_mapper_fn \in Mappers,
         NEW a \in Palette, (a - PALETTE_ADDR) % PALETTE_SIZE = 0
  PROVE  LET p == nes_vram_palette_read(v, a, [n \in PaletteBytes |-> 0])
         IN  /\ p.err = "SUCCESS"
             /\ \A i \in PaletteBytes :
                  p.palette[i] = nes_vram_r8(v, c, a + i, 0).result
<1> SUFFICES ASSUME NEW i \in PaletteBytes
             PROVE  /\ nes_vram_palette_read(v, a, [n \in PaletteBytes |-> 0]).err = "SUCCESS"
                    /\ nes_vram_palette_read(v, a, [n \in PaletteBytes |-> 0]).palette[i]
                         = nes_vram_r8(v, c, a + i, 0).result
  <2>1. 0 \in PaletteBytes
    BY VideoNumbers DEF PaletteBytes
  <2> QED
    BY <2>1
<1>1. /\ a + i \in Palette
      /\ PaletteCell(a + i) = PaletteCell(a) + i
      /\ PaletteCell(a) + i < PALETTE_RAM_SIZE
  BY PaletteFits
<1>2. a + i \in Word
  <2>1. WORD \in Nat
    BY ByteAssumption DEF WORD
  <2>2. /\ PALETTE_ADDR \in Nat /\ VRAM_ADDR_SIZE \in Nat
        /\ VRAM_ADDR_SIZE < WORD
    BY VideoAssumption
  <2> QED
    BY <1>1, <2>1, <2>2 DEF Palette, Word
<1>3. Locate(c, a + i) = Located("palette", PaletteCell(a) + i)
  BY <1>1, <1>2, LocatedByRegion, Regions
<1>4. nes_vram_r8(v, c, a + i, 0).result = Peek(v.palette_ram, PaletteCell(a) + i)
  BY <1>3 DEF nes_vram_r8, Located
<1>5. ~ (a >= VRAM_ADDR_SIZE \/ a < PALETTE_ADDR)
  BY VideoNumbers DEF Palette
<1>6. nes_vram_palette_read(v, a, [n \in PaletteBytes |-> 0]).palette =
        [n \in PaletteBytes |->
           LET cell == PaletteCell(a) + n
           IN  IF cell < PALETTE_RAM_SIZE THEN Peek(v.palette_ram, cell)
               ELSE Beyond]
  BY <1>5 DEF nes_vram_palette_read
<1>7. nes_vram_palette_read(v, a, [n \in PaletteBytes |-> 0]).err = "SUCCESS"
  BY <1>5 DEF nes_vram_palette_read
<1> QED
  BY <1>1, <1>4, <1>6, <1>7

-----------------------------------------------------------------------------
(* Patterns.                                                               *)

(* With a CHR bank as large as the pattern tables, a pattern read succeeds *)
(* exactly when the pattern is in the tables, and gives the bytes of its   *)
(* addresses, one by one.                                                  *)
LEMMA PatternRead ==
  ASSUME NROM_CHRROM_SIZE = PATTERN_TABLE_ADDR,
         NEW v, NEW c, c.chr_mapper_fn \in Mappers, NEW a \in Word
  PROVE
    LET p == nes_vram_pattern_read(c, a, [n \in PatternBytes |-> 0])
    IN  /\ (p.err = "SUCCESS") <=> (a + PATTERN_SIZE <= PATTERN_TABLE_ADDR)
        /\ p.err = "SUCCESS" =>
             \A i \in PatternBytes : p.pattern[i] = nes_vram_r8(v, c, a + i, 0).result
<1> DEFINE old     == [n \in PatternBytes |-> 0]
           p       == nes_vram_pattern_read(c, a, old)
           m       == _cartridge_mapping(c, a)
           read    == [i \in PatternBytes |->
                         nes_ines_nrom_chr_reader(c, m.mapped + i, old[i])]
           refused == {read[i].err : i \in PatternBytes} \ {"SUCCESS"}
<1>1. /\ a \in Nat /\ a \in Word /\ PATTERN_SIZE \in Nat \ {0}
      /\ PATTERN_TABLE_ADDR \in Nat
      /\ c.chr_mapper_fn \in Mappers
  BY VideoNumbers
<1>2. CASE a >= PATTERN_TABLE_ADDR
  <2>1. p.err = "MEMORY_INVALILD_ADDR"
    BY <1>2 DEF nes_vram_pattern_read
  <2> QED
    BY <1>1, <1>2, <2>1
<1>3. CASE ~ (a >= PATTERN_TABLE_ADDR)
  <2>1. m = [err |-> "DELEGATE_RWOP", mapped |-> a]
    BY <1>1, <1>3 DEF _cartridge_mapping, Mappers, Delegated,
                nes_cartridge_mapper_vertical, nes_cartridge_mapper_horizontal
  <2>2. p = [err |-> IF refused = {} THEN "SUCCESS" ELSE CHOOSE e \in refused : TRUE,
             pattern |-> [i \in PatternBytes |-> read[i].result]]
    BY <1>3, <2>1 DEF nes_vram_pattern_read
  <2>3. \A i \in PatternBytes :
          read[i] = nes_ines_nrom_chr_reader(c, a + i, 0)
    BY <2>1
  <2>4. \A e : e \in refused <=> /\ e # "SUCCESS"
                                 /\ \E i \in PatternBytes : e = read[i].err
    OBVIOUS
  <2>5. (p.err = "SUCCESS") <=> (refused = {} \/ (CHOOSE e \in refused : TRUE) = "SUCCESS")
    <3> HIDE DEF p, refused
    <3> QED
      BY <2>2
  <2>6. \A i \in PatternBytes : p.pattern[i] = read[i].result
    BY <2>2
  <2> HIDE DEF read, refused, p, m
  <2>7. CASE a + PATTERN_SIZE <= PATTERN_TABLE_ADDR
    <3>1. ASSUME NEW i \in PatternBytes
          PROVE  /\ read[i].err = "SUCCESS"
                 /\ read[i].result = Peek(c.chrrom, a + i)
                 /\ nes_vram_r8(v, c, a + i, 0).result = Peek(c.chrrom, a + i)
      <4>1. i \in Nat /\ a + i \in Nat /\ a + i < PATTERN_TABLE_ADDR
            /\ ~ (a + i >= NROM_CHRROM_SIZE)
        BY <1>1, <2>7 DEF PatternBytes
      <4>2. WORD \in Nat /\ PATTERN_TABLE_ADDR < WORD
        BY VideoNumbers, VideoAssumption, ByteAssumption DEF WORD
      <4>3. a + i \in Word
        BY <1>1, <4>1, <4>2 DEF Word
      <4>4. a + i \in Chr
        BY <4>1, <4>3 DEF Chr
      <4>5. Locate(c, a + i) = Located("chr", a + i)
        BY <1>1, <4>3, <4>4, LocatedByRegion, Regions
      <4>6. read[i] = [err |-> "SUCCESS", result |-> Peek(c.chrrom, a + i)]
        BY <2>3, <4>1 DEF nes_ines_nrom_chr_reader
      <4>7. nes_vram_r8(v, c, a + i, 0).result = Peek(c.chrrom, a + i)
        BY <4>1, <4>5 DEF nes_ines_nrom_chr_reader, nes_vram_r8, Located
      <4> QED
        BY <4>6, <4>7
    <3>2. refused = {}
      BY <2>4, <3>1
    <3> QED
      BY <2>5, <2>6, <2>7, <3>1, <3>2 DEF p
  <2>8. CASE ~ (a + PATTERN_SIZE <= PATTERN_TABLE_ADDR)
    <3>1. PICK last \in PatternBytes : a + last >= NROM_CHRROM_SIZE
      <4>1. PATTERN_SIZE - 1 \in PatternBytes
        BY <1>1 DEF PatternBytes
      <4>2. a + (PATTERN_SIZE - 1) >= NROM_CHRROM_SIZE
        BY <1>1, <2>8
      <4> QED
        BY <4>1, <4>2
    <3>2. read[last].err = "CARTRIDGE_ADDR_NOT_MAPPED"
      <4>1. read[last] = nes_ines_nrom_chr_reader(c, a + last, 0)
        BY <2>3
      <4> QED
        BY <3>1, <4>1 DEF nes_ines_nrom_chr_reader
    <3>3. read[last].err \in refused
      BY <2>4, <3>2
    <3>4. (CHOOSE e \in refused : TRUE) \in refused
      BY <3>3
    <3>5. p.err # "SUCCESS"
      BY <2>4, <2>5, <3>3, <3>4
    <3> QED
      BY <2>8, <3>5 DEF p
  <2> QED
    BY <2>7, <2>8
<1> QED
  BY <1>2, <1>3

-----------------------------------------------------------------------------
(* The loader.                                                             *)

(* memcpy of bytes that fit keeps an array an array.                       *)
LEMMA CopiedType ==
  ASSUME NEW n \in Nat, NEW array, IsArray(array, 0 .. (n - 1)),
         NEW bytes, IsArray(bytes, Nat), NEW len \in Nat, len <= n
  PROVE  IsArray(Copied(array, bytes, len), 0 .. (n - 1))
BY DEF Copied, IsArray

(* memcpy changes the cells before `len' and no other.                     *)
LEMMA PeekCopied ==
  ASSUME NEW array, NEW bytes, NEW len \in Nat, NEW k \in Nat
  PROVE  Peek(Copied(array, bytes, len), k)
           = IF k < len THEN Peek(bytes, k) ELSE Peek(array, k)
<1> DEFINE copy == Copied(array, bytes, len)
<1>1. k \in DOMAIN copy <=> IF k < len THEN k \in DOMAIN bytes ELSE k \in DOMAIN array
  BY DEF Copied
<1>2. k \in DOMAIN copy => copy[k] = IF k < len THEN bytes[k] ELSE array[k]
  BY DEF Copied
<1> HIDE DEF copy
<1>3. Peek(copy, k) = IF k < len THEN Peek(bytes, k) ELSE Peek(array, k)
  BY <1>1, <1>2 DEF Peek
<1> QED
  BY <1>3 DEF copy

(* The data after an offset is an array, and its cells are the file's.     *)
LEMMA DataFromType ==
  ASSUME NEW f, IsFile(f), NEW offset \in Nat
  PROVE  /\ IsArray(DataFrom(f, offset), Nat)
         /\ \A k \in Nat : Peek(DataFrom(f, offset), k) = Peek(f.bytes, k + offset)
<1>1. /\ DOMAIN f.bytes \subseteq Nat
      /\ \A k \in DOMAIN f.bytes : f.bytes[k] \in Byte \ {0}
  BY DEF IsFile, IsArray
<1>2. DOMAIN DataFrom(f, offset) = {k \in Nat : k + offset \in DOMAIN f.bytes}
  BY <1>1 DEF DataFrom
<1>3. \A k \in DOMAIN DataFrom(f, offset) :
        DataFrom(f, offset)[k] = f.bytes[k + offset]
  BY DEF DataFrom
<1>4. DataFrom(f, offset) = [k \in DOMAIN DataFrom(f, offset) |-> f.bytes[k + offset]]
  BY DEF DataFrom
<1> QED
  BY <1>1, <1>2, <1>3, <1>4 DEF IsArray, Peek

(* What nes_cartridge_read_ines accepts, and the structure it fills.       *)
Fits(f) ==
  /\ f.magic
  /\ f.mapper = 0
  /\ f.len >= INES_HEADER_SIZE + prgrom_len(f) + chrrom_len(f)
  /\ prgrom_len(f) <= NROM_PRGROM_SIZE
  /\ chrrom_len(f) <= NROM_CHRROM_SIZE

PrgOf(f) ==
  [[EmptyCartridge EXCEPT !.chr_mapper_fn = chr_mapper_of(f)]
     EXCEPT !.prgrom = Copied(@, f.bytes, prgrom_len(f)),
            !.mirrored_bank = prgrom_len(f) <= NROM_PRGROM_SIZE \div 2]

CartridgeOf(f) ==
  [PrgOf(f) EXCEPT
     !.chrrom = Copied(@, DataFrom(f, prgrom_len(f)), chrrom_len(f))]

(* The fields of the structures the loader leaves.                         *)
LEMMA LoadedFields ==
  ASSUME NEW f
  PROVE  /\ \A c \in {PrgOf(f), CartridgeOf(f)} :
              /\ c.prgrom = Copied(ZeroArray, f.bytes, prgrom_len(f))
              /\ c.mirrored_bank = (prgrom_len(f) <= NROM_PRGROM_SIZE \div 2)
              /\ c.chr_mapper_fn = chr_mapper_of(f)
              /\ c.type = 0
         /\ PrgOf(f).chrrom = ZeroArray
         /\ CartridgeOf(f).chrrom
              = Copied(ZeroArray, DataFrom(f, prgrom_len(f)), chrrom_len(f))
BY DEF PrgOf, CartridgeOf, EmptyCartridge

(* The sizes of a file and of the cartridge are natural numbers.           *)
LEMMA FileNumbers ==
  ASSUME NEW f, IsFile(f)
  PROVE  /\ prgrom_len(f) \in Nat /\ chrrom_len(f) \in Nat
         /\ f.len \in Nat /\ INES_HEADER_SIZE \in Nat
         /\ NROM_PRGROM_SIZE \in Nat /\ NROM_CHRROM_SIZE \in Nat
         /\ NROM_PRGROM_SIZE \div 2 = PRGROM_BANK_SIZE
BY NromAssumption, InesAssumption
   DEF IsFile, prgrom_len, chrrom_len, NROM_PRGROM_SIZE, NROM_CHRROM_SIZE

(* The loader's checks, spread over four functions, accept a file exactly  *)
(* when it fits; the structure is then the file's data, and otherwise it   *)
(* is as it was, empty, or without CHR data.                               *)
LEMMA Loading ==
  ASSUME NEW c, NEW f, IsFile(f)
  PROVE  LET load == nes_cartridge_read_ines(c, f)
         IN  /\ (load.err = "SUCCESS") <=> Fits(f)
             /\ Fits(f) => load.cartridge = CartridgeOf(f)
             /\ \/ load.cartridge \in
                     {c, EmptyCartridge, [EmptyCartridge EXCEPT !.type = f.mapper],
                      [EmptyCartridge EXCEPT !.chr_mapper_fn = chr_mapper_of(f)]}
                \/ load.cartridge = PrgOf(f) /\ prgrom_len(f) <= NROM_PRGROM_SIZE
                \/ load.cartridge = CartridgeOf(f) /\ Fits(f)
<1> DEFINE load  == nes_cartridge_read_ines(c, f)
           empty == [EmptyCartridge EXCEPT !.chr_mapper_fn = chr_mapper_of(f)]
           prg   == prgrom_len(f)
           chr   == chrrom_len(f)
           rest  == f.len - INES_HEADER_SIZE
<1>1. /\ prg \in Nat /\ chr \in Nat /\ f.len \in Nat /\ INES_HEADER_SIZE \in Nat
      /\ NROM_PRGROM_SIZE \in Nat /\ NROM_CHRROM_SIZE \in Nat
      /\ rest \in Int
  BY FileNumbers
<1>2. LoadData(empty, f) =
        IF prg > NROM_PRGROM_SIZE
          THEN [err |-> "CARTRIDGE_TOO_LARGE", cartridge |-> empty]
        ELSE IF rest - prg < chr
          THEN [err |-> "CARTRIDGE_EMPTY", cartridge |-> PrgOf(f)]
        ELSE IF chr > NROM_CHRROM_SIZE
          THEN [err |-> "CARTRIDGE_TOO_LARGE", cartridge |-> PrgOf(f)]
        ELSE [err |-> "SUCCESS", cartridge |-> CartridgeOf(f)]
  <2> DEFINE loader == nes_ines_nrom_prg_loader(empty, f.bytes, prg)
  <2>1. loader = IF prg > NROM_PRGROM_SIZE
                   THEN [err |-> "CARTRIDGE_TOO_LARGE", cartridge |-> empty]
                   ELSE [err |-> "SUCCESS", cartridge |-> PrgOf(f)]
    BY DEF nes_ines_nrom_prg_loader, PrgOf
  <2>2. [PrgOf(f) EXCEPT !.chrrom = Copied(@, DataFrom(f, prg), chr)] = CartridgeOf(f)
    BY DEF CartridgeOf
  <2>3. LoadChr(PrgOf(f), f) =
          IF rest - prg < chr
            THEN [err |-> "CARTRIDGE_EMPTY", cartridge |-> PrgOf(f)]
          ELSE IF chr > NROM_CHRROM_SIZE
            THEN [err |-> "CARTRIDGE_TOO_LARGE", cartridge |-> PrgOf(f)]
          ELSE [err |-> "SUCCESS", cartridge |-> CartridgeOf(f)]
    BY <2>2 DEF LoadChr, nes_ines_nrom_chr_loader, Failed
  <2>4. LoadData(empty, f) = IF loader.err # "SUCCESS" THEN loader
                             ELSE LoadChr(loader.cartridge, f)
    BY DEF LoadData
  <2> HIDE DEF loader, empty, prg, chr, rest
  <2> QED
    BY <2>1, <2>3, <2>4
<1>3. load = IF f.len < INES_HEADER_SIZE
               THEN [err |-> "CARTRIDGE_BAD_INES_FORMAT", cartridge |-> c]
             ELSE IF ~ f.magic
               THEN [err |-> "CARTRIDGE_BAD_INES_FORMAT", cartridge |-> EmptyCartridge]
             ELSE IF rest < prg
               THEN [err |-> "CARTRIDGE_EMPTY", cartridge |-> EmptyCartridge]
             ELSE IF f.mapper # 0
               THEN [err |-> "CARTRIDGE_UNSUPPORTED_MAPPER",
                     cartridge |-> [EmptyCartridge EXCEPT !.type = f.mapper]]
             ELSE LoadData(empty, f)
  BY DEF nes_cartridge_read_ines, Failed
<1> HIDE DEF load, empty, prg, chr
<1>4. Fits(f) <=> /\ ~ (f.len < INES_HEADER_SIZE) /\ f.magic /\ ~ (rest < prg)
                  /\ f.mapper = 0 /\ ~ (prg > NROM_PRGROM_SIZE)
                  /\ ~ (rest - prg < chr) /\ ~ (chr > NROM_CHRROM_SIZE)
  BY <1>1 DEF Fits, prg, chr
<1>5. (load.err = "SUCCESS") <=> Fits(f)
  BY <1>2, <1>3, <1>4
<1>6. Fits(f) => load.cartridge = CartridgeOf(f)
  BY <1>2, <1>3, <1>4
<1>7. \/ load.cartridge \in {c, EmptyCartridge,
            [EmptyCartridge EXCEPT !.type = f.mapper], empty}
      \/ load.cartridge = PrgOf(f) /\ prg <= NROM_PRGROM_SIZE
      \/ load.cartridge = CartridgeOf(f) /\ Fits(f)
  BY <1>1, <1>2, <1>3, <1>4
<1> QED
  BY <1>5, <1>6, <1>7 DEF load, empty, prg

(* Loading a file keeps the structure a cartridge, whatever the file is.   *)
LEMMA LoadType ==
  ASSUME NEW c, IsCartridge(c), NEW f, IsFile(f)
  PROVE  IsCartridge(nes_cartridge_read_ines(c, f).cartridge)
<1> DEFINE load == nes_cartridge_read_ines(c, f).cartridge
<1>1. /\ prgrom_len(f) \in Nat /\ chrrom_len(f) \in Nat
      /\ NROM_PRGROM_SIZE \in Nat /\ NROM_CHRROM_SIZE \in Nat
      /\ IsArray(f.bytes, Nat) /\ f.mapper \in Nat
      /\ chr_mapper_of(f) \in Mappers
  BY FileNumbers DEF IsFile, chr_mapper_of, Mappers
<1>2. /\ IsArray(ZeroArray, 0 .. (NROM_PRGROM_SIZE - 1))
      /\ IsArray(ZeroArray, 0 .. (NROM_CHRROM_SIZE - 1))
  BY ZeroArrayType
<1> HIDE DEF load
<1>3. prgrom_len(f) <= NROM_PRGROM_SIZE =>
        IsArray(CartridgeOf(f).prgrom, 0 .. (NROM_PRGROM_SIZE - 1))
  <2> SUFFICES ASSUME prgrom_len(f) <= NROM_PRGROM_SIZE
               PROVE  IsArray(CartridgeOf(f).prgrom, 0 .. (NROM_PRGROM_SIZE - 1))
    OBVIOUS
  <2>1. IsArray(Copied(ZeroArray, f.bytes, prgrom_len(f)), 0 .. (NROM_PRGROM_SIZE - 1))
    BY <1>1, <1>2, CopiedType
  <2> QED
    BY <2>1, LoadedFields
<1>4. chrrom_len(f) <= NROM_CHRROM_SIZE =>
        IsArray(CartridgeOf(f).chrrom, 0 .. (NROM_CHRROM_SIZE - 1))
  <2> SUFFICES ASSUME chrrom_len(f) <= NROM_CHRROM_SIZE
               PROVE  IsArray(CartridgeOf(f).chrrom, 0 .. (NROM_CHRROM_SIZE - 1))
    OBVIOUS
  <2>1. IsArray(DataFrom(f, prgrom_len(f)), Nat)
    BY <1>1, DataFromType
  <2>2. IsArray(Copied(ZeroArray, DataFrom(f, prgrom_len(f)), chrrom_len(f)),
                0 .. (NROM_CHRROM_SIZE - 1))
    BY <1>1, <1>2, <2>1, CopiedType
  <2> QED
    BY <2>2, LoadedFields
<1>5. IsCartridge(EmptyCartridge)
      /\ IsCartridge([EmptyCartridge EXCEPT !.type = f.mapper])
      /\ IsCartridge([EmptyCartridge EXCEPT !.chr_mapper_fn = chr_mapper_of(f)])
  BY <1>1, <1>2 DEF IsCartridge, IsNrom, EmptyCartridge
<1> DEFINE mirrored == prgrom_len(f) <= NROM_PRGROM_SIZE \div 2
<1>6. mirrored \in BOOLEAN
  OBVIOUS
<1>7. \A q \in {PrgOf(f), CartridgeOf(f)} : q.mirrored_bank = mirrored
  BY LoadedFields
<1> HIDE DEF mirrored
<1>8. prgrom_len(f) <= NROM_PRGROM_SIZE => IsCartridge(PrgOf(f))
  <2>1. /\ PrgOf(f).prgrom = CartridgeOf(f).prgrom
        /\ PrgOf(f).chrrom = ZeroArray
        /\ PrgOf(f).chr_mapper_fn \in Mappers
        /\ PrgOf(f).type = 0
        /\ PrgOf(f).mirrored_bank \in BOOLEAN
    BY <1>1, <1>6, <1>7, LoadedFields
  <2> QED
    BY <1>2, <1>3, <2>1 DEF IsCartridge, IsNrom
<1>9. Fits(f) => IsCartridge(CartridgeOf(f))
  BY <1>1, <1>3, <1>4, <1>6, <1>7, LoadedFields DEF IsCartridge, IsNrom, Fits
<1>10. \/ load \in {c, EmptyCartridge, [EmptyCartridge EXCEPT !.type = f.mapper],
                   [EmptyCartridge EXCEPT !.chr_mapper_fn = chr_mapper_of(f)]}
       \/ load = PrgOf(f) /\ prgrom_len(f) <= NROM_PRGROM_SIZE
       \/ load = CartridgeOf(f) /\ Fits(f)
  BY Loading DEF load
<1>11. IsCartridge(load)
  BY <1>5, <1>8, <1>9, <1>10
<1> QED
  BY <1>11 DEF load
=============================================================================

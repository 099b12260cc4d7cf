--------------------------- MODULE VideoClient_proofs ---------------------------
(***************************************************************************)
(* Video memory stays inside its two arrays, its pattern and palette reads *)
(* agree with its byte reads, and it implements the address space of       *)
(* AddressSpace.tla, for every width of a byte, every map that             *)
(* VideoAssumption admits and either mirroring function.                   *)
(***************************************************************************)
EXTENDS VideoRefinement, Memory_proofs

(* The inductive invariant: the type invariant, the fields of the          *)
(* structure, and a cartridge that was loaded.                             *)
IInv ==
  /\ TypeOK
  /\ TwoArrays(vram)
  /\ cartridge \in Cartridges

(* The inserted cartridge has its arrays and a mirroring function.         *)
LEMMA Inserted ==
  IInv => /\ IsCartridge(cartridge) /\ IsNrom(cartridge)
          /\ cartridge.chr_mapper_fn \in Mappers
          /\ IsVram(vram)
BY ClientAssumption DEF IInv, IsCartridge, TwoArrays

(* Video memory after its initialisation satisfies the invariant.          *)
LEMMA InitIInv == Init => IInv
<1> SUFFICES ASSUME Init PROVE IInv
  OBVIOUS
<1>1. TwoArrays(vram)
  BY ZeroArrayType DEF Init, nes_vram_init, TwoArrays, IsVram
<1>2. 0 \in Word
  BY ByteAssumption DEF Word, WORD
<1> QED
  BY <1>1, <1>2, ClientAssumption DEF Init, IInv, TypeOK, TwoArrays

(* A write that returns one of the codes keeps the invariant.              *)
LEMMA WriteIInv ==
  ASSUME IInv, NEW w, Write(w), w.err \in WriteCodes, TwoArrays(w.vram)
  PROVE  IInv'
BY DEF IInv, TypeOK, Write, WriteCodes, TwoArrays, IsVram, IsArray, IsCartridge,
       IsNrom

(* A read keeps the invariant: it changes only what the caller sees.       *)
LEMMA ReadIInv ==
  ASSUME IInv, NEW r, Read(r),
         \/ r.err = "SUCCESS" /\ r.result \in Word
         \/ r.err \in ReadCodes /\ r.result = result
  PROVE  IInv'
BY DEF IInv, TypeOK, Read, ReadCodes, TwoArrays, IsVram, IsArray, IsCartridge,
       IsNrom

(* Each of the four calls keeps the invariant.                             *)
LEMMA NextIInv == IInv /\ [Next]_vars => IInv'
<1> SUFFICES ASSUME IInv, [Next]_vars PROVE IInv'
  OBVIOUS
<1>1. /\ IsNrom(cartridge) /\ cartridge.chr_mapper_fn \in Mappers
      /\ TwoArrays(vram) /\ IsVram(vram) /\ Byte \subseteq Word
  BY Inserted, ByteIsWord DEF IInv
<1>2. ASSUME NEW addr \in Addresses, NEW value \in Values,
             Write(nes_vram_w8(vram, cartridge, addr, value))
      PROVE  IInv'
  BY <1>1, <1>2, VideoWrite8Type, WriteIInv, ClientAssumption
<1>3. ASSUME NEW addr \in Addresses, NEW msb \in Values, NEW lsb \in Values,
             Write(nes_vram_w16(vram, cartridge, addr, U16(msb, lsb)))
      PROVE  IInv'
  <2>1. U16(msb, lsb) \in Word /\ addr \in Word
    BY HalvesOfU16, ClientAssumption
  <2> QED
    BY <1>1, <1>3, <2>1, VideoWrite16Type, WriteIInv
<1>4. ASSUME NEW addr \in Addresses,
             Read(nes_vram_r8(vram, cartridge, addr, result))
      PROVE  IInv'
  BY <1>1, <1>4, VideoRead8Type, ReadIInv, ClientAssumption
<1>5. ASSUME NEW addr \in Addresses,
             Read(nes_vram_r16(vram, cartridge, addr, result))
      PROVE  IInv'
  BY <1>1, <1>5, VideoRead16Type, ReadIInv, ClientAssumption
<1>6. CASE UNCHANGED vars
  BY <1>6 DEF vars, IInv, TypeOK, TwoArrays, IsVram, IsArray, IsCartridge, IsNrom
<1> QED
  BY <1>2, <1>3, <1>4, <1>5, <1>6 DEF Next

(* The invariant holds in every reachable state.                           *)
LEMMA SpecIInv == Spec => []IInv
BY InitIInv, NextIInv, PTL DEF Spec

(* No call of memory/video.c, with either mirroring function, leaves ciram *)
(* or palette_ram, or returns anything but a byte or a word.               *)
THEOREM TypeCorrect == Spec => []TypeOK
<1>1. IInv => TypeOK
  BY DEF IInv
<1> QED
  BY <1>1, SpecIInv, PTL

-----------------------------------------------------------------------------
(* Refinement.                                                             *)

(* The addresses that can be written, each with a cell of its own region.  *)
Writable == Nametable \cup Palette

(* The aliases of a writable address are the addresses located with it.    *)
LEMMA AliasIsLocation ==
  ASSUME cartridge.chr_mapper_fn \in Mappers,
         NEW a \in Word, a \in Writable, NEW x \in Word
  PROVE  x \in VideoAlias[a] <=> Locate(cartridge, x) = Locate(cartridge, a)
<1> DEFINE mapper == cartridge.chr_mapper_fn
<1>1. x \in VideoAlias[a] <=>
        \/ a = x
        \/ <<a, x>> \in SameNametableCell[mapper]
        \/ /\ a \in Palette /\ x \in Palette
           /\ (a - PALETTE_ADDR) % PALETTE_RAM_SIZE
                = (x - PALETTE_ADDR) % PALETTE_RAM_SIZE
  BY DEF VideoAlias, Wiring, Palettes, Palette
<1>2. <<a, x>> \in SameNametableCell[mapper] <=>
        /\ a \in Nametable /\ x \in Nametable
        /\ \/ mapper = "vertical" /\ a % CIRAM_SIZE = x % CIRAM_SIZE
           \/ mapper # "vertical" /\ Slot(a) = Slot(x)
  <2>1. a \in Nametable /\ x \in Nametable =>
          (Slot(a) = Slot(x) <=>
             /\ a % NAMETABLE_SIZE = x % NAMETABLE_SIZE
             /\ (a < SecondHalf) <=> (x < SecondHalf))
    BY SlotsEqual
  <2> QED
    BY <2>1, VideoNumbers DEF SameNametableCell, Nametables, Nametable, Mappers
<1>3. CASE a \in Nametable
  <2>1. Locate(cartridge, a) = Located("ciram", CiramCell(mapper, a))
    BY <1>3, LocatedByRegion, Regions
  <2>2. x \in Nametable =>
          Locate(cartridge, x) = Located("ciram", CiramCell(mapper, x))
    BY LocatedByRegion, Regions
  <2>3. x \notin Nametable => Locate(cartridge, x).where # "ciram"
    BY LocatedByRegion, Regions DEF Located
  <2>4. ASSUME x \in Nametable
        PROVE  CiramCell(mapper, a) = CiramCell(mapper, x) <=>
                 \/ mapper = "vertical" /\ a % CIRAM_SIZE = x % CIRAM_SIZE
                 \/ mapper # "vertical" /\ Slot(a) = Slot(x)
    <3> DEFINE base == PATTERN_TABLE_ADDR
    <3>1. /\ Slot(a) \in 0 .. (CIRAM_SIZE - 1) /\ Slot(x) \in 0 .. (CIRAM_SIZE - 1)
          /\ base \in Int /\ CIRAM_SIZE \in Nat \ {0}
      BY <1>3, <2>4, SlotType, VideoNumbers
    <3> HIDE DEF base
    <3>2. (base + Slot(a)) % CIRAM_SIZE = (base + Slot(x)) % CIRAM_SIZE
            <=> Slot(a) = Slot(x)
      BY <3>1, ModInjective
    <3> QED
      BY <3>2 DEF CiramCell, base
  <2>5. a \notin Palette
    BY <1>3, Regions
  <2> HIDE DEF mapper
  <2> QED
    BY <1>1, <1>2, <1>3, <2>1, <2>2, <2>3, <2>4, <2>5 DEF Located
<1>4. CASE a \in Palette
  <2>1. Locate(cartridge, a) = Located("palette", PaletteCell(a))
    BY <1>4, LocatedByRegion, Regions
  <2>2. x \in Palette =>
          Locate(cartridge, x) = Located("palette", PaletteCell(x))
    BY LocatedByRegion, Regions
  <2>3. x \notin Palette => Locate(cartridge, x).where # "palette"
    BY LocatedByRegion, Regions DEF Located
  <2>4. a \notin Nametable
    BY <1>4, Regions
  <2>5. /\ PaletteCell(a) = (a - PALETTE_ADDR) % PALETTE_RAM_SIZE
        /\ x \in Palette =>
             PaletteCell(x) = (x - PALETTE_ADDR) % PALETTE_RAM_SIZE
    BY <1>4, PaletteCellIs
  <2> HIDE DEF mapper
  <2> QED
    BY <1>1, <1>2, <1>4, <2>1, <2>2, <2>3, <2>4, <2>5 DEF Located
<1> QED
  BY <1>3, <1>4 DEF Writable

(* The bus that the two arrays would give with the inserted cartridge.     *)
BusOf(v) == [a \in Word |-> nes_vram_r8(v, cartridge, a, 0).result]

(* A write to a writable address is seen at its aliases only.              *)
LEMMA WriteSeen ==
  ASSUME cartridge.chr_mapper_fn \in Mappers, NEW v, TwoArrays(v),
         NEW a \in Word, a \in Writable, NEW value
  PROVE  LET w == nes_vram_w8(v, cartridge, a, value)
         IN  /\ w.err = "SUCCESS"
             /\ BusOf(w.vram) = [x \in Word |->
                   IF x \in VideoAlias[a] THEN value ELSE BusOf(v)[x]]
<1> DEFINE w == nes_vram_w8(v, cartridge, a, value)
           at(x) == Locate(cartridge, x)
<1>1. \/ /\ at(a).where = "palette"
         /\ w = Stored([v EXCEPT !.palette_ram = Poke(@, at(a).index, value)])
      \/ /\ at(a).where = "ciram"
         /\ w = Stored([v EXCEPT !.ciram = Poke(@, at(a).index, value)])
  BY LocatedByRegion, Regions DEF Writable, nes_vram_w8, Located
<1>2. ASSUME NEW x \in Word
      PROVE  nes_vram_r8(w.vram, cartridge, x, 0).result
               = IF at(x) = at(a) THEN value
                 ELSE nes_vram_r8(v, cartridge, x, 0).result
  <2>1. at(x) = Located(at(x).where, at(x).index)
        /\ at(a) = Located(at(a).where, at(a).index)
    BY LocatedByRegion DEF Located
  <2>2. at(x) = at(a) <=> /\ at(x).where = at(a).where
                          /\ at(x).index = at(a).index
    BY <2>1 DEF Located
  <2>3. CASE at(a).where = "palette"
    <3>1. /\ w.vram.palette_ram = Poke(v.palette_ram, at(a).index, value)
          /\ w.vram.ciram = v.ciram
      BY <1>1, <2>3 DEF Stored, TwoArrays
    <3> HIDE DEF w, at
    <3>2. Peek(w.vram.palette_ram, at(x).index)
            = IF at(x).index = at(a).index THEN value
              ELSE Peek(v.palette_ram, at(x).index)
      BY <3>1, PeekPoke
    <3> QED
      BY <2>2, <2>3, <3>1, <3>2 DEF nes_vram_r8, at
  <2>4. CASE at(a).where = "ciram"
    <3>1. /\ w.vram.ciram = Poke(v.ciram, at(a).index, value)
          /\ w.vram.palette_ram = v.palette_ram
      BY <1>1, <2>4 DEF Stored, TwoArrays
    <3> HIDE DEF w, at
    <3>2. Peek(w.vram.ciram, at(x).index)
            = IF at(x).index = at(a).index THEN value
              ELSE Peek(v.ciram, at(x).index)
      BY <3>1, PeekPoke
    <3> QED
      BY <2>2, <2>4, <3>1, <3>2 DEF nes_vram_r8, at
  <2> QED
    BY <1>1, <2>3, <2>4
<1>3. w.err = "SUCCESS"
  BY <1>1 DEF Stored
<1>4. \A x \in Word : x \in VideoAlias[a] <=> at(x) = at(a)
  BY AliasIsLocation
<1> HIDE DEF w, at
<1> QED
  BY <1>2, <1>3, <1>4 DEF BusOf, w

(* The bus of the refinement is the one of the structure.                  *)
LEMMA BusOfVram == Bus = BusOf(vram)
BY DEF Bus, BusOf

(* The two modules share the words of Words.tla.                           *)
LEMMA SameWords ==
  /\ Abstract!Word = Word
  /\ Abstract!Byte = Byte
  /\ \A a : Abstract!Inc16(a) = Inc16(a)
  /\ \A msb, lsb : Abstract!U16(msb, lsb) = U16(msb, lsb)
BY DEF Abstract!Word, Word, Abstract!Byte, Byte, Abstract!WORD, WORD,
       Abstract!Inc16, Inc16, Abstract!U16, U16

(* An address is refused, with its code, or is in ciram or palette_ram.    *)
LEMMA Refusals ==
  /\ Abstract!ReadOnly = DOMAIN WriteErrors
  /\ Abstract!Unmapped = DOMAIN ReadErrors
  /\ \A a \in Word : a \in Writable <=> a \notin DOMAIN WriteErrors
<1>1. DOMAIN WriteErrors = Outside \cup Chr
  BY DEF WriteErrors, OutOfRange, ChrAddresses, Outside, Chr
<1> QED
  BY <1>1, Regions DEF Abstract!ReadOnly, Abstract!Unmapped, Writable

(* A refused write changes nothing and returns the code of its address.    *)
LEMMA WriteRefused ==
  ASSUME cartridge.chr_mapper_fn \in Mappers, NEW v,
         NEW a \in DOMAIN WriteErrors, NEW value
  PROVE  nes_vram_w8(v, cartridge, a, value) = [err |-> WriteErrors[a], vram |-> v]
<1>1. a \in Word /\ a \in OutOfRange \cup ChrAddresses
  BY DEF WriteErrors, OutOfRange, ChrAddresses
<1>2. CASE a \in OutOfRange
  <2>1. Locate(cartridge, a) = Located("MEMORY_INVALILD_ADDR", 0)
    BY <1>1, <1>2, LocatedByRegion DEF OutOfRange, Outside
  <2> QED
    BY <1>1, <1>2, <2>1 DEF nes_vram_w8, Located, WriteErrors
<1>3. CASE a \in ChrAddresses /\ a \notin OutOfRange
  <2>1. Locate(cartridge, a) = Located("chr", a)
    BY <1>1, <1>3, LocatedByRegion, Regions DEF ChrAddresses, Chr
  <2> QED
    BY <1>1, <1>3, <2>1 DEF nes_vram_w8, Located, WriteErrors
<1> QED
  BY <1>1, <1>2, <1>3

(* A single read answers with the byte of the bus, or with the code of its *)
(* address and the old value.                                              *)
LEMMA AnswerOfBus ==
  ASSUME cartridge.chr_mapper_fn \in Mappers, NEW a \in Word, NEW old
  PROVE  nes_vram_r8(vram, cartridge, a, old)
           = IF a \in DOMAIN ReadErrors
               THEN [err |-> ReadErrors[a], result |-> old]
               ELSE [err |-> "SUCCESS", result |-> Bus[a]]
<1>1. Bus[a] = nes_vram_r8(vram, cartridge, a, 0).result
  BY DEF Bus
<1>2. a \in DOMAIN ReadErrors <=> a \in OutOfRange \cup UnmappedChr
  BY DEF ReadErrors
<1>3. CASE a \in Outside
  <2>1. Locate(cartridge, a) = Located("MEMORY_INVALILD_ADDR", 0)
    BY <1>3, LocatedByRegion
  <2>2. a \in OutOfRange
    BY <1>3 DEF Outside, OutOfRange
  <2> QED
    BY <1>2, <2>1, <2>2 DEF nes_vram_r8, Located, ReadErrors
<1>4. CASE a \in Chr
  <2>1. Locate(cartridge, a) = Located("chr", a)
    BY <1>4, LocatedByRegion, Regions
  <2>2. a \notin OutOfRange
    BY <1>4, Regions DEF Outside, OutOfRange
  <2>3. a \in UnmappedChr <=> a >= NROM_CHRROM_SIZE
    BY <1>4 DEF UnmappedChr, ChrAddresses, Chr
  <2> QED
    BY <1>1, <1>2, <2>1, <2>2, <2>3
       DEF nes_vram_r8, Located, ReadErrors, nes_ines_nrom_chr_reader
<1>5. CASE a \in Writable
  <2>1. Locate(cartridge, a).where \in {"palette", "ciram"}
    BY <1>5, LocatedByRegion, Regions DEF Located, Writable
  <2>2. a \notin OutOfRange \cup UnmappedChr
    BY <1>5, Regions DEF Writable, Outside, OutOfRange, UnmappedChr,
                         ChrAddresses, Chr
  <2> QED
    BY <1>1, <1>2, <2>1, <2>2 DEF nes_vram_r8
<1> QED
  BY <1>3, <1>4, <1>5, Regions DEF Writable

(* An initialised video memory is an initial address space.                *)
LEMMA InitRefines == Init => Abstract!Init
<1> SUFFICES ASSUME Init PROVE Abstract!Init
  OBVIOUS
<1>1. /\ IsNrom(cartridge) /\ cartridge.chr_mapper_fn \in Mappers
      /\ IsVram(vram)
  BY InitIInv, Inserted
<1>2. Bus \in [Word -> Byte]
  <2>1. ASSUME NEW a \in Word
        PROVE  nes_vram_r8(vram, cartridge, a, 0).result \in Byte
    BY <1>1, VideoRead8Type, ByteAssumption DEF Byte
  <2> QED
    BY <2>1 DEF Bus
<1>3. ASSUME NEW a \in Word, a \notin DOMAIN WriteErrors
      PROVE  Bus[a] = 0
  <2>1. Locate(cartridge, a).where \in {"palette", "ciram"}
    BY <1>1, <1>3, Refusals, LocatedByRegion, Regions DEF Located, Writable
  <2>2. Bus[a] = nes_vram_r8(vram, cartridge, a, 0).result
    BY DEF Bus
  <2>3. vram.ciram = ZeroArray /\ vram.palette_ram = ZeroArray
    BY DEF Init, nes_vram_init
  <2> QED
    BY <2>1, <2>2, <2>3, ZeroArrayType DEF nes_vram_r8
<1>4. \A a \in Word : a \in VideoAlias[a]
  BY <1>1 DEF VideoAlias, Wiring
<1> QED
  BY <1>2, <1>3, <1>4, SameWords, Refusals DEF Init, Abstract!Init

(* A byte write is a store to the aliases of its address, or refused.      *)
LEMMA Write8Refines ==
  ASSUME cartridge.chr_mapper_fn \in Mappers, TwoArrays(vram),
         NEW a \in Word, NEW value \in Values,
         Write(nes_vram_w8(vram, cartridge, a, value))
  PROVE  Abstract!Write8(a, value)
<1>1. Bus' = BusOf(vram') /\ VideoAlias' = VideoAlias /\ result' = result
  BY DEF Write, Bus, BusOf, VideoAlias
<1>2. CASE a \in DOMAIN WriteErrors
  BY <1>1, <1>2, WriteRefused, BusOfVram, Refusals
     DEF Write, Abstract!Write8, Abstract!RefuseWrite
<1>3. CASE a \notin DOMAIN WriteErrors
  <2>1. a \in Writable
    BY <1>3, Refusals
  <2>2. Bus' = Abstract!Store(a, value) /\ ret' = "SUCCESS"
    BY <1>1, <2>1, WriteSeen, BusOfVram, SameWords DEF Write, Abstract!Store
  <2> QED
    BY <1>1, <1>3, <2>2, Refusals DEF Abstract!Write8, Abstract!AcceptWrite
<1> QED
  BY <1>2, <1>3

(* A word write is two byte writes, of which the second may be refused.    *)
LEMMA Write16Refines ==
  ASSUME cartridge.chr_mapper_fn \in Mappers, TwoArrays(vram),
         NEW a \in Word, NEW msb \in Values, NEW lsb \in Values,
         Write(nes_vram_w16(vram, cartridge, a, U16(msb, lsb)))
  PROVE  Abstract!Write16(a, msb, lsb)
<1> DEFINE b    == Inc16(a)
           low  == nes_vram_w8(vram, cartridge, a, lsb)
           high == nes_vram_w8(low.vram, cartridge, b, msb)
<1>1. /\ Msb(U16(msb, lsb)) = msb /\ Lsb(U16(msb, lsb)) = lsb
      /\ b \in Word /\ lsb \in Byte
  BY HalvesOfU16, Inc16Type, ClientAssumption
<1>2. Bus' = BusOf(vram') /\ VideoAlias' = VideoAlias /\ result' = result
  BY DEF Write, Bus, BusOf, VideoAlias
<1>3. /\ vram' = IF low.err # "SUCCESS" THEN low.vram ELSE high.vram
      /\ ret'  = IF low.err # "SUCCESS" THEN low.err ELSE high.err
  BY <1>1 DEF Write, nes_vram_w16
<1>4. CASE a \in DOMAIN WriteErrors
  <2>1. low = [err |-> WriteErrors[a], vram |-> vram] /\ WriteErrors[a] # "SUCCESS"
    BY <1>4, WriteRefused DEF WriteErrors
  <2>2. Bus' = Bus /\ ret' = WriteErrors[a]
    BY <1>2, <1>3, <2>1, BusOfVram
  <2> QED
    BY <1>2, <1>4, <2>2, Refusals DEF Abstract!Write16, Abstract!RefuseWrite
<1>5. CASE a \notin DOMAIN WriteErrors
  <2>1. a \in Writable
    BY <1>5, Refusals
  <2>2. low.err = "SUCCESS" /\ BusOf(low.vram) = Abstract!Store(a, lsb)
    BY <2>1, WriteSeen, BusOfVram, SameWords DEF Abstract!Store
  <2>3. TwoArrays(low.vram)
    BY <1>1, VideoWrite8Type
  <2> HIDE DEF low, b
  <2>4. CASE b \in DOMAIN WriteErrors
    <3>1. high = [err |-> WriteErrors[b], vram |-> low.vram]
      BY <2>4, WriteRefused
    <3>2. Bus' = Abstract!Store(a, lsb) /\ ret' = WriteErrors[b]
      BY <1>2, <1>3, <2>2, <3>1
    <3> QED
      BY <1>2, <1>5, <2>4, <3>2, SameWords, Refusals
         DEF b, Abstract!Write16, Abstract!RefuseWrite
  <2>5. CASE b \notin DOMAIN WriteErrors
    <3>1. b \in Writable
      BY <1>1, <2>5, Refusals
    <3>2. /\ high.err = "SUCCESS"
          /\ BusOf(high.vram) = [x \in Word |->
                IF x \in VideoAlias[b] THEN msb ELSE BusOf(low.vram)[x]]
      BY <1>1, <2>3, <3>1, WriteSeen
    <3> HIDE DEF high
    <3>3. /\ ret' = "SUCCESS"
          /\ Bus' = [x \in Word |-> IF x \in VideoAlias[b] THEN msb
                                    ELSE Abstract!Store(a, lsb)[x]]
      BY <1>2, <1>3, <2>2, <3>2
    <3>4. {a, b} \cap DOMAIN WriteErrors = {}
      BY <1>5, <2>5
    <3> QED
      BY <1>2, <3>3, <3>4, SameWords, Refusals
         DEF b, Abstract!Write16, Abstract!AcceptWrite
  <2> QED
    BY <2>4, <2>5
<1> QED
  BY <1>4, <1>5

(* What a byte read answers is what the bus has at its address.            *)
LEMMA ReadBus ==
  ASSUME NEW r, Read(r)
  PROVE  /\ Bus' = Bus /\ VideoAlias' = VideoAlias
         /\ ret' = r.err
         /\ result' = r.result
BY DEF Read, Bus, VideoAlias

(* A byte read gives the byte of the bus, or its code.                     *)
LEMMA Read8Refines ==
  ASSUME cartridge.chr_mapper_fn \in Mappers,
         NEW a \in Word, Read(nes_vram_r8(vram, cartridge, a, result))
  PROVE  Abstract!Read8(a)
<1>1. CASE a \in DOMAIN ReadErrors
  BY <1>1, ReadBus, AnswerOfBus, Refusals
     DEF Abstract!Read8, Abstract!RefuseRead
<1>2. CASE a \notin DOMAIN ReadErrors
  BY <1>2, ReadBus, AnswerOfBus, Refusals
     DEF Abstract!Read8, Abstract!AnswerRead
<1> QED
  BY <1>1, <1>2

(* A word read gives two bytes of the bus, or the first code.              *)
LEMMA Read16Refines ==
  ASSUME cartridge.chr_mapper_fn \in Mappers,
         NEW a \in Word, Read(nes_vram_r16(vram, cartridge, a, result))
  PROVE  Abstract!Read16(a)
<1> DEFINE b == Inc16(a)
           answer == IF a \in DOMAIN ReadErrors
                       THEN [err |-> ReadErrors[a], result |-> result]
                     ELSE IF b \in DOMAIN ReadErrors
                       THEN [err |-> ReadErrors[b], result |-> result]
                     ELSE [err |-> "SUCCESS", result |-> U16(Bus[b], Bus[a])]
<1>1. b \in Word
  BY Inc16Type
<1>2. \A x \in DOMAIN ReadErrors : ReadErrors[x] # "SUCCESS"
  BY DEF ReadErrors
<1>3. nes_vram_r16(vram, cartridge, a, result) = answer
  BY <1>1, <1>2, AnswerOfBus DEF nes_vram_r16
<1>4. /\ Bus' = Bus /\ VideoAlias' = VideoAlias
      /\ ret' = answer.err /\ result' = answer.result
  BY <1>3, ReadBus
<1>5. CASE {a, b} \cap DOMAIN ReadErrors # {}
  BY <1>4, <1>5, SameWords, Refusals
     DEF Abstract!Read16, Abstract!RefuseRead
<1>6. CASE {a, b} \cap DOMAIN ReadErrors = {}
  BY <1>4, <1>6, SameWords, Refusals
     DEF Abstract!Read16, Abstract!AnswerRead
<1> QED
  BY <1>5, <1>6

(* Every step of video memory is one of the address space, or a stutter.   *)
LEMMA NextRefines == IInv /\ [Next]_vars => [Abstract!Next]_(Abstract!vars)
<1> SUFFICES ASSUME IInv, [Next]_vars PROVE [Abstract!Next]_(Abstract!vars)
  OBVIOUS
<1>1. Addresses \subseteq Word /\ Word = Abstract!Word
  BY ClientAssumption, SameWords
<1>2. cartridge.chr_mapper_fn \in Mappers /\ TwoArrays(vram)
  BY Inserted DEF IInv
<1>3. ASSUME NEW a \in Addresses, NEW v \in Values,
             Write(nes_vram_w8(vram, cartridge, a, v))
      PROVE  Abstract!Next
  BY <1>1, <1>2, <1>3, Write8Refines DEF Abstract!Next
<1>4. ASSUME NEW a \in Addresses, NEW msb \in Values, NEW lsb \in Values,
             Write(nes_vram_w16(vram, cartridge, a, U16(msb, lsb)))
      PROVE  Abstract!Next
  BY <1>1, <1>2, <1>4, Write16Refines DEF Abstract!Next
<1>5. ASSUME NEW a \in Addresses,
             Read(nes_vram_r8(vram, cartridge, a, result))
      PROVE  Abstract!Next
  BY <1>1, <1>2, <1>5, Read8Refines DEF Abstract!Next
<1>6. ASSUME NEW a \in Addresses,
             Read(nes_vram_r16(vram, cartridge, a, result))
      PROVE  Abstract!Next
  BY <1>1, <1>2, <1>6, Read16Refines DEF Abstract!Next
<1>7. CASE UNCHANGED vars
  BY <1>7 DEF vars, Abstract!vars, Bus, VideoAlias
<1> QED
  BY <1>3, <1>4, <1>5, <1>6, <1>7 DEF Next

(* Video memory is the address space of AddressSpace.tla, wired by the     *)
(* mirroring of its cartridge: a write is read back at every mirror of its *)
(* address and nowhere else, a failed call changes at most the low byte of *)
(* a word, and a read changes nothing.                                     *)
THEOREM AddressSpaceImplemented == Spec => ImplementsAddressSpace
BY InitRefines, NextRefines, SpecIInv, PTL
   DEF Spec, ImplementsAddressSpace, Abstract!Spec

-----------------------------------------------------------------------------
(* Palettes and patterns.                                                  *)

(* A palette read gives the bytes of its addresses, one by one.            *)
LEMMA PaletteReads == IInv => PaletteIsBytes
<1> SUFFICES ASSUME IInv, NEW a \in PaletteStarts, NEW i \in PaletteBytes
             PROVE  nes_vram_palette_read(vram, a, [n \in PaletteBytes |-> 0]).palette[i]
                      = ByteAt(a + i).result
  BY DEF PaletteIsBytes
<1>1. a \in Palette /\ (a - PALETTE_ADDR) % PALETTE_SIZE = 0
  BY DEF PaletteStarts, Palette
<1> QED
  BY <1>1, Inserted, PaletteRead DEF ByteAt

(* A palette read at the start of a palette, in every mirror of palette    *)
(* RAM, never leaves the array and gives the bytes of its four addresses.  *)
THEOREM PaletteReadsAreBytes == Spec => []PaletteIsBytes
BY PaletteReads, SpecIInv, PTL

(* A pattern read gives the bytes of its addresses, one by one.            *)
LEMMA PatternReads ==
  ASSUME NROM_CHRROM_SIZE = PATTERN_TABLE_ADDR, IInv
  PROVE  PatternIsBytes
<1> SUFFICES ASSUME NEW a \in Addresses
             PROVE
    LET p == nes_vram_pattern_read(cartridge, a, [n \in PatternBytes |-> 0])
    IN  /\ (p.err = "SUCCESS") <=> (a + PATTERN_SIZE <= PATTERN_TABLE_ADDR)
        /\ p.err = "SUCCESS" =>
             \A i \in PatternBytes : p.pattern[i] = ByteAt(a + i).result
  BY DEF PatternIsBytes
<1>1. a \in Word
  BY ClientAssumption
<1> QED
  BY <1>1, Inserted, PatternRead DEF ByteAt

(* With a CHR bank as large as the pattern tables, as in the code, a       *)
(* pattern read succeeds exactly when the pattern is in the tables, and    *)
(* gives the bytes of its addresses.                                       *)
THEOREM PatternReadsAreBytes ==
  ASSUME NROM_CHRROM_SIZE = PATTERN_TABLE_ADDR
  PROVE  Spec => []PatternIsBytes
<1>1. IInv => PatternIsBytes
  BY PatternReads
<1> QED
  BY <1>1, SpecIInv, PTL
=============================================================================

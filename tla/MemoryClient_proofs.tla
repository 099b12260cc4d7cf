-------------------------- MODULE MemoryClient_proofs --------------------------
(***************************************************************************)
(* Main memory stays inside its array, never uses the cells of its         *)
(* mirrors, and implements the address space of AddressSpace.tla: for      *)
(* every width of a byte, every map that MapAssumption admits and every    *)
(* set of cartridges.                                                      *)
(***************************************************************************)
EXTENDS MemoryRefinement, Memory_proofs

(* The inductive invariant: the type invariant and the unused mirrors.     *)
IInv == TypeOK /\ MirrorsUnused

(* The memory after its initialisation satisfies the invariant.            *)
LEMMA InitIInv == Init => IInv
BY ZeroArrayType, ClientAssumption, ByteAssumption
   DEF Init, IInv, TypeOK, MirrorsUnused, nes_mem_init, IsData, ZeroArray,
       Word, WORD

(* A write that returns one of the codes keeps the invariant.              *)
LEMMA WriteIInv ==
  ASSUME IInv, NEW w, Write(w),
         w.err \in {"SUCCESS", "CARTRIDGE_PRGROM_READ_ONLY"},
         IsData(w.data),
         DOMAIN w.data \cap (RamMirrors \cup PpuMirrors) \subseteq DOMAIN data
  PROVE  IInv'
BY DEF IInv, TypeOK, MirrorsUnused, Write, IsData, IsArray, IsNrom,
       RamMirrors, PpuMirrors

(* A read keeps the invariant: it changes only what the caller sees.       *)
LEMMA ReadIInv ==
  ASSUME IInv, NEW r, Read(r),
         \/ r.err = "SUCCESS" /\ r.result \in Word
         \/ r.err = "CARTRIDGE_ADDR_NOT_MAPPED" /\ r.result = result
  PROVE  IInv'
BY DEF IInv, TypeOK, MirrorsUnused, Read, IsData, IsArray, IsNrom,
       RamMirrors, PpuMirrors

(* Each of the four calls keeps the invariant.                             *)
LEMMA NextIInv == IInv /\ [Next]_vars => IInv'
<1> SUFFICES ASSUME IInv, [Next]_vars PROVE IInv'
  OBVIOUS
<1>1. IsData(data) /\ IsNrom(cartridge) /\ Byte \subseteq Word
  BY ByteAssumption DEF IInv, TypeOK, Byte, Word, WORD
<1>2. ASSUME NEW addr \in Addresses, NEW value \in Values,
             Write(nes_mem_w8(data, addr, value))
      PROVE  IInv'
  BY <1>1, <1>2, Write8Type, WriteIInv, ClientAssumption
<1>3. ASSUME NEW addr \in Addresses, NEW msb \in Values, NEW lsb \in Values,
             Write(nes_mem_w16(data, addr, U16(msb, lsb)))
      PROVE  IInv'
  <2>1. U16(msb, lsb) \in Word /\ addr \in Word
    BY HalvesOfU16, ClientAssumption
  <2> QED
    BY <1>1, <1>3, <2>1, Write16Type, WriteIInv
<1>4. ASSUME NEW addr \in Addresses,
             Read(nes_mem_r8(cartridge, data, addr, result))
      PROVE  IInv'
  BY <1>1, <1>4, Read8Type, ReadIInv, ClientAssumption
<1>5. ASSUME NEW addr \in Addresses,
             Read(nes_mem_r16(cartridge, data, addr, result))
      PROVE  IInv'
  BY <1>1, <1>5, Read16Type, ReadIInv, ClientAssumption
<1>6. CASE UNCHANGED vars
  BY <1>6 DEF vars, IInv, TypeOK, MirrorsUnused, IsData, IsArray, IsNrom,
              RamMirrors, PpuMirrors
<1> QED
  BY <1>2, <1>3, <1>4, <1>5, <1>6 DEF Next

(* The invariant holds in every reachable state.                           *)
LEMMA SpecIInv == Spec => []IInv
BY InitIInv, NextIInv, PTL DEF Spec

(* No call of memory/main.c leaves _data or returns anything but a byte or *)
(* a word.                                                                 *)
THEOREM TypeCorrect == Spec => []TypeOK
<1>1. IInv => TypeOK
  BY DEF IInv
<1> QED
  BY <1>1, SpecIInv, PTL

(* The cells behind the mirrored ranges stay zero, whatever is written     *)
(* through a mirror, by a byte or by a word across its boundary.           *)
THEOREM MirrorsNeverUsed == Spec => []MirrorsUnused
<1>1. IInv => MirrorsUnused
  BY DEF IInv
<1> QED
  BY <1>1, SpecIInv, PTL

-----------------------------------------------------------------------------
(* Refinement.  An address is in one of three regions, which Cell keeps    *)
(* apart: two addresses share a cell when they are in the same region and  *)
(* congruent for its period.                                               *)

Ram == 0 .. RAM_MIRRORING_RANGE_END
Ppu == PPU_REG_MIRRORING_ADDR .. PPU_REG_MIRRORING_RANGE_END

(* The cell of a RAM address, mirrored or not.                             *)
LEMMA CellInRam ==
  ASSUME NEW a \in Ram
  PROVE  Cell(a) = a % RAM_MIRRORING_BASE /\ Cell(a) \in Ram
<1>1. /\ a \in Int /\ RAM_MIRRORING_BASE \in Nat \ {0}
      /\ RAM_MIRRORING_RANGE_START = RAM_MIRRORING_BASE
      /\ RAM_MIRRORING_RANGE_END < PPU_REG_MIRRORING_RANGE_START
      /\ RAM_MIRRORING_RANGE_END \in Nat
      /\ PPU_REG_MIRRORING_RANGE_START \in Nat
  BY MapAssumption DEF Ram
<1>2. a % RAM_MIRRORING_BASE \in 0 .. (RAM_MIRRORING_BASE - 1)
  BY <1>1, ModRange
<1>3. a < RAM_MIRRORING_BASE => a % RAM_MIRRORING_BASE = a
  BY <1>1 DEF Ram
<1> QED
  BY <1>1, <1>2, <1>3 DEF Cell, Ram, RamMirrors, PpuMirrors

(* The cell of a PPU register or of one of its mirrors.                    *)
LEMMA CellInPpu ==
  ASSUME NEW a \in Ppu
  PROVE  /\ Cell(a) = (a % PPU_REG_MIRRORING_BASE) + PPU_REG_MIRRORING_ADDR
         /\ Cell(a) \in Ppu
<1> DEFINE B == PPU_REG_MIRRORING_BASE
           A == PPU_REG_MIRRORING_ADDR
<1>1. /\ a \in Int /\ B \in Nat \ {0} /\ A \in Nat /\ A % B = 0
      /\ PPU_REG_MIRRORING_RANGE_START = A + B
      /\ RAM_MIRRORING_RANGE_END \in Nat
      /\ RAM_MIRRORING_RANGE_END < A
      /\ PPU_REG_MIRRORING_RANGE_END \in Nat
      /\ a >= A /\ a <= PPU_REG_MIRRORING_RANGE_END
  BY MapAssumption DEF Ppu
<1>2. a % B \in 0 .. (B - 1)
  BY <1>1, ModRange
<1>3. ASSUME a < A + B PROVE a % B = a - A
  <2> DEFINE q == A \div B
  <2>1. q \in Int /\ A = q * B + (A % B)
    BY <1>1, DivMod
  <2>2. a - A \in 0 .. (B - 1)
    BY <1>1, <1>3
  <2>3. (q * B + (a - A)) % B = a - A
    BY <1>1, <2>1, <2>2, DivModUnique
  <2>4. q * B + (a - A) = a
    BY <1>1, <2>1
  <2> QED
    BY <2>3, <2>4
<1>4. a \notin RamMirrors
  BY <1>1 DEF RamMirrors
<1> QED
  BY <1>1, <1>2, <1>3, <1>4 DEF Cell, Ppu, PpuMirrors

(* Every other address is its own cell.                                    *)
LEMMA CellElsewhere ==
  ASSUME NEW a \in Nat, a \notin Ram, a \notin Ppu
  PROVE  Cell(a) = a
BY MapAssumption DEF Cell, Ram, Ppu, RamMirrors, PpuMirrors

(* No address is both one of the RAM and one of the PPU registers.         *)
LEMMA RegionsDisjoint == Ram \cap Ppu = {}
BY MapAssumption DEF Ram, Ppu

(* The aliases of an address below the cartridge are the addresses below   *)
(* the cartridge with the same cell.                                       *)
LEMMA AliasIsCell ==
  ASSUME NEW a \in Word, a < CARTRIDGE_BEGIN, NEW x \in Word
  PROVE  x \in MirrorAlias[a] <=> (x < CARTRIDGE_BEGIN /\ Cell(x) = Cell(a))
<1>1. a \in Nat /\ x \in Nat
  BY ByteAssumption DEF Word, WORD
<1>2. x \in MirrorAlias[a] <=>
        \/ a = x
        \/ /\ a \in Ram /\ x \in Ram
           /\ a % RAM_MIRRORING_BASE = x % RAM_MIRRORING_BASE
        \/ /\ a \in Ppu /\ x \in Ppu
           /\ a % PPU_REG_MIRRORING_BASE = x % PPU_REG_MIRRORING_BASE
  BY DEF MirrorAlias, Repeats, Ram, Ppu
<1>3. x \in Ram \cup Ppu => x < CARTRIDGE_BEGIN
  BY MapAssumption DEF Ram, Ppu
<1>4. CASE a \in Ram
  <2>1. x \in Ram => (Cell(x) = Cell(a) <=> a % RAM_MIRRORING_BASE
                                              = x % RAM_MIRRORING_BASE)
    BY <1>4, CellInRam
  <2>2. x \notin Ram => Cell(x) # Cell(a)
    BY <1>1, <1>4, CellInRam, CellInPpu, CellElsewhere, RegionsDisjoint
  <2> QED
    BY <1>2, <1>3, <1>4, <2>1, <2>2, RegionsDisjoint
<1>5. CASE a \in Ppu
  <2>1. a % PPU_REG_MIRRORING_BASE \in Int
        /\ PPU_REG_MIRRORING_ADDR \in Int
    BY <1>1, MapAssumption, ModRange
  <2>2. x \in Ppu => x % PPU_REG_MIRRORING_BASE \in Int
    BY <1>1, MapAssumption, ModRange
  <2>3. x \in Ppu => (Cell(x) = Cell(a) <=> a % PPU_REG_MIRRORING_BASE
                                              = x % PPU_REG_MIRRORING_BASE)
    BY <1>5, <2>1, <2>2, CellInPpu
  <2>4. x \notin Ppu => Cell(x) # Cell(a)
    BY <1>1, <1>5, CellInRam, CellInPpu, CellElsewhere, RegionsDisjoint
  <2> QED
    BY <1>2, <1>3, <1>5, <2>3, <2>4, RegionsDisjoint
<1>6. CASE a \notin Ram \cup Ppu
  <2>1. x # a => Cell(x) # Cell(a)
    BY <1>1, <1>6, CellInRam, CellInPpu, CellElsewhere
  <2> QED
    BY <1>2, <1>6, <2>1
<1> QED
  BY <1>4, <1>5, <1>6

-----------------------------------------------------------------------------
(* The bus that an array would give with the inserted cartridge.           *)
BusOf(d) == [a \in Word |-> nes_mem_r8(cartridge, d, a, 0).result]

(* The bus of the refinement is the one of the array in memory.            *)
LEMMA BusOfData == Bus = BusOf(data)
BY DEF Bus, BusOf

(* Words are numbers.                                                      *)
LEMMA WordIsNat == Word \subseteq Nat /\ CARTRIDGE_BEGIN \in Nat
BY ByteAssumption, MapAssumption DEF Word, WORD

(* The two modules share the words of Words.tla.                           *)
LEMMA SameWords ==
  /\ Abstract!Word = Word
  /\ Abstract!Byte = Byte
  /\ \A a : Abstract!Inc16(a) = Inc16(a)
  /\ \A msb, lsb : Abstract!U16(msb, lsb) = U16(msb, lsb)
BY DEF Abstract!Word, Word, Abstract!Byte, Byte, Abstract!WORD, WORD,
       Abstract!Inc16, Inc16, Abstract!U16, U16

(* The refused addresses are the cartridge's, and the wiring is fixed.     *)
LEMMA Refusals ==
  /\ Abstract!ReadOnly = CartridgeAddresses
  /\ Abstract!Unmapped = UnmappedAddresses
  /\ MirrorAlias' = MirrorAlias
BY DEF Abstract!ReadOnly, Abstract!Unmapped, MirrorAlias, Repeats

(* A store to the cell of an address is seen at its aliases only.          *)
LEMMA StoreBus ==
  ASSUME NEW d, NEW a \in Word, a < CARTRIDGE_BEGIN, NEW v
  PROVE  BusOf(Poke(d, Cell(a), v))
           = [x \in Word |-> IF x \in MirrorAlias[a] THEN v ELSE BusOf(d)[x]]
<1> DEFINE stored == Poke(d, Cell(a), v)
<1> SUFFICES ASSUME NEW x \in Word
             PROVE  nes_mem_r8(cartridge, stored, x, 0).result
                      = IF x \in MirrorAlias[a] THEN v
                        ELSE nes_mem_r8(cartridge, d, x, 0).result
  BY DEF BusOf
<1>1. x \in MirrorAlias[a] <=> (x < CARTRIDGE_BEGIN /\ Cell(x) = Cell(a))
  BY AliasIsCell
<1>2. Peek(stored, Cell(x)) = IF Cell(x) = Cell(a) THEN v ELSE Peek(d, Cell(x))
  BY PeekPoke
<1>3. x < CARTRIDGE_BEGIN <=> ~ (x >= CARTRIDGE_BEGIN)
  BY WordIsNat
<1> HIDE DEF stored
<1> QED
  BY <1>1, <1>2, <1>3 DEF nes_mem_r8

(* An initialised memory is an initial address space.                      *)
LEMMA InitRefines == Init => Abstract!Init
<1> SUFFICES ASSUME Init PROVE Abstract!Init
  OBVIOUS
<1>1. IsData(data) /\ IsNrom(cartridge)
  BY InitIInv DEF IInv, TypeOK
<1>2. Bus \in [Word -> Byte]
  <2>1. ASSUME NEW a \in Word
        PROVE  nes_mem_r8(cartridge, data, a, 0).result \in Byte
    BY <1>1, Read8Type, ByteAssumption DEF Byte
  <2> QED
    BY <2>1 DEF Bus
<1>3. ASSUME NEW a \in Word, a \notin CartridgeAddresses
      PROVE  Bus[a] = 0
  <2>1. ~ (a >= CARTRIDGE_BEGIN)
    BY <1>3 DEF CartridgeAddresses
  <2> QED
    BY <2>1, ZeroArrayType DEF Init, nes_mem_init, Bus, nes_mem_r8
<1>4. \A a \in Word : a \in MirrorAlias[a]
  BY DEF MirrorAlias
<1> QED
  BY <1>2, <1>3, <1>4, SameWords, Refusals DEF Init, Abstract!Init

(* A byte write is a store to the aliases of its address, or refused.      *)
LEMMA Write8Refines ==
  ASSUME NEW a \in Word, NEW v \in Values, Write(nes_mem_w8(data, a, v))
  PROVE  Abstract!Write8(a, v)
<1>1. Bus' = BusOf(data')
  BY DEF Write, Bus, BusOf
<1>2. CASE a \in CartridgeAddresses
  BY <1>1, <1>2, BusOfData, Refusals
     DEF Write, nes_mem_w8, CartridgeAddresses, Abstract!Write8,
         Abstract!RefuseWrite
<1>3. CASE a \notin CartridgeAddresses
  <2>1. a < CARTRIDGE_BEGIN /\ ~ (a >= CARTRIDGE_BEGIN)
    BY <1>3, WordIsNat DEF CartridgeAddresses
  <2>2. data' = Poke(data, Cell(a), v) /\ ret' = "SUCCESS" /\ result' = result
    BY <2>1 DEF Write, nes_mem_w8
  <2>3. Bus' = Abstract!Store(a, v)
    BY <1>1, <2>1, <2>2, StoreBus, BusOfData, SameWords DEF Abstract!Store
  <2> QED
    BY <1>3, <2>2, <2>3, Refusals DEF Abstract!Write8, Abstract!AcceptWrite
<1> QED
  BY <1>2, <1>3

(* A word write is two byte writes, of which the second may be refused.    *)
LEMMA Write16Refines ==
  ASSUME NEW a \in Word, NEW msb \in Values, NEW lsb \in Values,
         Write(nes_mem_w16(data, a, U16(msb, lsb)))
  PROVE  Abstract!Write16(a, msb, lsb)
<1> DEFINE b    == Inc16(a)
           low  == nes_mem_w8(data, a, lsb)
           high == nes_mem_w8(low.data, b, msb)
<1>1. Msb(U16(msb, lsb)) = msb /\ Lsb(U16(msb, lsb)) = lsb /\ b \in Word
  BY HalvesOfU16, Inc16Type, ClientAssumption
<1>2. Bus' = BusOf(data') /\ result' = result
  BY DEF Write, Bus, BusOf
<1>3. /\ data' = IF low.err # "SUCCESS" THEN low.data ELSE high.data
      /\ ret'  = IF low.err # "SUCCESS" THEN low.err ELSE high.err
  BY <1>1 DEF Write, nes_mem_w16
<1>4. CASE a \in CartridgeAddresses
  <2>1. data' = data /\ ret' = "CARTRIDGE_PRGROM_READ_ONLY"
    BY <1>3, <1>4 DEF CartridgeAddresses, nes_mem_w8
  <2> QED
    BY <1>2, <1>4, <2>1, BusOfData, Refusals
       DEF Abstract!Write16, Abstract!RefuseWrite
<1>5. CASE a \notin CartridgeAddresses
  <2>1. a < CARTRIDGE_BEGIN /\ ~ (a >= CARTRIDGE_BEGIN)
    BY <1>5, WordIsNat DEF CartridgeAddresses
  <2>2. low = [err |-> "SUCCESS", data |-> Poke(data, Cell(a), lsb)]
    BY <2>1 DEF nes_mem_w8
  <2>3. BusOf(low.data) = Abstract!Store(a, lsb)
    BY <2>1, <2>2, StoreBus, BusOfData, SameWords DEF Abstract!Store
  <2>4. CASE b \in CartridgeAddresses
    <3>1. high.data = low.data /\ high.err = "CARTRIDGE_PRGROM_READ_ONLY"
      BY <2>4 DEF CartridgeAddresses, nes_mem_w8
    <3>2. Bus' = Abstract!Store(a, lsb) /\ ret' = "CARTRIDGE_PRGROM_READ_ONLY"
      BY <1>2, <1>3, <2>2, <2>3, <3>1
    <3> QED
      BY <1>2, <1>5, <2>4, <3>2, SameWords, Refusals
         DEF Abstract!Write16, Abstract!RefuseWrite
  <2>5. CASE b \notin CartridgeAddresses
    <3> HIDE DEF b
    <3>1. b < CARTRIDGE_BEGIN /\ ~ (b >= CARTRIDGE_BEGIN)
      BY <1>1, <2>5, WordIsNat DEF CartridgeAddresses
    <3>2. high = [err |-> "SUCCESS", data |-> Poke(low.data, Cell(b), msb)]
      BY <3>1 DEF nes_mem_w8
    <3>3. BusOf(high.data)
            = [x \in Word |-> IF x \in MirrorAlias[b] THEN msb
                              ELSE BusOf(low.data)[x]]
      BY <1>1, <3>1, <3>2, StoreBus
    <3>4. Bus' = [x \in Word |-> IF x \in MirrorAlias[b] THEN msb
                                 ELSE Abstract!Store(a, lsb)[x]]
      BY <1>2, <1>3, <2>2, <2>3, <3>2, <3>3
    <3>5. {a, b} \cap CartridgeAddresses = {} /\ ret' = "SUCCESS"
      BY <1>3, <1>5, <2>2, <2>5, <3>2
    <3> QED
      BY <1>2, <3>4, <3>5, SameWords, Refusals
         DEF b, Abstract!Write16, Abstract!AcceptWrite
  <2> QED
    BY <2>4, <2>5
<1> QED
  BY <1>4, <1>5

(* What a byte read answers is what the bus has at its address.            *)
LEMMA ReadBus ==
  ASSUME NEW r, Read(r)
  PROVE  /\ Bus' = Bus
         /\ ret' = r.err
         /\ result' = r.result
BY DEF Read, Bus

(* A single read answers with the byte of the bus, or does not answer.     *)
LEMMA AnswerOfBus ==
  ASSUME NEW a \in Word, NEW old
  PROVE  nes_mem_r8(cartridge, data, a, old)
           = IF a \in UnmappedAddresses
               THEN [err |-> "CARTRIDGE_ADDR_NOT_MAPPED", result |-> old]
               ELSE [err |-> "SUCCESS", result |-> Bus[a]]
<1>1. a \in UnmappedAddresses <=> a >= CARTRIDGE_BEGIN /\ a < ROM_BEGIN
  BY DEF UnmappedAddresses, CartridgeAddresses
<1>2. Bus[a] = nes_mem_r8(cartridge, data, a, 0).result
  BY DEF Bus
<1> QED
  BY <1>1, <1>2 DEF nes_mem_r8, nes_ines_nrom_prg_reader

(* A byte read gives the byte of the bus, or its code.                     *)
LEMMA Read8Refines ==
  ASSUME NEW a \in Word, Read(nes_mem_r8(cartridge, data, a, result))
  PROVE  Abstract!Read8(a)
<1>1. CASE a \in UnmappedAddresses
  BY <1>1, ReadBus, AnswerOfBus, Refusals
     DEF Abstract!Read8, Abstract!RefuseRead
<1>2. CASE a \notin UnmappedAddresses
  BY <1>2, ReadBus, AnswerOfBus, Refusals
     DEF Abstract!Read8, Abstract!AnswerRead
<1> QED
  BY <1>1, <1>2

(* A word read gives two bytes of the bus, or the first code.              *)
LEMMA Read16Refines ==
  ASSUME NEW a \in Word, Read(nes_mem_r16(cartridge, data, a, result))
  PROVE  Abstract!Read16(a)
<1> DEFINE b == Inc16(a)
           answer == IF {a, b} \cap UnmappedAddresses # {}
                       THEN [err |-> "CARTRIDGE_ADDR_NOT_MAPPED",
                             result |-> result]
                       ELSE [err |-> "SUCCESS",
                             result |-> U16(Bus[b], Bus[a])]
<1>1. b \in Word
  BY Inc16Type
<1>2. nes_mem_r16(cartridge, data, a, result) = answer
  BY <1>1, AnswerOfBus DEF nes_mem_r16
<1>3. Bus' = Bus /\ ret' = answer.err /\ result' = answer.result
  BY <1>2, ReadBus
<1>4. CASE {a, b} \cap UnmappedAddresses # {}
  BY <1>3, <1>4, SameWords, Refusals
     DEF Abstract!Read16, Abstract!RefuseRead
<1>5. CASE {a, b} \cap UnmappedAddresses = {}
  BY <1>3, <1>5, SameWords, Refusals
     DEF Abstract!Read16, Abstract!AnswerRead
<1> QED
  BY <1>4, <1>5

(* Every step of main memory is one of the address space, or a stutter.    *)
LEMMA NextRefines == [Next]_vars => [Abstract!Next]_(Abstract!vars)
<1> SUFFICES ASSUME [Next]_vars PROVE [Abstract!Next]_(Abstract!vars)
  OBVIOUS
<1>1. Addresses \subseteq Word /\ Word = Abstract!Word
  BY ClientAssumption, SameWords
<1>2. ASSUME NEW a \in Addresses, NEW v \in Values,
             Write(nes_mem_w8(data, a, v))
      PROVE  Abstract!Next
  BY <1>1, <1>2, Write8Refines DEF Abstract!Next
<1>3. ASSUME NEW a \in Addresses, NEW msb \in Values, NEW lsb \in Values,
             Write(nes_mem_w16(data, a, U16(msb, lsb)))
      PROVE  Abstract!Next
  BY <1>1, <1>3, Write16Refines DEF Abstract!Next
<1>4. ASSUME NEW a \in Addresses,
             Read(nes_mem_r8(cartridge, data, a, result))
      PROVE  Abstract!Next
  BY <1>1, <1>4, Read8Refines DEF Abstract!Next
<1>5. ASSUME NEW a \in Addresses,
             Read(nes_mem_r16(cartridge, data, a, result))
      PROVE  Abstract!Next
  BY <1>1, <1>5, Read16Refines DEF Abstract!Next
<1>6. CASE UNCHANGED vars
  BY <1>6, Refusals DEF vars, Abstract!vars, Bus
<1> QED
  BY <1>2, <1>3, <1>4, <1>5, <1>6 DEF Next

(* Main memory is the address space of AddressSpace.tla: a write is read   *)
(* back at every mirror of its address and nowhere else, a failed call     *)
(* changes at most the low byte of a word, and a read changes nothing.     *)
THEOREM AddressSpaceImplemented == Spec => ImplementsAddressSpace
BY InitRefines, NextRefines, PTL
   DEF Spec, ImplementsAddressSpace, Abstract!Spec
=============================================================================

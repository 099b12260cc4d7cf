---------------------------- MODULE VideoRefinement ----------------------------
(***************************************************************************)
(* Video memory implements the address space of AddressSpace.tla, wired by *)
(* the mirroring of the inserted cartridge.                                *)
(***************************************************************************)
EXTENDS VideoClient

Bus == [a \in Word |-> nes_vram_r8(vram, cartridge, a, 0).result]

Nametables == PATTERN_TABLE_ADDR .. (PALETTE_ADDR - 1)
Palettes   == PALETTE_ADDR .. (VRAM_ADDR_SIZE - 1)

(* Vertical mirroring repeats the two nametables; horizontal mirroring     *)
(* repeats one below SecondHalf and the other from there on.               *)
SameNametableCell ==
  [mapper \in Mappers |-> {p \in Nametables \X Nametables :
     CASE mapper = "vertical" ->
            p[1] % (2 * NAMETABLE_SIZE) = p[2] % (2 * NAMETABLE_SIZE)
       [] mapper = "horizontal" ->
            /\ p[1] % NAMETABLE_SIZE = p[2] % NAMETABLE_SIZE
            /\ (p[1] < SecondHalf) <=> (p[2] < SecondHalf)}]

(* The mirrors of each address, with either mirroring function. *)
Wiring ==
  [mapper \in Mappers |-> [a \in Word |-> {b \in Word :
     \/ a = b
     \/ <<a, b>> \in SameNametableCell[mapper]
     \/ /\ a \in Palettes /\ b \in Palettes
        /\ (a - PALETTE_ADDR) % PALETTE_RAM_SIZE
             = (b - PALETTE_ADDR) % PALETTE_RAM_SIZE}]]

VideoAlias == Wiring[cartridge.chr_mapper_fn]

OutOfRange == {a \in Word : a >= VRAM_ADDR_SIZE}
ChrAddresses == {a \in Word : a < PATTERN_TABLE_ADDR}
UnmappedChr == {a \in ChrAddresses : a >= NROM_CHRROM_SIZE}

ReadErrors ==
  [a \in OutOfRange \cup UnmappedChr |->
     IF a \in OutOfRange THEN "MEMORY_INVALILD_ADDR"
     ELSE "CARTRIDGE_ADDR_NOT_MAPPED"]

WriteErrors ==
  [a \in OutOfRange \cup ChrAddresses |->
     IF a \in OutOfRange THEN "MEMORY_INVALILD_ADDR"
     ELSE "CARTRIDGE_CHRROM_READ_ONLY"]

Abstract == INSTANCE AddressSpace
  WITH bus        <- Bus,
       wiring     <- VideoAlias,
       ReadError  <- ReadErrors,
       WriteError <- WriteErrors

(* The mirroring function, CIRAM's modulo and the two modulos of the       *)
(* palettes are together the quotient of the address space by the wiring   *)
(* of the cartridge, the same for reads and writes: a write is read back   *)
(* at every mirror and disturbs nothing else, also where a word crosses    *)
(* from one memory to the next.                                            *)
ImplementsAddressSpace == Abstract!Spec
=============================================================================

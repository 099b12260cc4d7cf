------------------------------- MODULE Mirroring -------------------------------
(***************************************************************************)
(* The two nametable mirroring functions of mirroring.c.  `err' is the     *)
(* return code, DELEGATE_RWOP for an address of the pattern tables, and    *)
(* `mapped' what is stored behind the pointer.                             *)
(***************************************************************************)
EXTENDS Words

CONSTANTS
  PATTERN_TABLE_ADDR,   \* End of the pattern tables, 0x2000.
  NAMETABLE_SIZE        \* Addresses of a nametable, 0x400.

ASSUME MirroringAssumption ==
  /\ PATTERN_TABLE_ADDR \in Nat
  /\ NAMETABLE_SIZE \in Nat \ {0}

(* The nametables A and B, and the end of the addresses of the first two.  *)
NametableA == PATTERN_TABLE_ADDR
NametableB == PATTERN_TABLE_ADDR + NAMETABLE_SIZE
SecondHalf == PATTERN_TABLE_ADDR + 2 * NAMETABLE_SIZE

Delegated(addr) == [err |-> "DELEGATE_RWOP", mapped |-> addr]
MappedTo(addr)  == [err |-> "SUCCESS", mapped |-> addr]

(* A, A, B, B. *)
nes_cartridge_mapper_horizontal(addr) ==
  IF addr < PATTERN_TABLE_ADDR THEN Delegated(addr)
  ELSE MappedTo((addr % NAMETABLE_SIZE)
                + (IF addr < SecondHalf THEN NametableA ELSE NametableB))

(* Mutant of nes_cartridge_mapper_vertical: the addresses from SecondHalf  *)
(* on are folded by the size of one nametable.                             *)
nes_cartridge_mapper_vertical_folded(addr) ==
  IF addr < PATTERN_TABLE_ADDR THEN Delegated(addr)
  ELSE MappedTo(IF addr < SecondHalf THEN addr
                ELSE (addr % NAMETABLE_SIZE) + NametableA)

(* A, B, A, B. *)
nes_cartridge_mapper_vertical(addr) ==
  IF addr < PATTERN_TABLE_ADDR THEN Delegated(addr)
  ELSE MappedTo(IF addr < SecondHalf THEN addr
                ELSE (addr % SecondHalf) + NametableA)
=============================================================================

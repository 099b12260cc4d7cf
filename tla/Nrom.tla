--------------------------------- MODULE Nrom ---------------------------------
(***************************************************************************)
(* An NROM (mapper 0) cartridge: 16 or 32 KiB of PRG ROM seen by the CPU   *)
(* at ROM_BEGIN, nothing below, no writer; one bank of CHR ROM seen by the *)
(* PPU from address 0, no writer.                                          *)
(*                                                                         *)
(* A C function that can fail is an operator that returns a record: `err'  *)
(* is its return code (the names of nesemu_return_t without their prefix)  *)
(* and the other fields are what it leaves behind its pointers.  `old' is  *)
(* what an out-parameter held before the call: it is still there when the  *)
(* callee returns before the assignment.                                   *)
(***************************************************************************)
EXTENDS Words

CONSTANTS
  ROM_BEGIN,          \* First address of PRG ROM, 0x8000.
  PRGROM_BANK_SIZE,   \* Size of a PRG bank, 0x4000.
  CHRROM_BANK_SIZE    \* Size of a CHR bank, 0x2000.

NROM_PRGROM_SIZE == 2 * PRGROM_BANK_SIZE
NROM_CHRROM_SIZE == CHRROM_BANK_SIZE

ASSUME NromAssumption ==
  /\ ROM_BEGIN \in Nat
  /\ PRGROM_BANK_SIZE \in Nat \ {0}
  /\ CHRROM_BANK_SIZE \in Nat \ {0}

(* struct nes_ines_nrom_cartridge. *)
IsNrom(cartridge) ==
  /\ IsArray(cartridge.prgrom, 0 .. (NROM_PRGROM_SIZE - 1))
  /\ cartridge.mirrored_bank \in BOOLEAN
  /\ IsArray(cartridge.chrrom, 0 .. (NROM_CHRROM_SIZE - 1))

(* The structure after memset(.., 0, ..). *)
EmptyNrom == [prgrom |-> ZeroArray, mirrored_bank |-> FALSE, chrrom |-> ZeroArray]

(* memcpy of the first `len' bytes over the start of an array; `bytes'     *)
(* maps offsets to the nonzero bytes of the file.                          *)
Copied(array, bytes, len) ==
  LET copied == {c \in DOMAIN bytes : c < len}
      kept   == {c \in DOMAIN array : c >= len}
  IN  [c \in copied \cup kept |-> IF c < len THEN bytes[c] ELSE array[c]]

(* Mutant of nes_ines_nrom_prg_loader: half of prgrom is taken for all. *)
nes_ines_nrom_prg_loader_off_by_one(cartridge, bytes, len) ==
  IF len > NROM_PRGROM_SIZE
    THEN [err |-> "CARTRIDGE_TOO_LARGE", cartridge |-> cartridge]
    ELSE [err |-> "SUCCESS",
          cartridge |->
            [cartridge EXCEPT !.prgrom = Copied(@, bytes, len),
                              !.mirrored_bank = len < NROM_PRGROM_SIZE \div 2]]

(* The bank is mirrored when at most half of prgrom is filled. *)
nes_ines_nrom_prg_loader(cartridge, bytes, len) ==
  IF len > NROM_PRGROM_SIZE
    THEN [err |-> "CARTRIDGE_TOO_LARGE", cartridge |-> cartridge]
    ELSE [err |-> "SUCCESS",
          cartridge |->
            [cartridge EXCEPT !.prgrom = Copied(@, bytes, len),
                              !.mirrored_bank = len <= NROM_PRGROM_SIZE \div 2]]

nes_ines_nrom_chr_loader(cartridge, bytes, len) ==
  IF len > NROM_CHRROM_SIZE
    THEN [err |-> "CARTRIDGE_TOO_LARGE", cartridge |-> cartridge]
    ELSE [err |-> "SUCCESS",
          cartridge |-> [cartridge EXCEPT !.chrrom = Copied(@, bytes, len)]]

(* The cartridge a PRG image makes of an empty structure. *)
Loaded(bytes, len) ==
  nes_ines_nrom_prg_loader(EmptyNrom, bytes, len).cartridge

nes_ines_nrom_prg_reader(cartridge, addr, old) ==
  IF addr < ROM_BEGIN
    THEN [err |-> "CARTRIDGE_ADDR_NOT_MAPPED", result |-> old]
    ELSE [err    |-> "SUCCESS",
          result |-> Peek(cartridge.prgrom,
                          IF cartridge.mirrored_bank
                            THEN addr % PRGROM_BANK_SIZE
                            ELSE addr % NROM_PRGROM_SIZE)]

nes_ines_nrom_chr_reader(cartridge, addr, old) ==
  IF addr >= NROM_CHRROM_SIZE
    THEN [err |-> "CARTRIDGE_ADDR_NOT_MAPPED", result |-> old]
    ELSE [err |-> "SUCCESS", result |-> Peek(cartridge.chrrom, addr)]
=============================================================================

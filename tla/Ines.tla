--------------------------------- MODULE Ines ---------------------------------
(***************************************************************************)
(* struct nes_cartridge and its constructor, nes_cartridge_read_ines.  The *)
(* only callback that differs between cartridges is the mirroring          *)
(* function, `chr_mapper_fn'; the others are set together with it, so that *)
(* NULL there stands for NULL everywhere.                                  *)
(*                                                                         *)
(* A file is its length, its header and its data: `magic' tells whether it *)
(* starts with NES^Z, `prgrom' and `chrrom' are its sizes in banks,        *)
(* `arrangement' bit 0 of flags 6, `mapper' the mapper number, `bytes' the *)
(* nonzero bytes after the header.  The other flags are not read.          *)
(***************************************************************************)
EXTENDS Nrom

CONSTANT INES_HEADER_SIZE   \* 16

ASSUME InesAssumption == INES_HEADER_SIZE \in Nat

(* A file of any length: only its fields are assumed to be numbers. *)
IsFile(file) ==
  /\ {file.len, file.prgrom, file.chrrom, file.mapper} \subseteq Nat
  /\ file.magic \in BOOLEAN
  /\ file.arrangement \in {0, 1}
  /\ IsArray(file.bytes, Nat)

Mappers == {"vertical", "horizontal"}

IsCartridge(cartridge) ==
  /\ IsNrom(cartridge)
  /\ cartridge.chr_mapper_fn \in Mappers \cup {"NULL"}
  /\ cartridge.type \in Nat

(* The structure after memset(.., 0, ..). *)
EmptyCartridge ==
  [prgrom |-> ZeroArray, mirrored_bank |-> FALSE, chrrom |-> ZeroArray,
   chr_mapper_fn |-> "NULL", type |-> 0]

prgrom_len(file) == file.prgrom * PRGROM_BANK_SIZE
chrrom_len(file) == file.chrrom * CHRROM_BANK_SIZE

(* The data after the first `offset' bytes. *)
DataFrom(file, offset) ==
  [c \in {b - offset : b \in {b \in DOMAIN file.bytes : b >= offset}} |->
     file.bytes[c + offset]]

(* The mirroring function a file asks for. *)
chr_mapper_of(file) ==
  IF file.arrangement = 0 THEN "vertical" ELSE "horizontal"

Failed(code, cartridge) == [err |-> code, cartridge |-> cartridge]

(* Mutant of LoadChr: the length of the file is not checked. *)
LoadChrUnchecked(cartridge, file) ==
  nes_ines_nrom_chr_loader(
    cartridge, DataFrom(file, prgrom_len(file)), chrrom_len(file))

(* Mutant of LoadChr: the CHR data is taken from the start of the data. *)
LoadChrAtStart(cartridge, file) ==
  IF file.len - INES_HEADER_SIZE - prgrom_len(file) < chrrom_len(file)
    THEN Failed("CARTRIDGE_EMPTY", cartridge)
    ELSE nes_ines_nrom_chr_loader(cartridge, file.bytes, chrrom_len(file))

(* The CHR data of a file whose PRG data is in `cartridge'. *)
LoadChr(cartridge, file) ==
  IF file.len - INES_HEADER_SIZE - prgrom_len(file) < chrrom_len(file)
    THEN Failed("CARTRIDGE_EMPTY", cartridge)
    ELSE nes_ines_nrom_chr_loader(
           cartridge, DataFrom(file, prgrom_len(file)), chrrom_len(file))

(* The data of a file whose header is valid. *)
LoadData(cartridge, file) ==
  LET prg == nes_ines_nrom_prg_loader(cartridge, file.bytes, prgrom_len(file))
  IN  IF prg.err # "SUCCESS" THEN prg ELSE LoadChr(prg.cartridge, file)

(* The checks in their order; each leaves behind what was done before it.  *)
nes_cartridge_read_ines(cartridge, file) ==
  IF file.len < INES_HEADER_SIZE
    THEN Failed("CARTRIDGE_BAD_INES_FORMAT", cartridge)
  ELSE IF ~ file.magic
    THEN Failed("CARTRIDGE_BAD_INES_FORMAT", EmptyCartridge)
  ELSE IF file.len - INES_HEADER_SIZE < prgrom_len(file)
    THEN Failed("CARTRIDGE_EMPTY", EmptyCartridge)
  ELSE IF file.mapper # 0
    THEN Failed("CARTRIDGE_UNSUPPORTED_MAPPER",
                [EmptyCartridge EXCEPT !.type = file.mapper])
  ELSE LoadData([EmptyCartridge EXCEPT !.chr_mapper_fn = chr_mapper_of(file)],
                file)
=============================================================================

--------------------------- MODULE MCMemoryClient ---------------------------
(***************************************************************************)
(* A map of 16 addresses with every kind of address of the real one, in    *)
(* the same order: two RAM bytes, a whole and half a mirror of them, a     *)
(* byte past the mirrors (the code's 0x1800-0x1FFF), two PPU registers and *)
(* their mirrors, an I/O register, an unmapped part of the cartridge and   *)
(* its ROM.                                                                *)
(***************************************************************************)
EXTENDS MemoryRefinement

MCAddresses == 0 .. 15

(* One bank (mirrored) and two banks. *)
MCCartridges ==
  {Loaded([i \in 0 .. 1 |-> i + 2], 2),
   Loaded([i \in 1 .. 3 |-> i], 4)}
=============================================================================

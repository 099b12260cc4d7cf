-------------------------------- MODULE MCVideo --------------------------------
(***************************************************************************)
(* A map of 16 addresses in the order of the real one: one pattern of 2    *)
(* bytes, four nametables of 2 bytes and the first of their mirrors, one   *)
(* palette of 2 bytes and a mirror of it, an address past the end.         *)
(* The cartridges are loaded from files of one bank of each kind.          *)
(***************************************************************************)
EXTENDS VideoRefinement

File(arrangement) ==
  [len |-> INES_HEADER_SIZE + 4, magic |-> TRUE, prgrom |-> 1, chrrom |-> 1,
   arrangement |-> arrangement, mapper |-> 0, bytes |-> [b \in {0, 3} |-> 3]]

(* Both sides of every border, and the wrap-around of the last address. *)
MCAddresses == {0, 1, 2, 3, 5, 6} \cup 9 .. 15

MCCartridges ==
  {nes_cartridge_read_ines(EmptyCartridge, File(bit)).cartridge : bit \in {0, 1}}
=============================================================================

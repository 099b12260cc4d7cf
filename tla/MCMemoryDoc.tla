---------------------------- MODULE MCMemoryDoc ----------------------------
(* The real map, with one address in each row of main.h's mirroring table. *)
EXTENDS MemoryClient

MCAddresses == {0, \h0800, \h1000, \h1800}
MCCartridges == {Loaded(ZeroArray, 0)}
=============================================================================

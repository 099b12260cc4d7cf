--------------------------------- MODULE MCPpu ---------------------------------
(***************************************************************************)
(* The frame of the code, line by line.  Video memory is what a host would *)
(* leave there with nes_vram_w8: both nametables with tiles out of four    *)
(* and with different attributes, 32 different palette bytes.              *)
(* The pattern tables have different rows for each of the four tiles.      *)
(***************************************************************************)
EXTENDS PpuClient

Tiles == <<\h00, \h35, \hA7, \hFF>>

PatternAddrs ==
  {table + 16 * Tiles[t] + row :
     table \in {0, \h1000}, t \in 1 .. 4, row \in 0 .. 15}

File(magic, arrangement) ==
  [len |-> INES_HEADER_SIZE + PRGROM_BANK_SIZE + CHRROM_BANK_SIZE,
   magic |-> magic, prgrom |-> 1, chrrom |-> 1, arrangement |-> arrangement,
   mapper |-> 0,
   bytes |-> [b \in {PRGROM_BANK_SIZE + a : a \in PatternAddrs} |->
                1 + ((37 * b + b \div 64) % 255)]]

MCFiles == {File(TRUE, 0), File(TRUE, 1), File(FALSE, 0)}

(* The byte written at a cell of ciram: a tile, or attributes. *)
Painted(cell) ==
  IF cell % \h400 < \h3C0
    THEN Tiles[1 + ((cell + cell \div 32 + cell \div \h400) % 4)]
    ELSE (73 * cell + cell \div \h400) % 256

Filled ==
  [ciram       |-> [cell \in {c \in 0 .. (CIRAM_SIZE - 1) : Painted(c) # 0} |->
                      Painted(cell)],
   palette_ram |-> [cell \in 1 .. (PALETTE_RAM_SIZE - 1) |-> cell]]

MCVrams == {Filled}
MCControlAddrs == {\h2000, \h3FF8}
MCControls == {\h00, \h01, \h12, \hEF}
=============================================================================

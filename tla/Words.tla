-------------------------------- MODULE Words --------------------------------
(***************************************************************************)
(* The unsigned integers of the emulator (uint8_t, uint16_t) and the       *)
(* sparse byte arrays its memories are.  The width is a parameter: BYTE is *)
(* the number of values of a uint8_t, 256 in the code; the proofs hold for *)
(* every BYTE and TLC also checks the memories with narrower bytes.        *)
(***************************************************************************)
EXTENDS Integers, FiniteSets

CONSTANT BYTE   \* Number of values of a uint8_t.

ASSUME ByteAssumption == BYTE \in Nat /\ BYTE >= 4

WORD == BYTE * BYTE
Byte == 0 .. (BYTE - 1)
Word == 0 .. (WORD - 1)

(* (uint16_t) and (uint8_t) truncation of a sum of two words. *)
Wrap16(n) == n % WORD
Wrap8(n)  == n % BYTE

(* x += 1 and x -= 1 on a uint8_t. *)
Inc8(x) == IF x = BYTE - 1 THEN 0 ELSE x + 1
Dec8(x) == IF x = 0 THEN BYTE - 1 ELSE x - 1

(* addr + 1 on a uint16_t. *)
Inc16(x) == IF x = WORD - 1 THEN 0 ELSE x + 1

(* The two halves of a uint16_t, and NESEMU_UTIL_U16. *)
Msb(w) == w \div BYTE
Lsb(w) == w % BYTE
U16(msb, lsb) == msb * BYTE + lsb

(***************************************************************************)
(* A zero-initialised array of bytes, of which only the nonzero cells are  *)
(* kept: the array of a C structure after memset(.., 0, ..).               *)
(***************************************************************************)
ZeroArray == [cell \in {} |-> 0]

Peek(array, cell) == IF cell \in DOMAIN array THEN array[cell] ELSE 0

Poke(array, cell, value) ==
  [c \in IF value = 0 THEN DOMAIN array \ {cell} ELSE DOMAIN array \cup {cell}
     |-> IF c = cell THEN value ELSE array[c]]

(* An array of bytes indexed by a subset of `cells'. *)
IsArray(array, cells) ==
  /\ DOMAIN array \subseteq cells
  /\ array \in [DOMAIN array -> Byte \ {0}]
=============================================================================

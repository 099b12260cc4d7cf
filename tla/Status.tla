-------------------------------- MODULE Status --------------------------------
(***************************************************************************)
(* Bytes as sets of bits, for the CPU's status register (the set of its    *)
(* flags that are set) and for its logical instructions.                   *)
(***************************************************************************)
EXTENDS Words

ASSUME EightBitAssumption == BYTE = 256

Bit == 0 .. 7
Weight == [b \in Bit |-> 2 ^ b]

BitsOf == [v \in Byte |-> {b \in Bit : (v \div Weight[b]) % 2 = 1}]

ByteOf ==
  [bits \in SUBSET Bit |->
     LET term(b) == IF b \in bits THEN Weight[b] ELSE 0
     IN  term(0) + term(1) + term(2) + term(3)
           + term(4) + term(5) + term(6) + term(7)]

(* The flags of enum nes_cpu_status, by the bit of their mask. *)
FLAGS_C == 0
FLAGS_Z == 1
FLAGS_I == 2
FLAGS_D == 3
FLAGS_B == 4
FLAGS_V == 6
FLAGS_N == 7

Negative(v) == v >= 128

(* NESEMU_CPU_STATUS_MASK_NZ *)
MASK_NZ(v) ==
  {f \in {FLAGS_N, FLAGS_Z} : IF f = FLAGS_N THEN Negative(v) ELSE v = 0}

(* One flag set or cleared by a condition. *)
Assign(status, flag, condition) ==
  IF condition THEN status \cup {flag} ELSE status \ {flag}

(* The two's complement value of a byte, (int8_t). *)
Signed8(v) == IF Negative(v) THEN v - BYTE ELSE v

And(u, v) == ByteOf[BitsOf[u] \cap BitsOf[v]]
Or(u, v)  == ByteOf[BitsOf[u] \cup BitsOf[v]]
Xor(u, v) == ByteOf[(BitsOf[u] \cup BitsOf[v]) \ (BitsOf[u] \cap BitsOf[v])]
=============================================================================

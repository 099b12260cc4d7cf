------------------------------- MODULE Programs -------------------------------
(***************************************************************************)
(* The PRG data of small programs: 16 KiB with the code at 0xC000, and     *)
(* RESET and IRQ vectors at the end of the bank.                           *)
(***************************************************************************)
EXTENDS Instructions, Sequences, TLC

Start == \hC000

(* The address of an STP. *)
Halt == \hF000

Word16(w) == <<Lsb(w), Msb(w)>>

(* The nonzero bytes of the bank of a program: `bytes' from Start on,      *)
(* which is also the RESET vector, STP at Halt, and an IRQ vector.         *)
Bank(bytes, irq) ==
  LET code    == [offset \in 0 .. (Len(bytes) - 1) |-> bytes[offset + 1]]
      vectors == Word16(Start) \o Word16(irq)
      rest    == [offset \in {\h3000} \cup \h3FFC .. \h3FFF |->
                    IF offset = \h3000 THEN Opcode.STP.IMP
                    ELSE vectors[offset - \h3FFB]]
      rom     == rest @@ code
  IN  [offset \in {o \in DOMAIN rom : rom[o] # 0} |-> rom[offset]]
=============================================================================

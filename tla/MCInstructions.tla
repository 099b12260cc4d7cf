--------------------------- MODULE MCInstructions ---------------------------
(***************************************************************************)
(* Every opcode, 0x00-0xFF, once, after a prologue that loads the          *)
(* registers, the flags and a pointer in zero page: 6 settings of the      *)
(* registers by 6 operands reach RAM, its end, PRG ROM, unmapped cartridge *)
(* space, both ends of the stack, carries, borrows and page crossings.     *)
(***************************************************************************)
EXTENDS MCPrograms

(* Stack pointer, x, y, a; TRUE to set the carry. *)
Settings ==
  {<<\hFD, \h01, \h02, \h00, FALSE>>, <<\h01, \h00, \hFF, \h80, TRUE>>,
   <<\h00, \hFF, \h01, \h7F, FALSE>>, <<\hFF, \h50, \h00, \hFF, TRUE>>,
   <<\hFE, \hC0, \h40, \h01, TRUE>>,  <<\h02, \h3F, \h80, \h81, FALSE>>}

Operands ==
  {<<\h10, \h00>>, <<\hFF, \h01>>, <<\h80, \hFF>>,
   <<\h05, \h50>>, <<\hFF, \h40>>, <<\h7F, \hC0>>}

Prologue(s) ==
  <<Opcode.LDX.IM, s[1], Opcode.TXS.IMP, Opcode.LDX.IM, s[2],
    Opcode.LDY.IM, s[3], Opcode.LDA.IM, s[4],
    Opcode.STA.ZP, \h10, Opcode.STX.ZP, \h11,
    IF s[5] THEN Opcode.SEC.IMP ELSE Opcode.CLC.IMP>>

Prologues == {Prologue(s) : s \in Settings}

InstructionBodies ==
  {[code |-> <<opc, o[1], o[2], Opcode.STP.IMP, Opcode.STP.IMP>>,
    heads |-> Prologues, irq |-> Halt] : opc \in Byte, o \in Operands}

InstructionPrograms == Assembled(Prologues, InstructionBodies)

NoRestart(c) == FALSE
=============================================================================

----------------------------- MODULE Instructions -----------------------------
(***************************************************************************)
(* The instruction set: which opcode is which instruction in which         *)
(* addressing mode (the enum nes_cpu_instruction_set and the switch of     *)
(* nes_cpu_next, which agree), how many bytes each mode fetches, and the   *)
(* cycle table.  Modes: IMP none, ACC accumulator, IM immediate, ZP ZX ZY  *)
(* zero page, AB AX AY absolute, IND indirect, IX (indirect,X), IY         *)
(* (indirect),Y and REL relative.                                          *)
(***************************************************************************)
EXTENDS Words

Opcode == [
  LDA |-> [IM |-> \hA9, ZP |-> \hA5, ZX |-> \hB5, AB |-> \hAD,
           AX |-> \hBD, AY |-> \hB9, IX |-> \hA1, IY |-> \hB1],
  LDX |-> [IM |-> \hA2, ZP |-> \hA6, ZY |-> \hB6, AB |-> \hAE, AY |-> \hBE],
  LDY |-> [IM |-> \hA0, ZP |-> \hA4, ZX |-> \hB4, AB |-> \hAC, AX |-> \hBC],
  STA |-> [ZP |-> \h85, ZX |-> \h95, AB |-> \h8D, AX |-> \h9D,
           AY |-> \h99, IX |-> \h81, IY |-> \h91],
  STX |-> [ZP |-> \h86, ZY |-> \h96, AB |-> \h8E],
  STY |-> [ZP |-> \h84, ZX |-> \h94, AB |-> \h8C],
  TAX |-> [IMP |-> \hAA],  TXA |-> [IMP |-> \h8A],  TAY |-> [IMP |-> \hA8],
  TYA |-> [IMP |-> \h98],  TSX |-> [IMP |-> \hBA],  TXS |-> [IMP |-> \h9A],
  PHA |-> [IMP |-> \h48],  PLA |-> [IMP |-> \h68],
  PHP |-> [IMP |-> \h08],  PLP |-> [IMP |-> \h28],
  AND |-> [IM |-> \h29, ZP |-> \h25, ZX |-> \h35, AB |-> \h2D,
           AX |-> \h3D, AY |-> \h39, IX |-> \h21, IY |-> \h31],
  EOR |-> [IM |-> \h49, ZP |-> \h45, ZX |-> \h55, AB |-> \h4D,
           AX |-> \h5D, AY |-> \h59, IX |-> \h41, IY |-> \h51],
  ORA |-> [IM |-> \h09, ZP |-> \h05, ZX |-> \h15, AB |-> \h0D,
           AX |-> \h1D, AY |-> \h19, IX |-> \h01, IY |-> \h11],
  BIT |-> [ZP |-> \h24, AB |-> \h2C],
  ADC |-> [IM |-> \h69, ZP |-> \h65, ZX |-> \h75, AB |-> \h6D,
           AX |-> \h7D, AY |-> \h79, IX |-> \h61, IY |-> \h71],
  SBC |-> [IM |-> \hE9, ZP |-> \hE5, ZX |-> \hF5, AB |-> \hED,
           AX |-> \hFD, AY |-> \hF9, IX |-> \hE1, IY |-> \hF1],
  CMP |-> [IM |-> \hC9, ZP |-> \hC5, ZX |-> \hD5, AB |-> \hCD,
           AX |-> \hDD, AY |-> \hD9, IX |-> \hC1, IY |-> \hD1],
  CPX |-> [IM |-> \hE0, ZP |-> \hE4, AB |-> \hEC],
  CPY |-> [IM |-> \hC0, ZP |-> \hC4, AB |-> \hCC],
  INC |-> [ZP |-> \hE6, ZX |-> \hF6, AB |-> \hEE, AX |-> \hFE],
  DEC |-> [ZP |-> \hC6, ZX |-> \hD6, AB |-> \hCE, AX |-> \hDE],
  INX |-> [IMP |-> \hE8],  INY |-> [IMP |-> \hC8],
  DEX |-> [IMP |-> \hCA],  DEY |-> [IMP |-> \h88],
  ASL |-> [ACC |-> \h0A, ZP |-> \h06, ZX |-> \h16, AB |-> \h0E, AX |-> \h1E],
  LSR |-> [ACC |-> \h4A, ZP |-> \h46, ZX |-> \h56, AB |-> \h4E, AX |-> \h5E],
  ROL |-> [ACC |-> \h2A, ZP |-> \h26, ZX |-> \h36, AB |-> \h2E, AX |-> \h3E],
  ROR |-> [ACC |-> \h6A, ZP |-> \h66, ZX |-> \h76, AB |-> \h6E, AX |-> \h7E],
  JMP |-> [AB |-> \h4C, IND |-> \h6C],
  JSR |-> [AB |-> \h20],   RTS |-> [IMP |-> \h60],
  BCC |-> [REL |-> \h90],  BCS |-> [REL |-> \hB0],  BEQ |-> [REL |-> \hF0],
  BMI |-> [REL |-> \h30],  BNE |-> [REL |-> \hD0],  BPL |-> [REL |-> \h10],
  BVC |-> [REL |-> \h50],  BVS |-> [REL |-> \h70],
  CLC |-> [IMP |-> \h18],  CLD |-> [IMP |-> \hD8],  CLI |-> [IMP |-> \h58],
  CLV |-> [IMP |-> \hB8],  SEC |-> [IMP |-> \h38],  SED |-> [IMP |-> \hF8],
  SEI |-> [IMP |-> \h78],
  BRK |-> [IM |-> \h00],   NOP |-> [IMP |-> \hEA],  RTI |-> [IMP |-> \h40],
  STP |-> [IMP |-> \hDB]]

Instruction == UNION {{<<name, mode>> : mode \in DOMAIN Opcode[name]} :
                        name \in DOMAIN Opcode}

Unsupported == <<"unsupported", "IMP">>

(* The switch of nes_cpu_next. *)
Decode ==
  [opc \in Byte |->
     IF \E i \in Instruction : Opcode[i[1]][i[2]] = opc
       THEN CHOOSE i \in Instruction : Opcode[i[1]][i[2]] = opc
       ELSE Unsupported]

(* The bytes fetched, the opcode included.  BRK fetches its padding byte.  *)
Length ==
  [mode \in {"IMP", "ACC", "IM", "REL", "ZP", "ZX", "ZY", "IX", "IY",
             "AB", "AX", "AY", "IND"} |->
     CASE mode \in {"IMP", "ACC"} -> 1
       [] mode \in {"AB", "AX", "AY", "IND"} -> 3
       [] OTHER -> 2]

(* The row of each value of the opcode's high digit; 0 where unsupported.  *)
nes_cpu_op_cycles == <<
  <<7, 6, 0, 0, 0, 3, 5, 0, 3, 2, 2, 0, 0, 4, 6, 0>>,
  <<2, 5, 0, 0, 0, 4, 6, 0, 2, 4, 0, 0, 0, 4, 7, 0>>,
  <<6, 6, 0, 0, 3, 3, 5, 0, 4, 2, 2, 0, 4, 4, 6, 0>>,
  <<2, 5, 0, 0, 0, 4, 6, 0, 2, 4, 0, 0, 0, 4, 7, 0>>,
  <<6, 6, 0, 0, 0, 3, 5, 0, 4, 2, 2, 0, 3, 4, 6, 0>>,
  <<2, 5, 0, 0, 0, 4, 6, 0, 2, 4, 0, 0, 0, 4, 7, 0>>,
  <<6, 6, 0, 0, 3, 3, 5, 0, 4, 2, 2, 0, 4, 4, 6, 0>>,
  <<2, 5, 0, 0, 0, 4, 6, 0, 2, 4, 0, 0, 0, 4, 7, 0>>,
  <<0, 6, 0, 0, 3, 3, 5, 0, 3, 2, 0, 0, 4, 4, 6, 0>>,
  <<2, 6, 0, 0, 0, 4, 6, 0, 2, 5, 0, 0, 0, 5, 7, 0>>,
  <<2, 6, 2, 0, 3, 3, 5, 0, 2, 2, 2, 0, 4, 4, 6, 0>>,
  <<2, 5, 0, 0, 0, 4, 6, 0, 2, 4, 0, 0, 0, 4, 7, 0>>,
  <<2, 6, 0, 0, 3, 3, 5, 0, 2, 2, 2, 0, 4, 4, 6, 0>>,
  <<2, 5, 0, 0, 0, 4, 6, 0, 2, 4, 0, 3, 0, 4, 7, 0>>,
  <<2, 6, 0, 0, 3, 3, 5, 0, 2, 2, 2, 0, 4, 4, 6, 0>>,
  <<2, 5, 0, 0, 0, 4, 6, 0, 2, 4, 0, 0, 0, 4, 7, 0>> >>

(* Mutant of BaseCycles: a jump has no entry in the table. *)
BaseCyclesFreeJump(opc) ==
  IF opc = Opcode.JMP.AB THEN 0
  ELSE nes_cpu_op_cycles[(opc \div 16) + 1][(opc % 16) + 1]

BaseCycles(opc) == nes_cpu_op_cycles[(opc \div 16) + 1][(opc % 16) + 1]
=============================================================================

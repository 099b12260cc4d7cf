---------------------------------- MODULE Cpu ----------------------------------
(***************************************************************************)
(* struct nes_cpu and nes_cpu_next: one action per handler.  Every action  *)
(* is a whole call of nes_cpu_next, from the fetch of the opcode to the    *)
(* return; the instruction's bytes are fetched at once, since no handler   *)
(* writes before its last fetch.                                           *)
(***************************************************************************)
EXTENDS Stack, Status, Instructions

CONSTANT Garbage   \* What a fetch from an unmapped address may return.

ASSUME GarbageAssumption == Garbage # {} /\ Garbage \subseteq Byte

VARIABLES
  cpu,         \* The structure: pc, sp, a, x, y, status, stop, brk.
  data,        \* The memory's _data.
  cartridge,   \* The inserted cartridge.
  ret,         \* What the last nes_cpu_next returned.
  cycles       \* What it left in *cycles.

cpuVars == <<cpu, data, cartridge, ret, cycles>>

VECTOR_RESET == WORD - 4        \* 0xFFFC
IRQ_ADDR     == WORD - 2        \* 0xFFFE
RESTART_SP   == 3

Read8(addr, old)  == nes_mem_r8(cartridge, data, addr, old)
Read16(addr, old) == nes_mem_r16(cartridge, data, addr, old)

(* The power-up state: everything zero but these. *)
nes_cpu_init ==
  [pc |-> Read16(VECTOR_RESET, 0).result, sp |-> BYTE - RESTART_SP,
   a |-> 0, x |-> 0, y |-> 0, status |-> {FLAGS_I}, stop |-> FALSE, brk |-> 0]

(* The restart button.  Neither `stop' nor `brk' is cleared. *)
nes_cpu_reset ==
  /\ cpu' = [cpu EXCEPT !.pc = Read16(VECTOR_RESET, cpu.pc).result,
                        !.sp = Wrap8(@ + BYTE - RESTART_SP),
                        !.status = @ \cup {FLAGS_I}]
  /\ UNCHANGED <<data, cartridge, ret, cycles>>

(* The values nes_cpu_fetch may return at an address.  An unmapped one     *)
(* leaves its local variable uninitialised.                                *)
Fetch(addr) ==
  LET r == Read8(addr, 0)
  IN  IF r.err = "SUCCESS" THEN {r.result} ELSE Garbage

(* An instruction in execution: its name, mode, opcode and operand bytes,  *)
(* and the processor after the fetches.                                    *)
FetchedInstructions ==
  LET next(n) == Wrap16(cpu.pc + n)
  IN  {[name |-> Decode[opc][1], mode |-> Decode[opc][2], opc |-> opc,
        b1 |-> b1, b2 |-> b2,
        cpu |-> [cpu EXCEPT !.pc = next(Length[Decode[opc][2]])]] :
          opc \in Fetch(cpu.pc), b1 \in Fetch(next(1)), b2 \in Fetch(next(2))}

(* Mutant of Return: an error leaves the processor running. *)
ReturnRunning(i, err, regs, memory, cost) ==
  /\ cpu' = IF err = "SUCCESS" THEN regs ELSE [regs EXCEPT !.brk = i.opc]
  /\ data' = memory
  /\ ret' = err
  /\ cycles' = cost
  /\ UNCHANGED cartridge

(* The end of nes_cpu_next: an error the dispatch kept stops the processor. *)
Return(i, err, regs, memory, cost) ==
  /\ cpu' = IF err = "SUCCESS" THEN regs
            ELSE [regs EXCEPT !.stop = TRUE, !.brk = i.opc]
  /\ data' = memory
  /\ ret' = err
  /\ cycles' = cost
  /\ UNCHANGED cartridge

Complete(i, regs) == Return(i, "SUCCESS", regs, data, BaseCycles(i.opc))

-----------------------------------------------------------------------------
(* cpu_read_addr.  In mode IY the code adds Y to the pointer, not to the   *)
(* address behind it.                                                      *)
Address(i) ==
  LET absolute == U16(i.b2, i.b1)
  IN  CASE i.mode = "ZP" -> i.b1
        [] i.mode = "ZX" -> Wrap8(i.b1 + i.cpu.x)
        [] i.mode = "ZY" -> Wrap8(i.b1 + i.cpu.y)
        [] i.mode = "AB" -> absolute
        [] i.mode = "AX" -> Wrap16(absolute + i.cpu.x)
        [] i.mode = "AY" -> Wrap16(absolute + i.cpu.y)
        [] i.mode = "IX" -> Read16(Wrap8(i.b1 + i.cpu.x), 0).result
        [] i.mode = "IY" -> Read16(i.b1, 0).result

(* cpu_read_mem.  It never adds the cycle of a page crossing: the address  *)
(* is tested before it is computed.                                        *)
ReadMem(i, old) ==
  IF i.mode = "IM" THEN [err |-> "SUCCESS", result |-> i.b1]
  ELSE Read8(Address(i), old)

(* N and Z are added to the status; nothing here clears them. *)
SetNZ(regs, v) == [regs EXCEPT !.status = @ \cup MASK_NZ(v)]

(* An instruction that computes on an operand it reads; op(regs, m) is the *)
(* processor after it.                                                     *)
Operate(i, op(_, _)) ==
  LET m == ReadMem(i, 0)
  IN  Return(i, m.err,
             IF m.err = "SUCCESS" THEN op(i.cpu, m.result) ELSE i.cpu,
             data, BaseCycles(i.opc))

LoadTarget == [LDA |-> "a", LDX |-> "x", LDY |-> "y"]

Load(i) ==
  /\ i.name \in DOMAIN LoadTarget
  /\ LET load(regs, m) == SetNZ([regs EXCEPT ![LoadTarget[i.name]] = m], m)
     IN  Operate(i, load)

StoreSource == [STA |-> "a", STX |-> "x", STY |-> "y"]

Store(i) ==
  /\ i.name \in DOMAIN StoreSource
  /\ LET w == nes_mem_w8(data, Address(i), i.cpu[StoreSource[i.name]])
     IN  Return(i, w.err, i.cpu, w.data, BaseCycles(i.opc))

(* Source and target of each transfer. *)
TransferRegs == [TAX |-> <<"a", "x">>, TXA |-> <<"x", "a">>, TAY |-> <<"a", "y">>,
                 TYA |-> <<"y", "a">>, TSX |-> <<"sp", "x">>, TXS |-> <<"x", "sp">>]

Transfer(i) ==
  /\ i.name \in DOMAIN TransferRegs
  /\ LET v     == i.cpu[TransferRegs[i.name][1]]
         moved == [i.cpu EXCEPT ![TransferRegs[i.name][2]] = v]
     IN  Complete(i, IF i.name = "TXS" THEN moved ELSE SetNZ(moved, v))

Logical(i) ==
  /\ i.name \in {"AND", "ORA", "EOR"}
  /\ LET result(u, v) == CASE i.name = "AND" -> And(u, v)
                           [] i.name = "ORA" -> Or(u, v)
                           [] i.name = "EOR" -> Xor(u, v)
         logical(regs, m) ==
           SetNZ([regs EXCEPT !.a = result(regs.a, m)], result(regs.a, m))
     IN  Operate(i, logical)

Carry(regs) == IF FLAGS_C \in regs.status THEN 1 ELSE 0

(* Mutant of Adc: the sum is not truncated. *)
AdcWide(regs, m) ==
  LET sum == regs.a + m + Carry(regs)
  IN  [regs EXCEPT !.a = sum,
                   !.status = Assign(@ \cup MASK_NZ(regs.a), FLAGS_C, sum >= BYTE)]

(* N and Z are those of the accumulator before the sum. *)
Adc(regs, m) ==
  LET sum    == regs.a + m + Carry(regs)
      low    == Wrap8(sum)
      carry  == Assign(regs.status \cup MASK_NZ(regs.a), FLAGS_C, sum >= BYTE)
      signed == /\ Negative(low) # Negative(regs.a)
                /\ Negative(low) # Negative(m)
  IN  [regs EXCEPT !.a = low, !.status = Assign(carry, FLAGS_V, signed)]

ADC(i) == i.name = "ADC" /\ Operate(i, Adc)

(* a - m - ~C on int, that is a - m + C + 1: the carry adds to the result, *)
(* and is set by a borrow.                                                 *)
Sbc(regs, m) ==
  LET difference == regs.a - m + Carry(regs) + 1
      low        == Wrap8(difference)
      carry  == Assign(regs.status \cup MASK_NZ(regs.a), FLAGS_C, difference < 0)
      signed == /\ Negative(low) # Negative(regs.a)
                /\ Negative(low) = Negative(m)
  IN  [regs EXCEPT !.a = low, !.status = Assign(carry, FLAGS_V, signed)]

SBC(i) == i.name = "SBC" /\ Operate(i, Sbc)

CompareSource == [CMP |-> "a", CPX |-> "x", CPY |-> "y"]

(* Both arms of the code's conditional set the carry. *)
Compare(i) ==
  /\ i.name \in DOMAIN CompareSource
  /\ LET compare(regs, m) ==
           SetNZ([regs EXCEPT !.status = @ \cup {FLAGS_C}],
                 Wrap8(regs[CompareSource[i.name]] - m))
     IN  Operate(i, compare)

BIT(i) ==
  /\ i.name = "BIT"
  /\ LET bit(regs, m) ==
           [regs EXCEPT !.status =
              @ \cup (BitsOf[m] \cap {FLAGS_N, FLAGS_V})
                \cup (MASK_NZ(And(regs.a, m)) \cap {FLAGS_Z})]
     IN  Operate(i, bit)

-----------------------------------------------------------------------------
Counted == [INX |-> "x", DEX |-> "x", INY |-> "y", DEY |-> "y"]

CountRegister(i) ==
  /\ i.name \in DOMAIN Counted
  /\ LET r == Counted[i.name]
         v == IF i.name \in {"INX", "INY"} THEN Inc8(i.cpu[r]) ELSE Dec8(i.cpu[r])
     IN  Complete(i, SetNZ([i.cpu EXCEPT ![r] = v], v))

(* The byte an instruction of this group makes of a byte: ROL and ROR move *)
(* a constant 1 in, because the code ORs where it should mask.             *)
Modified(name, m) ==
  CASE name = "INC" -> Inc8(m)
    [] name = "DEC" -> Dec8(m)
    [] name = "ASL" -> Wrap8(2 * m)
    [] name = "LSR" -> m \div 2
    [] name = "ROL" -> Wrap8(2 * m) + 1
    [] name = "ROR" -> (m \div 2) + 128

(* The flags after it; INC and DEC leave the carry alone, ROL and ROR copy *)
(* the constant they moved in.                                             *)
ModifiedStatus(name, m, status) ==
  LET nz == status \cup MASK_NZ(Modified(name, m))
  IN  CASE name \in {"INC", "DEC"} -> nz
        [] name = "ASL" -> Assign(nz, FLAGS_C, 7 \in BitsOf[m])
        [] name = "LSR" -> Assign(nz, FLAGS_C, 0 \in BitsOf[m])
        [] name \in {"ROL", "ROR"} -> nz \cup {FLAGS_C}

ShiftNames == {"ASL", "LSR", "ROL", "ROR"}

ShiftAccumulator(i) ==
  /\ i.name \in ShiftNames /\ i.mode = "ACC"
  /\ Complete(i, [i.cpu EXCEPT !.a = Modified(i.name, @),
                               !.status = ModifiedStatus(i.name, i.cpu.a, @)])

(* Mutant of ModifyMemory: the flags follow the read alone. *)
ModifyMemoryFlagged(i) ==
  /\ i.name \in ShiftNames \cup {"INC", "DEC"} /\ i.mode # "ACC"
  /\ LET m == Read8(Address(i), 0)
         w == nes_mem_w8(data, Address(i), Modified(i.name, m.result))
     IN  IF m.err = "SUCCESS"
           THEN Return(i, "SUCCESS",
                       [i.cpu EXCEPT
                          !.status = ModifiedStatus(i.name, m.result, @)],
                       w.data, BaseCycles(i.opc))
           ELSE Complete(i, i.cpu)

(* The dispatch discards the error of a read or a write: these always      *)
(* return SUCCESS, without their flags when the operand is not in RAM.     *)
ModifyMemory(i) ==
  /\ i.name \in ShiftNames \cup {"INC", "DEC"} /\ i.mode # "ACC"
  /\ LET m == Read8(Address(i), 0)
         w == nes_mem_w8(data, Address(i), Modified(i.name, m.result))
     IN  IF m.err = "SUCCESS" /\ w.err = "SUCCESS"
           THEN Return(i, "SUCCESS",
                       [i.cpu EXCEPT
                          !.status = ModifiedStatus(i.name, m.result, @)],
                       w.data, BaseCycles(i.opc))
           ELSE Complete(i, i.cpu)

-----------------------------------------------------------------------------
FlagOf == [CLC |-> FLAGS_C, CLI |-> FLAGS_I, CLD |-> FLAGS_D,
           SEC |-> FLAGS_C, SEI |-> FLAGS_I, SED |-> FLAGS_D, CLV |-> FLAGS_V]

(* CLV sets the flag it is named to clear. *)
ChangeFlag(i) ==
  /\ i.name \in DOMAIN FlagOf
  /\ Complete(i, [i.cpu EXCEPT
       !.status = Assign(@, FlagOf[i.name], i.name \notin {"CLC", "CLI", "CLD"})])

(* The flag each branch tests and whether it branches when it is set. *)
BranchTest == [BCC |-> <<FLAGS_C, FALSE>>, BCS |-> <<FLAGS_C, TRUE>>,
               BNE |-> <<FLAGS_Z, FALSE>>, BEQ |-> <<FLAGS_Z, TRUE>>,
               BPL |-> <<FLAGS_N, FALSE>>, BMI |-> <<FLAGS_N, TRUE>>,
               BVC |-> <<FLAGS_V, FALSE>>, BVS |-> <<FLAGS_V, TRUE>>]

Branch(i) ==
  /\ i.name \in DOMAIN BranchTest
  /\ LET test    == BranchTest[i.name]
         target  == Wrap16(i.cpu.pc + Signed8(i.b1))
         crossed == Msb(target) # Msb(i.cpu.pc)
     IN  IF (test[1] \in i.cpu.status) = test[2]
           THEN Return(i, "SUCCESS", [i.cpu EXCEPT !.pc = target], data,
                       BaseCycles(i.opc) + IF crossed THEN 2 ELSE 1)
           ELSE Complete(i, i.cpu)

JMP(i) ==
  /\ i.name = "JMP" /\ i.mode = "AB"
  /\ Complete(i, [i.cpu EXCEPT !.pc = U16(i.b2, i.b1)])

(* The pointer of an indirect jump, with the page bug the code simulates:  *)
(* the error of the first of its two reads is lost.                        *)
IndirectPointer(ptr) ==
  LET lsb == Read8(ptr, Lsb(ptr))
      msb == Read8(U16(Msb(ptr), 0), 0)
  IN  IF Lsb(ptr) = BYTE - 1
        THEN [err |-> msb.err, result |-> U16(msb.result, lsb.result)]
        ELSE Read16(ptr, 0)

(* The word behind the pointer is itself dereferenced. *)
JMPIndirect(i) ==
  /\ i.name = "JMP" /\ i.mode = "IND"
  /\ LET addr == IndirectPointer(U16(i.b2, i.b1))
     IN  Return(i, addr.err,
                IF addr.err = "SUCCESS"
                  THEN [i.cpu EXCEPT !.pc = Read16(addr.result, 0).result]
                  ELSE i.cpu,
                data, BaseCycles(i.opc))

-----------------------------------------------------------------------------
(* The return address is that of the last byte of JSR; the jump is taken   *)
(* even when the push fails.                                               *)
JSR(i) ==
  /\ i.name = "JSR"
  /\ LET p == nes_stack_push_u16(data, i.cpu.sp, Wrap16(i.cpu.pc - 1))
     IN  Return(i, p.err, [i.cpu EXCEPT !.sp = p.sp, !.pc = U16(i.b2, i.b1)],
                p.data, BaseCycles(i.opc))

(* Mutant of RTS: the pulled address is not incremented. *)
RTSWithoutIncrement(i) ==
  /\ i.name = "RTS"
  /\ LET p == nes_stack_pop_u16(cartridge, data, i.cpu.sp, i.cpu.pc)
     IN  Return(i, p.err, [i.cpu EXCEPT !.sp = p.sp, !.pc = p.result],
                data, BaseCycles(i.opc))

RTS(i) ==
  /\ i.name = "RTS"
  /\ LET p == nes_stack_pop_u16(cartridge, data, i.cpu.sp, i.cpu.pc)
     IN  Return(i, p.err, [i.cpu EXCEPT !.sp = p.sp, !.pc = Inc16(p.result)],
                data, BaseCycles(i.opc))

PHA(i) ==
  /\ i.name = "PHA"
  /\ LET p == nes_stack_push_u8(data, i.cpu.sp, i.cpu.a)
     IN  Return(i, p.err, [i.cpu EXCEPT !.sp = p.sp], p.data, BaseCycles(i.opc))

PLA(i) ==
  /\ i.name = "PLA"
  /\ LET p == nes_stack_pop_u8(cartridge, data, i.cpu.sp, i.cpu.a)
     IN  Return(i, p.err,
                IF p.err = "SUCCESS"
                  THEN SetNZ([i.cpu EXCEPT !.sp = p.sp, !.a = p.result], p.result)
                  ELSE [i.cpu EXCEPT !.sp = p.sp],
                data, BaseCycles(i.opc))

(* Mutant of PulledStatus: B is pulled with the other flags. *)
PulledWithB(status, v) == BitsOf[v]

(* The status byte PHP and BRK push has B set; a pull keeps the live B. *)
PushedStatus(status) == ByteOf[status \cup {FLAGS_B}]
PulledStatus(status, v) == (BitsOf[v] \ {FLAGS_B}) \cup (status \cap {FLAGS_B})

PHP(i) ==
  /\ i.name = "PHP"
  /\ LET p == nes_stack_push_u8(data, i.cpu.sp, PushedStatus(i.cpu.status))
     IN  Return(i, p.err, [i.cpu EXCEPT !.sp = p.sp], p.data, BaseCycles(i.opc))

PLP(i) ==
  /\ i.name = "PLP"
  /\ LET p == nes_stack_pop_u8(cartridge, data, i.cpu.sp, 0)
     IN  Return(i, p.err,
                IF p.err = "SUCCESS"
                  THEN [i.cpu EXCEPT !.sp = p.sp,
                                     !.status = PulledStatus(@, p.result)]
                  ELSE i.cpu,
                data, BaseCycles(i.opc))

(* Two words are pushed, the status in the second; the handler's address   *)
(* is read only when both pushes succeed.                                  *)
BRK(i) ==
  /\ i.name = "BRK"
  /\ LET reason == [i.cpu EXCEPT !.brk = i.b1]
         p1 == nes_stack_push_u16(data, i.cpu.sp, i.cpu.pc)
         p2 == nes_stack_push_u16(p1.data, p1.sp, PushedStatus(i.cpu.status))
         done(err, regs, memory) ==
           Return(i, err, regs, memory, BaseCycles(i.opc))
     IN  \/ /\ p1.err # "SUCCESS"
            /\ done(p1.err, [reason EXCEPT !.sp = p1.sp], p1.data)
         \/ /\ p1.err = "SUCCESS" /\ p2.err # "SUCCESS"
            /\ done(p2.err, [reason EXCEPT !.sp = p2.sp], p2.data)
         \/ /\ p1.err = "SUCCESS" /\ p2.err = "SUCCESS"
            /\ \E lsb \in Fetch(IRQ_ADDR), msb \in Fetch(Inc16(IRQ_ADDR)) :
                 done("SUCCESS",
                      [reason EXCEPT !.sp = p2.sp, !.pc = U16(msb, lsb),
                                     !.status = @ \cup {FLAGS_I}],
                      p2.data)

(* One byte of status and one word are pulled. *)
RTI(i) ==
  /\ i.name = "RTI"
  /\ LET s == nes_stack_pop_u8(cartridge, data, i.cpu.sp, 0)
         p == nes_stack_pop_u16(cartridge, data, s.sp, i.cpu.pc)
     IN  IF s.err = "SUCCESS"
           THEN Return(i, p.err,
                       [i.cpu EXCEPT !.sp = p.sp, !.pc = p.result,
                                     !.status = PulledStatus(@, s.result)],
                       data, BaseCycles(i.opc))
           ELSE Return(i, s.err, i.cpu, data, BaseCycles(i.opc))

NOP(i) == i.name = "NOP" /\ Complete(i, i.cpu)

STP(i) == i.name = "STP" /\ Complete(i, [i.cpu EXCEPT !.stop = TRUE])

(* This return skips the end of nes_cpu_next: the processor is not stopped *)
(* and brk keeps its value.                                                *)
UnsupportedInstruction(i) ==
  /\ <<i.name, i.mode>> = Unsupported
  /\ cpu' = i.cpu
  /\ ret' = "CPU_UNSUPPORTED_INSTRUCTION"
  /\ cycles' = BaseCycles(i.opc)
  /\ UNCHANGED <<data, cartridge>>

-----------------------------------------------------------------------------
(* The switch of nes_cpu_next. *)
Execute(i) ==
  \/ Load(i)
  \/ Store(i)
  \/ Transfer(i)
  \/ Logical(i)
  \/ ADC(i)
  \/ SBC(i)
  \/ Compare(i)
  \/ BIT(i)
  \/ CountRegister(i)
  \/ ShiftAccumulator(i)
  \/ ModifyMemory(i)
  \/ ChangeFlag(i)
  \/ Branch(i)
  \/ JMP(i)
  \/ JMPIndirect(i)
  \/ JSR(i)
  \/ RTS(i)
  \/ PHA(i)
  \/ PLA(i)
  \/ PHP(i)
  \/ PLP(i)
  \/ BRK(i)
  \/ RTI(i)
  \/ NOP(i)
  \/ STP(i)
  \/ UnsupportedInstruction(i)

(* What an instruction that fails must leave alone: the registers that a   *)
(* program computes with, the stack pointer and memory, but for BRK, which *)
(* may have pushed its return address, and RTI, which may have pulled the  *)
(* status.  The program counter is behind the instruction, but that JSR    *)
(* has jumped and RTS has counted once more.                               *)
Isolated(i, regs, memory) ==
  /\ <<regs.a, regs.x, regs.y>> = <<cpu.a, cpu.x, cpu.y>>
  /\ i.name = "RTI" \/ regs.status = cpu.status
  /\ i.name \in {"BRK", "RTI"} \/ regs.sp = cpu.sp
  /\ i.name = "BRK" \/ memory = data
  /\ i.name = "JSR" => regs.pc = U16(i.b2, i.b1)
  /\ i.name = "RTS" => regs.pc = Inc16(i.cpu.pc)
  /\ i.name \notin {"JSR", "RTS"} => regs.pc = i.cpu.pc
=============================================================================

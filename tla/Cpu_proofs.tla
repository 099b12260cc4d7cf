------------------------------ MODULE Cpu_proofs ------------------------------
(***************************************************************************)
(* What one instruction does to the processor, whatever the program, the   *)
(* memory and the flags are: its registers keep their widths, memory stays *)
(* inside its array, the break flag is never added, and a failure has no   *)
(* effect but those of Isolated.                                           *)
(***************************************************************************)
EXTENDS Cpu, Memory_proofs

Registers == [pc : Word, sp : Byte, a : Byte, x : Byte, y : Byte,
              status : SUBSET Bit, stop : BOOLEAN, brk : Byte]

(* The processor, memory and a cartridge of their types. *)
CpuType == cpu \in Registers /\ IsData(data) /\ IsNrom(cartridge)

-----------------------------------------------------------------------------
(* Bytes and words.                                                        *)

(* The widths.                                                             *)
LEMMA Widths == /\ BYTE = 256
                /\ WORD \in Nat /\ 256 < WORD
BY EightBitAssumption DEF WORD

(* Truncation.                                                             *)
LEMMA WrapType ==
  ASSUME NEW n \in Int
  PROVE  Wrap8(n) \in Byte /\ Wrap16(n) \in Word
<1>1. BYTE \in Nat \ {0} /\ WORD \in Nat \ {0}
  BY Widths
<1> QED
  BY <1>1, ModRange DEF Wrap8, Wrap16, Byte, Word

(* Counting a byte or a word.                                              *)
LEMMA CountType ==
  /\ \A v \in Byte : Inc8(v) \in Byte /\ Dec8(v) \in Byte
  /\ \A w \in Word : Inc16(w) \in Word
<1>1. ASSUME NEW v \in Byte
      PROVE  Inc8(v) \in Byte /\ Dec8(v) \in Byte
  BY Widths DEF Inc8, Dec8, Byte
<1> QED
  BY <1>1, Inc16Type

(* A word of two bytes.                                                    *)
LEMMA WordType ==
  ASSUME NEW msb \in Byte, NEW lsb \in Byte
  PROVE  U16(msb, lsb) \in Word
BY HalvesOfU16

(* A byte of bits and the bits of a byte.                                  *)
LEMMA BitsType ==
  /\ \A bits \in SUBSET Bit : ByteOf[bits] \in Byte
  /\ \A v \in Byte : BitsOf[v] \in SUBSET Bit
<1>1. ASSUME NEW bits \in SUBSET Bit
      PROVE  ByteOf[bits] \in Byte
  <2> DEFINE term(b) == IF b \in bits THEN Weight[b] ELSE 0
  <2>1. ByteOf[bits] = term(0) + term(1) + term(2) + term(3)
                         + term(4) + term(5) + term(6) + term(7)
    BY DEF ByteOf
  <2>2. /\ Weight[0] = 1 /\ Weight[1] = 2 /\ Weight[2] = 4 /\ Weight[3] = 8
        /\ Weight[4] = 16 /\ Weight[5] = 32 /\ Weight[6] = 64 /\ Weight[7] = 128
    BY DEF Weight, Bit
  <2>3. /\ term(0) \in {0, 1} /\ term(1) \in {0, 2}
        /\ term(2) \in {0, 4} /\ term(3) \in {0, 8}
        /\ term(4) \in {0, 16} /\ term(5) \in {0, 32}
        /\ term(6) \in {0, 64} /\ term(7) \in {0, 128}
    BY <2>2
  <2> HIDE DEF term
  <2> QED
    BY <2>1, <2>3, Widths DEF Byte
<1>2. ASSUME NEW v \in Byte
      PROVE  BitsOf[v] \in SUBSET Bit
  BY DEF BitsOf
<1> QED
  BY <1>1, <1>2

(* The logical operations.                                                 *)
LEMMA LogicType ==
  ASSUME NEW u \in Byte, NEW v \in Byte
  PROVE  And(u, v) \in Byte /\ Or(u, v) \in Byte /\ Xor(u, v) \in Byte
<1>1. BitsOf[u] \in SUBSET Bit /\ BitsOf[v] \in SUBSET Bit
  BY BitsType
<1>2. /\ BitsOf[u] \cap BitsOf[v] \in SUBSET Bit
      /\ BitsOf[u] \cup BitsOf[v] \in SUBSET Bit
      /\ (BitsOf[u] \cup BitsOf[v]) \ (BitsOf[u] \cap BitsOf[v]) \in SUBSET Bit
  BY <1>1
<1> QED
  BY <1>2, BitsType DEF And, Or, Xor

(* The flags are bits, and B is none of the others.                        *)
LEMMA FlagsType ==
  /\ {FLAGS_C, FLAGS_Z, FLAGS_I, FLAGS_D, FLAGS_B, FLAGS_V, FLAGS_N} \subseteq Bit
  /\ FLAGS_B \notin {FLAGS_C, FLAGS_Z, FLAGS_I, FLAGS_D, FLAGS_V, FLAGS_N}
  /\ \A v : MASK_NZ(v) \subseteq {FLAGS_N, FLAGS_Z}
BY DEF Bit, FLAGS_C, FLAGS_Z, FLAGS_I, FLAGS_D, FLAGS_B, FLAGS_V, FLAGS_N, MASK_NZ

-----------------------------------------------------------------------------
(* Memory as the processor uses it.                                        *)

(* A read leaves a byte or a word.                                         *)
LEMMA ReadType ==
  ASSUME CpuType, NEW addr \in Word
  PROVE  /\ \A old \in Byte : Read8(addr, old).result \in Byte
         /\ \A old \in Word : Read16(addr, old).result \in Word
BY Read8Type, Read16Type DEF CpuType, Read8, Read16

(* A fetch leaves a byte.                                                  *)
LEMMA FetchType ==
  ASSUME CpuType, NEW addr \in Word
  PROVE  Fetch(addr) \subseteq Byte
<1>1. 0 \in Byte
  BY Widths DEF Byte
<1>2. Read8(addr, 0).result \in Byte
  BY <1>1, ReadType
<1> QED
  BY <1>2, GarbageAssumption DEF Fetch

(* A store that fails changes nothing.                                     *)
LEMMA StoreType ==
  ASSUME IsData(data), NEW addr \in Word, NEW v \in Byte
  PROVE  LET w == nes_mem_w8(data, addr, v)
         IN  IsData(w.data) /\ (w.err # "SUCCESS" => w.data = data)
<1>1. IsData(nes_mem_w8(data, addr, v).data)
  BY Write8Type
<1>2. LET w == nes_mem_w8(data, addr, v) IN w.err # "SUCCESS" => w.data = data
  BY DEF nes_mem_w8
<1> QED
  BY <1>1, <1>2

(* A cell of the stack's page is a cell of memory.                         *)
LEMMA PageType ==
  ASSUME NEW d, IsData(d), NEW p \in Byte, NEW v \in Byte
  PROVE  IsData(Poke(d, p, v))
<1>1. p \in 0 .. (RAM_SIZE - 1)
  BY StackCells, MapAssumption, Widths DEF Byte
<1> QED
  BY <1>1, PokeType DEF IsData

(* A push that fails changes nothing.                                      *)
LEMMA PushType ==
  ASSUME NEW d, IsData(d), NEW p \in Byte
  PROVE  /\ \A v \in Byte :
              LET r == nes_stack_push_u8(d, p, v)
              IN  /\ r.sp \in Byte /\ IsData(r.data)
                  /\ r.err # "SUCCESS" => r.data = d /\ r.sp = p
         /\ \A w \in Word :
              LET r == nes_stack_push_u16(d, p, w)
              IN  /\ r.sp \in Byte /\ IsData(r.data)
                  /\ r.err # "SUCCESS" => r.data = d /\ r.sp = p
<1>1. CASE p = 0
  BY <1>1 DEF nes_stack_push_u8, nes_stack_push_u16
<1>2. CASE p # 0
  <2>1. p - 1 \in Byte /\ STACK_SIZE \in Byte /\ (p # 1 => p - 2 \in Byte)
    BY <1>2, Widths DEF STACK_SIZE, Byte
  <2>2. ASSUME NEW v \in Byte
        PROVE  LET r == nes_stack_push_u8(d, p, v)
               IN  r.sp \in Byte /\ IsData(r.data) /\ r.err = "SUCCESS"
    <3>1. nes_stack_push_u8(d, p, v)
            = [err |-> "SUCCESS", data |-> Poke(d, p, v), sp |-> p - 1]
      BY <1>2, PushByte
    <3>2. IsData(Poke(d, p, v))
      BY PageType
    <3> QED
      BY <2>1, <3>1, <3>2
  <2>3. ASSUME NEW w \in Word
        PROVE  LET r == nes_stack_push_u16(d, p, w)
               IN  r.sp \in Byte /\ IsData(r.data) /\ r.err = "SUCCESS"
    <3> DEFINE msb == Msb(w)
               lsb == Lsb(w)
    <3>1. msb \in Byte /\ lsb \in Byte /\ w = U16(msb, lsb)
      <4>1. w \in Int /\ BYTE \in Nat \ {0}
        BY Widths DEF Word
      <4>2. w = (w \div BYTE) * BYTE + (w % BYTE)
        BY <4>1, DivMod
      <4> QED
        BY <4>2, HalvesOfWord DEF Msb, Lsb, U16
    <3> HIDE DEF msb, lsb
    <3>2. IsData(Poke(Poke(d, p - 1, lsb), p, msb))
      BY <2>1, <3>1, PageType
    <3>3. nes_stack_push_u16(d, p, w)
            = [err  |-> "SUCCESS",
               data |-> Poke(Poke(d, p - 1, lsb), p, msb),
               sp   |-> IF p = 1 THEN STACK_SIZE ELSE p - 2]
      BY <1>2, <3>1, PushWord
    <3> QED
      BY <2>1, <3>2, <3>3
  <2> QED
    BY <2>2, <2>3
<1> QED
  BY <1>1, <1>2

(* A pop that fails changes nothing.                                       *)
LEMMA PopType ==
  ASSUME NEW c, NEW d, IsData(d), NEW p \in Byte
  PROVE  /\ \A old \in Byte :
              LET r == nes_stack_pop_u8(c, d, p, old)
              IN  /\ r.sp \in Byte /\ r.result \in Byte
                  /\ r.err # "SUCCESS" => r.sp = p
         /\ \A old \in Word :
              LET r == nes_stack_pop_u16(c, d, p, old)
              IN  /\ r.sp \in Byte /\ r.result \in Word
                  /\ r.err # "SUCCESS" => r.sp = p /\ r.result = old
<1>1. CASE p = STACK_SIZE
  BY <1>1 DEF nes_stack_pop_u8, nes_stack_pop_u16
<1>2. CASE p # STACK_SIZE
  <2>1. p + 1 \in Byte /\ 0 \in Byte /\ (p # STACK_SIZE - 1 => p + 2 \in Byte)
    BY <1>2, Widths DEF STACK_SIZE, Byte
  <2>2. \A k : Peek(d, k) \in Byte
    BY PeekType DEF IsData
  <2>3. U16(Peek(d, p + 2), Peek(d, p + 1)) \in Word
    BY <2>2, WordType
  <2> QED
    BY <1>2, <2>1, <2>2, <2>3, PopByte, PopWord
<1> QED
  BY <1>1, <1>2

-----------------------------------------------------------------------------
(* The instruction set.                                                    *)

MemoryModes == {"ZP", "ZX", "ZY", "AB", "AX", "AY", "IX", "IY"}
Operands    == {"LDA", "LDX", "LDY", "AND", "ORA", "EOR", "ADC", "SBC",
                "CMP", "CPX", "CPY", "BIT"}
Stores      == {"STA", "STX", "STY"}
Modifies    == {"ASL", "LSR", "ROL", "ROR", "INC", "DEC"}
Branches    == {"BCC", "BCS", "BNE", "BEQ", "BPL", "BMI", "BVC", "BVS"}

(* The modes of the instructions that use an address.                      *)
LEMMA Modes ==
  /\ \A n \in DOMAIN Opcode : DOMAIN Opcode[n] \subseteq DOMAIN Length
  /\ \A n \in Operands : DOMAIN Opcode[n] \subseteq MemoryModes \cup {"IM"}
  /\ \A n \in Stores : DOMAIN Opcode[n] \subseteq MemoryModes
  /\ \A n \in Modifies : DOMAIN Opcode[n] \subseteq MemoryModes \cup {"ACC"}
<1>1. \A n \in DOMAIN Opcode : DOMAIN Opcode[n] \subseteq DOMAIN Length
  BY SMTT(60) DEF Opcode, Length
<1>2. \A n \in Operands : DOMAIN Opcode[n] \subseteq MemoryModes \cup {"IM"}
  BY SMTT(60) DEF Opcode, Operands, MemoryModes
<1>3. \A n \in Stores : DOMAIN Opcode[n] \subseteq MemoryModes
  BY SMTT(60) DEF Opcode, Stores, MemoryModes
<1>4. \A n \in Modifies : DOMAIN Opcode[n] \subseteq MemoryModes \cup {"ACC"}
  BY SMTT(60) DEF Opcode, Modifies, MemoryModes
<1> QED
  BY <1>1, <1>2, <1>3, <1>4

(* An instruction has from one to three bytes.                             *)
LEMMA LengthType == \A mode \in DOMAIN Length : Length[mode] \in 1 .. 3
BY DEF Length

(* The opcodes of the branches.                                            *)
LEMMA BranchOpcodes ==
  \A n \in Branches : \A m \in DOMAIN Opcode[n] :
    Opcode[n][m] \in {16, 48, 80, 112, 144, 176, 208, 240}
BY SMTT(60) DEF Opcode, Branches

(* No instruction of the table costs more than seven cycles, and a branch  *)
(* costs two.                                                              *)
LEMMA CostType ==
  /\ \A opc \in Byte : BaseCycles(opc) \in 0 .. 7
  /\ \A opc \in {16, 48, 80, 112, 144, 176, 208, 240} : BaseCycles(opc) = 2
<1>1. \A r \in 1 .. 16, c \in 1 .. 16 : nes_cpu_op_cycles[r][c] \in 0 .. 7
  BY DEF nes_cpu_op_cycles
<1>2. ASSUME NEW opc \in Byte
      PROVE  BaseCycles(opc) \in 0 .. 7
  <2>1. (opc \div 16) + 1 \in 1 .. 16 /\ (opc % 16) + 1 \in 1 .. 16
    BY Widths DEF Byte
  <2> QED
    BY <1>1, <2>1 DEF BaseCycles
<1>3. ASSUME NEW opc \in {16, 48, 80, 112, 144, 176, 208, 240}
      PROVE  BaseCycles(opc) = 2
  <2>1. /\ (opc \div 16) + 1 \in {2, 4, 6, 8, 10, 12, 14, 16}
        /\ (opc % 16) + 1 = 1
    OBVIOUS
  <2>2. \A r \in {2, 4, 6, 8, 10, 12, 14, 16} : nes_cpu_op_cycles[r][1] = 2
    BY DEF nes_cpu_op_cycles
  <2> QED
    BY <2>1, <2>2 DEF BaseCycles
<1> QED
  BY <1>2, <1>3

(* What an opcode is decoded to has that opcode.                           *)
LEMMA Decoded ==
  ASSUME NEW opc \in Byte
  PROVE  \/ Decode[opc] = Unsupported
         \/ /\ Decode[opc][1] \in DOMAIN Opcode
            /\ Decode[opc][2] \in DOMAIN Opcode[Decode[opc][1]]
            /\ Opcode[Decode[opc][1]][Decode[opc][2]] = opc
<1> DEFINE Has(i) == Opcode[i[1]][i[2]] = opc
<1>1. Decode[opc] = IF \E i \in Instruction : Has(i)
                      THEN CHOOSE i \in Instruction : Has(i)
                      ELSE Unsupported
  BY DEF Decode
<1>2. CASE \E i \in Instruction : Has(i)
  <2>1. Decode[opc] \in Instruction /\ Has(Decode[opc])
    <3> HIDE DEF Has
    <3> QED
      BY <1>1, <1>2
  <2>2. PICK name \in DOMAIN Opcode :
          \E mode \in DOMAIN Opcode[name] : Decode[opc] = <<name, mode>>
    BY <2>1 DEF Instruction
  <2> QED
    BY <2>1, <2>2
<1>3. CASE ~ \E i \in Instruction : Has(i)
  BY <1>1, <1>3
<1> QED
  BY <1>2, <1>3

-----------------------------------------------------------------------------
(* A fetched instruction.                                                  *)

(* What the handlers rely on: bytes, a mode that the instruction has, and  *)
(* a processor that differs from the one before in the program counter.    *)
IsFetched(i) ==
  /\ i.opc \in Byte /\ i.b1 \in Byte /\ i.b2 \in Byte
  /\ i.opc \in Fetch(cpu.pc) /\ i.name = Decode[i.opc][1]
  /\ i.name \in Operands => i.mode \in MemoryModes \cup {"IM"}
  /\ i.name \in Stores => i.mode \in MemoryModes
  /\ i.name \in Modifies => i.mode \in MemoryModes \cup {"ACC"}
  /\ i.name \in Branches => BaseCycles(i.opc) = 2
  /\ i.cpu \in Registers
  /\ \E pc \in Word : i.cpu = [cpu EXCEPT !.pc = pc]

(* What is decoded has a mode that its handler knows.                      *)
LEMMA DecodedModes ==
  ASSUME NEW opc \in Byte, NEW name, NEW mode,
         name = Decode[opc][1], mode = Decode[opc][2]
  PROVE  /\ mode \in DOMAIN Length
         /\ name \in Operands => mode \in MemoryModes \cup {"IM"}
         /\ name \in Stores => mode \in MemoryModes
         /\ name \in Modifies => mode \in MemoryModes \cup {"ACC"}
         /\ name \in Branches => BaseCycles(opc) = 2
<1>1. CASE Decode[opc] = Unsupported
  <2>1. name = "unsupported" /\ mode = "IMP"
    BY <1>1 DEF Unsupported
  <2>2. "IMP" \in DOMAIN Length
    BY DEF Length
  <2> QED
    BY <2>1, <2>2 DEF Operands, Stores, Modifies, Branches
<1>2. CASE /\ name \in DOMAIN Opcode
           /\ mode \in DOMAIN Opcode[name]
           /\ Opcode[name][mode] = opc
  BY <1>2, Modes, BranchOpcodes, CostType
<1> QED
  BY <1>1, <1>2, Decoded

(* Every fetch is of an instruction as the handlers rely on.               *)
LEMMA Fetched ==
  ASSUME CpuType, NEW i \in FetchedInstructions
  PROVE  IsFetched(i)
<1> DEFINE next(n) == Wrap16(cpu.pc + n)
<1>1. PICK opc \in Fetch(cpu.pc), b1 \in Fetch(next(1)), b2 \in Fetch(next(2)) :
        i = [name |-> Decode[opc][1], mode |-> Decode[opc][2], opc |-> opc,
             b1 |-> b1, b2 |-> b2,
             cpu |-> [cpu EXCEPT !.pc = next(Length[Decode[opc][2]])]]
  BY DEF FetchedInstructions
<1>2. cpu.pc \in Word /\ cpu.pc \in Int
  BY DEF CpuType, Registers, Word
<1>3. next(1) \in Word /\ next(2) \in Word
  BY <1>2, WrapType
<1> HIDE DEF next
<1>4. opc \in Byte /\ b1 \in Byte /\ b2 \in Byte
  BY <1>2, <1>3, FetchType
<1>5. Length[Decode[opc][2]] \in Int
  <2>1. Decode[opc][2] \in DOMAIN Length
    BY <1>4, DecodedModes
  <2> QED
    BY <2>1, LengthType
<1> DEFINE pc == next(Length[Decode[opc][2]])
<1>6. pc \in Word
  BY <1>2, <1>5, WrapType DEF next
<1> HIDE DEF pc
<1>7. /\ i.opc = opc /\ i.b1 = b1 /\ i.b2 = b2
      /\ i.name = Decode[opc][1] /\ i.mode = Decode[opc][2]
      /\ i.cpu = [cpu EXCEPT !.pc = pc]
  BY <1>1 DEF pc
<1>8. i.cpu \in Registers
  BY <1>6, <1>7 DEF CpuType, Registers
<1>9. /\ i.name \in Operands => i.mode \in MemoryModes \cup {"IM"}
      /\ i.name \in Stores => i.mode \in MemoryModes
      /\ i.name \in Modifies => i.mode \in MemoryModes \cup {"ACC"}
      /\ i.name \in Branches => BaseCycles(i.opc) = 2
  BY <1>4, <1>7, DecodedModes
<1> QED
  BY <1>4, <1>6, <1>7, <1>8, <1>9 DEF IsFetched

(* The registers of a fetched instruction.                                 *)
LEMMA FetchedRegisters ==
  ASSUME CpuType, NEW i, IsFetched(i)
  PROVE  /\ i.cpu.pc \in Word /\ i.cpu.sp \in Byte
         /\ i.cpu.a \in Byte /\ i.cpu.x \in Byte /\ i.cpu.y \in Byte
         /\ i.cpu.status \in SUBSET Bit
         /\ i.cpu.sp = cpu.sp /\ i.cpu.a = cpu.a /\ i.cpu.x = cpu.x
         /\ i.cpu.y = cpu.y /\ i.cpu.status = cpu.status
         /\ i.cpu.stop = cpu.stop /\ i.cpu.brk = cpu.brk
BY DEF IsFetched, CpuType, Registers

(* An effective address.                                                   *)
LEMMA AddressType ==
  ASSUME CpuType, NEW i, IsFetched(i), i.mode \in MemoryModes
  PROVE  Address(i) \in Word
<1> DEFINE absolute == U16(i.b2, i.b1)
<1>1. /\ i.b1 \in Byte /\ absolute \in Word /\ i.b1 \in Word
      /\ i.b1 \in Int /\ absolute \in Int
      /\ i.cpu.x \in Int /\ i.cpu.y \in Int
  BY WordType, ByteIsWord, FetchedRegisters DEF IsFetched, Byte, Word
<1> HIDE DEF absolute
<1>2. /\ Wrap8(i.b1 + i.cpu.x) \in Word /\ Wrap8(i.b1 + i.cpu.y) \in Word
      /\ Wrap16(absolute + i.cpu.x) \in Word /\ Wrap16(absolute + i.cpu.y) \in Word
  <2>1. /\ i.b1 + i.cpu.x \in Int /\ i.b1 + i.cpu.y \in Int
        /\ absolute + i.cpu.x \in Int /\ absolute + i.cpu.y \in Int
    BY <1>1
  <2>2. Wrap8(i.b1 + i.cpu.x) \in Byte /\ Wrap8(i.b1 + i.cpu.y) \in Byte
    BY <2>1, WrapType
  <2>3. Wrap16(absolute + i.cpu.x) \in Word /\ Wrap16(absolute + i.cpu.y) \in Word
    BY <2>1, WrapType
  <2> QED
    BY <2>2, <2>3, ByteIsWord
<1>3. 0 \in Word
  BY Widths DEF Word
<1>4. /\ Read16(Wrap8(i.b1 + i.cpu.x), 0).result \in Word
      /\ Read16(i.b1, 0).result \in Word
  BY <1>1, <1>2, <1>3, ReadType
<1> QED
  BY <1>1, <1>2, <1>4 DEF Address, MemoryModes, absolute

-----------------------------------------------------------------------------
(* What a handler does.                                                    *)

(* What it may do with the status: B is never added.                       *)
StatusKept(before, after) == FLAGS_B \in after => FLAGS_B \in before

(* What a handler returns.                                                 *)
Outcome(i, err, regs, memory, cost) ==
  /\ regs \in Registers
  /\ IsData(memory)
  /\ cost \in 0 .. 7
  /\ StatusKept(cpu.status, regs.status)
  /\ err # "SUCCESS" => Isolated(i, regs, memory)

(* A call of nes_cpu_next that executes it.                                *)
Step(i) ==
  /\ cpu' \in Registers
  /\ IsData(data')
  /\ cartridge' = cartridge
  /\ cycles' \in 0 .. 7
  /\ StatusKept(cpu.status, cpu'.status)
  /\ ret' # "SUCCESS" =>
       /\ Isolated(i, cpu', data')
       /\ UnsupportedInstruction(i) \/ cpu'.stop

(* What is returned is what the call does; an error stops the processor.   *)
LEMMA Returned ==
  ASSUME NEW i, IsFetched(i), NEW err, NEW regs, NEW memory, NEW cost,
         Outcome(i, err, regs, memory, cost),
         Return(i, err, regs, memory, cost)
  PROVE  Step(i)
<1>1. CASE err = "SUCCESS"
  BY <1>1 DEF Return, Outcome, Step
<1>2. CASE err # "SUCCESS"
  <2>1. cpu' = [regs EXCEPT !.stop = TRUE, !.brk = i.opc]
    BY <1>2 DEF Return
  <2>2. regs \in Registers /\ i.opc \in Byte
    BY DEF Outcome, IsFetched
  <2>3. /\ cpu' \in Registers /\ cpu'.stop = TRUE
        /\ cpu'.a = regs.a /\ cpu'.x = regs.x /\ cpu'.y = regs.y
        /\ cpu'.status = regs.status /\ cpu'.sp = regs.sp /\ cpu'.pc = regs.pc
    BY <2>1, <2>2 DEF Registers
  <2>4. data' = memory /\ Isolated(i, regs, memory)
    BY <1>2 DEF Return, Outcome
  <2>5. Isolated(i, cpu', data')
    BY <2>3, <2>4 DEF Isolated
  <2> QED
    BY <1>2, <2>3, <2>5 DEF Return, Outcome, Step
<1> QED
  BY <1>1, <1>2

(* Loads, stores and transfers.                                            *)

(* Adding N and Z to the status.                                           *)
LEMMA SetNZType ==
  ASSUME NEW regs \in Registers, NEW v
  PROVE  LET r == SetNZ(regs, v)
         IN  /\ r \in Registers
             /\ r.a = regs.a /\ r.x = regs.x /\ r.y = regs.y /\ r.sp = regs.sp
             /\ r.status = regs.status \cup MASK_NZ(v)
<1>1. regs.status \cup MASK_NZ(v) \in SUBSET Bit
  BY FlagsType DEF Registers
<1> QED
  BY <1>1 DEF SetNZ, Registers

(* A status with N and Z added, or one of the flags that are assigned.     *)
LEMMA StatusGrows ==
  ASSUME NEW before, NEW after, NEW v,
         after \in {before, before \cup MASK_NZ(v)}
  PROVE  StatusKept(before, after)
BY FlagsType DEF StatusKept

(* A register that is written.                                             *)
LEMMA SetType ==
  ASSUME NEW regs \in Registers, NEW r \in {"a", "x", "y", "sp"}, NEW v \in Byte
  PROVE  /\ [regs EXCEPT ![r] = v] \in Registers
         /\ [regs EXCEPT ![r] = v].status = regs.status
<1>1. CASE r = "a"
  BY <1>1 DEF Registers
<1>2. CASE r = "x"
  BY <1>2 DEF Registers
<1>3. CASE r = "y"
  BY <1>3 DEF Registers
<1>4. CASE r = "sp"
  BY <1>4 DEF Registers
<1> QED
  BY <1>1, <1>2, <1>3, <1>4

(* An operand.                                                             *)
LEMMA OperandType ==
  ASSUME CpuType, NEW i, IsFetched(i), i.name \in Operands
  PROVE  ReadMem(i, 0).result \in Byte
<1>1. 0 \in Byte
  BY Widths DEF Byte
<1>2. CASE i.mode = "IM"
  BY <1>2 DEF ReadMem, IsFetched
<1>3. CASE i.mode # "IM"
  <2>1. Address(i) \in Word
    BY <1>3, AddressType DEF IsFetched
  <2> QED
    BY <1>1, <1>3, <2>1, ReadType DEF ReadMem
<1> QED
  BY <1>2, <1>3

(* A handler that keeps memory and the registers of the fetch.             *)
LEMMA KeptOutcome ==
  ASSUME CpuType, NEW i, IsFetched(i), NEW err,
         err = "SUCCESS" \/ i.name \notin {"JSR", "RTS"}
  PROVE  Outcome(i, err, i.cpu, data, BaseCycles(i.opc))
<1>1. i.cpu \in Registers /\ IsData(data) /\ BaseCycles(i.opc) \in 0 .. 7
  BY CostType DEF IsFetched, CpuType
<1>2. StatusKept(cpu.status, i.cpu.status)
  BY FetchedRegisters DEF StatusKept
<1>3. i.name \notin {"JSR", "RTS"} => Isolated(i, i.cpu, data)
  BY FetchedRegisters DEF Isolated
<1> QED
  BY <1>1, <1>2, <1>3 DEF Outcome

(* A handler that succeeds and keeps memory.                               *)
LEMMA RegistersOutcome ==
  ASSUME CpuType, NEW i, IsFetched(i), NEW regs \in Registers,
         StatusKept(cpu.status, regs.status)
  PROVE  Outcome(i, "SUCCESS", regs, data, BaseCycles(i.opc))
BY CostType DEF Outcome, CpuType, IsFetched

(* An instruction that computes on an operand.                             *)
LEMMA OperateStep ==
  ASSUME CpuType, NEW i, IsFetched(i), i.name \in Operands,
         NEW regs,
         regs \in Registers,
         StatusKept(cpu.status, regs.status),
         LET m == ReadMem(i, 0)
         IN  Return(i, m.err, IF m.err = "SUCCESS" THEN regs ELSE i.cpu,
                    data, BaseCycles(i.opc))
  PROVE  Step(i)
<1> DEFINE err == ReadMem(i, 0).err
<1>1. Outcome(i, err, IF err = "SUCCESS" THEN regs ELSE i.cpu, data, BaseCycles(i.opc))
  BY KeptOutcome, RegistersOutcome DEF Operands
<1> QED
  BY <1>1, Returned

(* A register that an instruction writes.                                  *)
LEMMA SetFetchedType ==
  ASSUME CpuType, NEW i, IsFetched(i),
         NEW r \in {"a", "x", "y", "sp"}, NEW v \in Byte
  PROVE  /\ [i.cpu EXCEPT ![r] = v] \in Registers
         /\ [i.cpu EXCEPT ![r] = v].status = cpu.status
<1> DEFINE regs == i.cpu
<1>1. regs \in Registers /\ regs.status = cpu.status
  BY FetchedRegisters DEF IsFetched
<1> HIDE DEF regs
<1>2. [regs EXCEPT ![r] = v] \in Registers /\ [regs EXCEPT ![r] = v].status = cpu.status
  BY <1>1, SetType
<1> QED
  BY <1>2 DEF regs

(* Setting a register and its flags keeps the status as far as it must.    *)
LEMMA SetRegisterOutcome ==
  ASSUME CpuType, NEW i, IsFetched(i),
         NEW r \in {"a", "x", "y", "sp"}, NEW v \in Byte
  PROVE  LET regs == SetNZ([i.cpu EXCEPT ![r] = v], v)
         IN  regs \in Registers /\ StatusKept(cpu.status, regs.status)
<1> DEFINE moved == [i.cpu EXCEPT ![r] = v]
           regs  == SetNZ(moved, v)
<1>1. moved \in Registers /\ moved.status = cpu.status
  BY SetFetchedType
<1> HIDE DEF moved
<1>2. regs \in Registers /\ regs.status = cpu.status \cup MASK_NZ(v)
  BY <1>1, SetNZType
<1>3. StatusKept(cpu.status, regs.status)
  BY <1>2, StatusGrows
<1> QED
  BY <1>2, <1>3 DEF moved

(* LDA, LDX, LDY.                                                          *)
LEMMA LoadStep ==
  ASSUME CpuType, NEW i, IsFetched(i), Load(i)
  PROVE  Step(i)
<1> DEFINE m    == ReadMem(i, 0)
           r    == LoadTarget[i.name]
           regs == SetNZ([i.cpu EXCEPT ![r] = m.result], m.result)
<1>1. i.name \in Operands /\ r \in {"a", "x", "y", "sp"}
  <2>1. i.name \in {"LDA", "LDX", "LDY"}
    BY DEF Load, LoadTarget
  <2>2. LoadTarget["LDA"] = "a" /\ LoadTarget["LDX"] = "x" /\ LoadTarget["LDY"] = "y"
    BY DEF LoadTarget
  <2> QED
    BY <2>1, <2>2 DEF Operands
<1>2. m.result \in Byte
  BY <1>1, OperandType
<1>3. Return(i, m.err, IF m.err = "SUCCESS" THEN regs ELSE i.cpu,
             data, BaseCycles(i.opc))
  BY DEF Load, Operate
<1> HIDE DEF r
<1>4. regs \in Registers /\ StatusKept(cpu.status, regs.status)
  <2> DEFINE v == m.result
  <2>1. v \in Byte
    BY <1>2
  <2> HIDE DEF v
  <2>2. LET rs == SetNZ([i.cpu EXCEPT ![r] = v], v)
        IN  rs \in Registers /\ StatusKept(cpu.status, rs.status)
    BY <1>1, <2>1, SetRegisterOutcome
  <2> QED
    BY <2>2 DEF v
<1> HIDE DEF regs
<1> QED
  BY <1>1, <1>3, <1>4, OperateStep

(* STA, STX, STY.                                                          *)
LEMMA StoreStep ==
  ASSUME CpuType, NEW i, IsFetched(i), Store(i)
  PROVE  Step(i)
<1> DEFINE v == i.cpu[StoreSource[i.name]]
           w == nes_mem_w8(data, Address(i), v)
<1>1. i.name \in Stores /\ StoreSource[i.name] \in {"a", "x", "y"}
  BY DEF Store, StoreSource, Stores
<1>2. v \in Byte
  BY <1>1, FetchedRegisters
<1>3. Address(i) \in Word
  BY <1>1, AddressType DEF IsFetched
<1>4. Return(i, w.err, i.cpu, w.data, BaseCycles(i.opc))
  BY DEF Store
<1> HIDE DEF v
<1>5. IsData(w.data) /\ (w.err # "SUCCESS" => w.data = data)
  BY <1>2, <1>3, StoreType DEF CpuType
<1> HIDE DEF w
<1>6. Outcome(i, w.err, i.cpu, w.data, BaseCycles(i.opc))
  <2>1. Outcome(i, w.err, i.cpu, data, BaseCycles(i.opc))
    BY <1>1, KeptOutcome DEF Stores
  <2> QED
    BY <1>5, <2>1 DEF Outcome
<1> QED
  BY <1>4, <1>6, Returned

(* TAX, TXA, TAY, TYA, TSX, TXS.                                           *)
LEMMA TransferStep ==
  ASSUME CpuType, NEW i, IsFetched(i), Transfer(i)
  PROVE  Step(i)
<1> DEFINE v     == i.cpu[TransferRegs[i.name][1]]
           r     == TransferRegs[i.name][2]
           moved == [i.cpu EXCEPT ![r] = v]
           regs  == IF i.name = "TXS" THEN moved ELSE SetNZ(moved, v)
<1>1. TransferRegs[i.name][1] \in {"a", "x", "y", "sp"} /\ r \in {"a", "x", "y", "sp"}
  BY DEF Transfer, TransferRegs
<1>2. v \in Byte
  BY <1>1, FetchedRegisters
<1>3. Return(i, "SUCCESS", regs, data, BaseCycles(i.opc))
  BY DEF Transfer, Complete
<1> HIDE DEF v, r
<1>4. regs \in Registers /\ StatusKept(cpu.status, regs.status)
  <2>1. moved \in Registers /\ moved.status = cpu.status
    BY <1>1, <1>2, SetFetchedType
  <2>2. /\ SetNZ(moved, v) \in Registers
        /\ StatusKept(cpu.status, SetNZ(moved, v).status)
    BY <1>1, <1>2, SetRegisterOutcome
  <2>3. StatusKept(cpu.status, cpu.status)
    BY DEF StatusKept
  <2> QED
    BY <2>1, <2>2, <2>3
<1> HIDE DEF regs
<1>5. Outcome(i, "SUCCESS", regs, data, BaseCycles(i.opc))
  BY <1>4, RegistersOutcome
<1> QED
  BY <1>3, <1>5, Returned

(* AND, ORA, EOR.                                                          *)
LEMMA LogicalStep ==
  ASSUME CpuType, NEW i, IsFetched(i), Logical(i)
  PROVE  Step(i)
<1> DEFINE m    == ReadMem(i, 0)
           v    == CASE i.name = "AND" -> And(i.cpu.a, m.result)
                     [] i.name = "ORA" -> Or(i.cpu.a, m.result)
                     [] i.name = "EOR" -> Xor(i.cpu.a, m.result)
           regs == SetNZ([i.cpu EXCEPT !.a = v], v)
<1>1. i.name \in Operands /\ i.name \in {"AND", "ORA", "EOR"}
  BY DEF Logical, Operands
<1>2. m.result \in Byte /\ i.cpu.a \in Byte
  BY <1>1, OperandType, FetchedRegisters
<1>3. v \in Byte
  BY <1>1, <1>2, LogicType
<1>4. Return(i, m.err, IF m.err = "SUCCESS" THEN regs ELSE i.cpu,
             data, BaseCycles(i.opc))
  BY DEF Logical, Operate
<1> HIDE DEF v
<1>5. regs \in Registers /\ StatusKept(cpu.status, regs.status)
  BY <1>3, SetRegisterOutcome
<1> HIDE DEF regs
<1> QED
  BY <1>1, <1>4, <1>5, OperateStep

-----------------------------------------------------------------------------
(* Arithmetic.                                                             *)

(* Assigning one of the flags that are neither N, Z nor B.                 *)
LEMMA AssignKept ==
  ASSUME NEW before, NEW s \in SUBSET Bit, StatusKept(before, s),
         NEW flag \in {FLAGS_C, FLAGS_I, FLAGS_D, FLAGS_V}, NEW condition
  PROVE  /\ Assign(s, flag, condition) \in SUBSET Bit
         /\ StatusKept(before, Assign(s, flag, condition))
<1>1. /\ flag \in Bit /\ flag \notin {FLAGS_N, FLAGS_Z} /\ flag # FLAGS_B
      /\ FLAGS_B \notin {FLAGS_N, FLAGS_Z}
  BY DEF Bit, FLAGS_C, FLAGS_I, FLAGS_D, FLAGS_V, FLAGS_N, FLAGS_Z, FLAGS_B
<1>2. Assign(s, flag, condition) \in {s \cup {flag}, s \ {flag}}
  BY DEF Assign
<1>3. StatusKept(before, s \cup {flag}) /\ StatusKept(before, s \ {flag})
  BY <1>1 DEF StatusKept
<1> QED
  BY <1>1, <1>2, <1>3

(* The accumulator and the status after a sum or a difference.             *)
LEMMA SumOutcome ==
  ASSUME CpuType, NEW i, IsFetched(i), NEW n \in Int, NEW carried, NEW signed
  PROVE  LET carry == Assign(i.cpu.status \cup MASK_NZ(i.cpu.a), FLAGS_C, carried)
             regs  == [i.cpu EXCEPT !.a = Wrap8(n),
                                    !.status = Assign(carry, FLAGS_V, signed)]
         IN  regs \in Registers /\ StatusKept(cpu.status, regs.status)
<1> DEFINE nz    == i.cpu.status \cup MASK_NZ(i.cpu.a)
           carry == Assign(nz, FLAGS_C, carried)
           after == Assign(carry, FLAGS_V, signed)
           regs  == [i.cpu EXCEPT !.a = Wrap8(n), !.status = after]
<1>1. i.cpu.status = cpu.status /\ cpu.status \in SUBSET Bit /\ i.cpu \in Registers
  BY FetchedRegisters DEF IsFetched
<1>2. nz \in SUBSET Bit /\ StatusKept(cpu.status, nz)
  <2>1. nz = cpu.status \cup MASK_NZ(i.cpu.a)
    BY <1>1
  <2>2. StatusKept(cpu.status, cpu.status \cup MASK_NZ(i.cpu.a))
    BY StatusGrows
  <2> QED
    BY <1>1, <2>1, <2>2, FlagsType
<1> HIDE DEF nz
<1>3. carry \in SUBSET Bit /\ StatusKept(cpu.status, carry)
  BY <1>2, AssignKept
<1> HIDE DEF carry
<1>4. after \in SUBSET Bit /\ StatusKept(cpu.status, after)
  BY <1>3, AssignKept
<1> HIDE DEF after
<1>5. Wrap8(n) \in Byte
  BY WrapType
<1>6. regs \in Registers /\ regs.status = after
  BY <1>1, <1>4, <1>5 DEF Registers
<1> QED
  BY <1>4, <1>6 DEF after, carry, nz

(* ADC.                                                                    *)
LEMMA AdcStep ==
  ASSUME CpuType, NEW i, IsFetched(i), ADC(i)
  PROVE  Step(i)
<1> DEFINE m == ReadMem(i, 0)
           sum == i.cpu.a + m.result + Carry(i.cpu)
           regs == Adc(i.cpu, m.result)
<1>1. i.name \in Operands
  BY DEF ADC, Operands
<1>2. sum \in Int
  <2>1. m.result \in Byte /\ i.cpu.a \in Byte /\ Carry(i.cpu) \in {0, 1}
    BY <1>1, OperandType, FetchedRegisters DEF Carry
  <2> QED
    BY <2>1 DEF Byte
<1>3. Return(i, m.err, IF m.err = "SUCCESS" THEN regs ELSE i.cpu,
             data, BaseCycles(i.opc))
  BY DEF ADC, Operate
<1>4. regs \in Registers /\ StatusKept(cpu.status, regs.status)
  BY <1>2, SumOutcome DEF Adc
<1> HIDE DEF regs
<1> QED
  BY <1>1, <1>3, <1>4, OperateStep

(* SBC.                                                                    *)
LEMMA SbcStep ==
  ASSUME CpuType, NEW i, IsFetched(i), SBC(i)
  PROVE  Step(i)
<1> DEFINE m == ReadMem(i, 0)
           difference == i.cpu.a - m.result + Carry(i.cpu) + 1
           regs == Sbc(i.cpu, m.result)
<1>1. i.name \in Operands
  BY DEF SBC, Operands
<1>2. difference \in Int
  <2>1. m.result \in Byte /\ i.cpu.a \in Byte /\ Carry(i.cpu) \in {0, 1}
    BY <1>1, OperandType, FetchedRegisters DEF Carry
  <2> QED
    BY <2>1 DEF Byte
<1>3. Return(i, m.err, IF m.err = "SUCCESS" THEN regs ELSE i.cpu,
             data, BaseCycles(i.opc))
  BY DEF SBC, Operate
<1>4. regs \in Registers /\ StatusKept(cpu.status, regs.status)
  BY <1>2, SumOutcome DEF Sbc
<1> HIDE DEF regs
<1> QED
  BY <1>1, <1>3, <1>4, OperateStep

(* A status of bits in the place of another.                               *)
LEMMA StatusType ==
  ASSUME NEW regs \in Registers, NEW s \in SUBSET Bit
  PROVE  /\ [regs EXCEPT !.status = s] \in Registers
         /\ [regs EXCEPT !.status = s].status = s
BY DEF Registers

(* CMP, CPX, CPY.                                                          *)
LEMMA CompareStep ==
  ASSUME CpuType, NEW i, IsFetched(i), Compare(i)
  PROVE  Step(i)
<1> DEFINE m    == ReadMem(i, 0)
           v    == Wrap8(i.cpu[CompareSource[i.name]] - m.result)
           flag == [i.cpu EXCEPT !.status = @ \cup {FLAGS_C}]
           regs == SetNZ(flag, v)
<1>1. i.name \in Operands
  BY DEF Compare, CompareSource, Operands
<1>2. Return(i, m.err, IF m.err = "SUCCESS" THEN regs ELSE i.cpu,
             data, BaseCycles(i.opc))
  BY DEF Compare, Operate
<1> HIDE DEF v
<1>3. flag \in Registers /\ flag.status = cpu.status \cup {FLAGS_C}
  <2> DEFINE s == i.cpu.status \cup {FLAGS_C}
  <2>1. s \in SUBSET Bit /\ s = cpu.status \cup {FLAGS_C} /\ i.cpu \in Registers
    BY FetchedRegisters, FlagsType DEF IsFetched
  <2>2. flag = [i.cpu EXCEPT !.status = s]
    OBVIOUS
  <2> HIDE DEF s, flag
  <2>3. /\ [i.cpu EXCEPT !.status = s] \in Registers
        /\ [i.cpu EXCEPT !.status = s].status = s
    BY <2>1, StatusType
  <2> QED
    BY <2>1, <2>2, <2>3
<1> HIDE DEF flag
<1>4. regs \in Registers /\ regs.status = (cpu.status \cup {FLAGS_C}) \cup MASK_NZ(v)
  BY <1>3, SetNZType
<1>5. StatusKept(cpu.status, (cpu.status \cup {FLAGS_C}) \cup MASK_NZ(v))
  BY FlagsType DEF StatusKept
<1> HIDE DEF regs
<1>6. StatusKept(cpu.status, regs.status)
  BY <1>4, <1>5
<1> QED
  BY <1>1, <1>2, <1>4, <1>6, OperateStep

(* BIT.                                                                    *)
LEMMA BitStep ==
  ASSUME CpuType, NEW i, IsFetched(i), BIT(i)
  PROVE  Step(i)
<1> DEFINE m    == ReadMem(i, 0)
           seen == BitsOf[m.result] \cap {FLAGS_N, FLAGS_V}
           zero == MASK_NZ(And(i.cpu.a, m.result)) \cap {FLAGS_Z}
           s    == i.cpu.status \cup seen \cup zero
           regs == [i.cpu EXCEPT !.status = s]
<1>1. i.name \in Operands
  BY DEF BIT, Operands
<1>2. Return(i, m.err, IF m.err = "SUCCESS" THEN regs ELSE i.cpu,
             data, BaseCycles(i.opc))
  BY DEF BIT, Operate
<1>3. s \in SUBSET Bit /\ StatusKept(cpu.status, s)
  <2>1. /\ seen \subseteq {FLAGS_N, FLAGS_V} /\ zero \subseteq {FLAGS_Z}
        /\ i.cpu.status = cpu.status /\ cpu.status \in SUBSET Bit
    BY FetchedRegisters
  <2> HIDE DEF seen, zero
  <2>2. FLAGS_B \notin {FLAGS_N, FLAGS_V, FLAGS_Z}
    BY DEF FLAGS_B, FLAGS_N, FLAGS_V, FLAGS_Z
  <2> QED
    BY <2>1, <2>2, FlagsType DEF StatusKept
<1> HIDE DEF s
<1>4. regs \in Registers /\ regs.status = s
  BY <1>3, StatusType DEF IsFetched
<1> HIDE DEF regs
<1> QED
  BY <1>1, <1>2, <1>3, <1>4, OperateStep

(* INX, DEX, INY, DEY.                                                     *)
LEMMA CountStep ==
  ASSUME CpuType, NEW i, IsFetched(i), CountRegister(i)
  PROVE  Step(i)
<1> DEFINE r    == Counted[i.name]
           v    == IF i.name \in {"INX", "INY"} THEN Inc8(i.cpu[r]) ELSE Dec8(i.cpu[r])
           regs == SetNZ([i.cpu EXCEPT ![r] = v], v)
<1>1. r \in {"x", "y"}
  BY DEF CountRegister, Counted
<1>2. v \in Byte
  <2>1. i.cpu[r] \in Byte
    BY <1>1, FetchedRegisters
  <2> QED
    BY <2>1, CountType
<1>3. Return(i, "SUCCESS", regs, data, BaseCycles(i.opc))
  BY DEF CountRegister, Complete
<1> HIDE DEF r, v
<1>4. regs \in Registers /\ StatusKept(cpu.status, regs.status)
  BY <1>1, <1>2, SetRegisterOutcome
<1> HIDE DEF regs
<1> QED
  BY <1>3, <1>4, RegistersOutcome, Returned

-----------------------------------------------------------------------------
(* Shifts and counts in memory.                                            *)

(* The byte that they make of a byte.                                      *)
LEMMA ModifiedType ==
  ASSUME NEW name \in Modifies, NEW m \in Byte
  PROVE  Modified(name, m) \in Byte
<1>1. /\ m \in 0 .. 255 /\ m \div 2 \in 0 .. 127 /\ 2 * m \in Int
  BY Widths DEF Byte
<1>2. /\ Wrap8(2 * m) \in Byte /\ Inc8(m) \in Byte /\ Dec8(m) \in Byte
  BY <1>1, WrapType, CountType
<1>3. Wrap8(2 * m) + 1 \in Byte
  <2>1. Wrap8(2 * m) = IF m < 128 THEN 2 * m ELSE 2 * m - 256
    BY <1>1, Widths DEF Wrap8
  <2> QED
    BY <1>1, <2>1, Widths DEF Byte
<1>4. m \div 2 \in Byte /\ (m \div 2) + 128 \in Byte
  BY <1>1, Widths DEF Byte
<1> QED
  BY <1>2, <1>3, <1>4 DEF Modified, Modifies

(* Their flags.                                                            *)
LEMMA ModifiedStatusKept ==
  ASSUME CpuType, NEW i, IsFetched(i), i.name \in Modifies, NEW m
  PROVE  LET s == ModifiedStatus(i.name, m, i.cpu.status)
         IN  s \in SUBSET Bit /\ StatusKept(cpu.status, s)
<1> DEFINE nz == i.cpu.status \cup MASK_NZ(Modified(i.name, m))
           s  == ModifiedStatus(i.name, m, i.cpu.status)
<1>1. nz \in SUBSET Bit /\ StatusKept(cpu.status, nz)
  BY FetchedRegisters, FlagsType DEF StatusKept
<1>2. s \in {nz, nz \cup {FLAGS_C}, nz \ {FLAGS_C}}
  BY DEF ModifiedStatus, Assign, Modifies
<1> HIDE DEF nz, s
<1>3. /\ FLAGS_C \in Bit /\ FLAGS_C \notin {FLAGS_N, FLAGS_Z}
      /\ FLAGS_C # FLAGS_B
  BY DEF Bit, FLAGS_C, FLAGS_N, FLAGS_Z, FLAGS_B
<1>4. /\ nz \cup {FLAGS_C} \in SUBSET Bit /\ nz \ {FLAGS_C} \in SUBSET Bit
      /\ StatusKept(cpu.status, nz \cup {FLAGS_C})
      /\ StatusKept(cpu.status, nz \ {FLAGS_C})
  BY <1>1, <1>3 DEF StatusKept
<1> QED
  BY <1>1, <1>2, <1>4 DEF s

(* On the accumulator.                                                     *)
LEMMA ShiftStep ==
  ASSUME CpuType, NEW i, IsFetched(i), ShiftAccumulator(i)
  PROVE  Step(i)
<1> DEFINE v    == Modified(i.name, i.cpu.a)
           s    == ModifiedStatus(i.name, i.cpu.a, i.cpu.status)
           regs == [i.cpu EXCEPT !.a = v, !.status = s]
<1>1. i.name \in Modifies
  BY DEF ShiftAccumulator, ShiftNames, Modifies
<1>2. v \in Byte
  BY <1>1, ModifiedType, FetchedRegisters
<1>3. s \in SUBSET Bit /\ StatusKept(cpu.status, s)
  BY <1>1, ModifiedStatusKept
<1>4. Return(i, "SUCCESS", regs, data, BaseCycles(i.opc))
  BY DEF ShiftAccumulator, Complete
<1> HIDE DEF v, s
<1>5. regs \in Registers /\ regs.status = s
  BY <1>2, <1>3 DEF Registers, IsFetched
<1> HIDE DEF regs
<1> QED
  BY <1>3, <1>4, <1>5, RegistersOutcome, Returned

(* In memory.                                                              *)
LEMMA ModifyStep ==
  ASSUME CpuType, NEW i, IsFetched(i), ModifyMemory(i)
  PROVE  Step(i)
<1> DEFINE m    == Read8(Address(i), 0)
           v    == Modified(i.name, m.result)
           w    == nes_mem_w8(data, Address(i), v)
           s    == ModifiedStatus(i.name, m.result, i.cpu.status)
           regs == [i.cpu EXCEPT !.status = s]
<1>1. i.name \in Modifies /\ i.mode \in MemoryModes
  BY DEF ModifyMemory, ShiftNames, Modifies, IsFetched
<1>2. Address(i) \in Word
  BY <1>1, AddressType
<1>3. m.result \in Byte
  <2>1. 0 \in Byte
    BY Widths DEF Byte
  <2> QED
    BY <1>2, <2>1, ReadType
<1>4. \/ Return(i, "SUCCESS", regs, w.data, BaseCycles(i.opc))
      \/ Return(i, "SUCCESS", i.cpu, data, BaseCycles(i.opc))
  BY DEF ModifyMemory, Complete
<1> HIDE DEF m
<1>5. v \in Byte
  BY <1>1, <1>3, ModifiedType
<1>6. s \in SUBSET Bit /\ StatusKept(cpu.status, s)
  BY <1>1, ModifiedStatusKept
<1> HIDE DEF v, s
<1>7. IsData(w.data)
  BY <1>2, <1>5, StoreType DEF CpuType
<1>8. regs \in Registers /\ regs.status = s
  BY <1>6, StatusType DEF IsFetched
<1> HIDE DEF w, regs
<1>9. /\ Outcome(i, "SUCCESS", regs, w.data, BaseCycles(i.opc))
      /\ Outcome(i, "SUCCESS", i.cpu, data, BaseCycles(i.opc))
  <2>1. Outcome(i, "SUCCESS", i.cpu, data, BaseCycles(i.opc))
    BY KeptOutcome
  <2>2. BaseCycles(i.opc) \in 0 .. 7
    BY <2>1 DEF Outcome
  <2> QED
    BY <1>6, <1>7, <1>8, <2>1, <2>2 DEF Outcome
<1> QED
  BY <1>4, <1>9, Returned

-----------------------------------------------------------------------------
(* Flags and jumps.                                                        *)

(* CLC, CLI, CLD, SEC, SEI, SED, CLV.                                      *)
LEMMA ChangeFlagStep ==
  ASSUME CpuType, NEW i, IsFetched(i), ChangeFlag(i)
  PROVE  Step(i)
<1> DEFINE set  == i.name \notin {"CLC", "CLI", "CLD"}
           flag == FlagOf[i.name]
           s    == Assign(i.cpu.status, flag, set)
           regs == [i.cpu EXCEPT !.status = s]
<1>1. flag \in {FLAGS_C, FLAGS_I, FLAGS_D, FLAGS_V}
  BY DEF ChangeFlag, FlagOf
<1>2. Return(i, "SUCCESS", regs, data, BaseCycles(i.opc))
  BY DEF ChangeFlag, Complete
<1> HIDE DEF set, flag
<1>3. s \in SUBSET Bit /\ StatusKept(cpu.status, s)
  BY <1>1, FetchedRegisters, AssignKept DEF StatusKept
<1> HIDE DEF s
<1>4. regs \in Registers /\ regs.status = s
  BY <1>3, StatusType DEF IsFetched
<1> HIDE DEF regs
<1> QED
  BY <1>2, <1>3, <1>4, RegistersOutcome, Returned

(* A processor that differs in what no program computes with.              *)
Moved(regs) ==
  /\ regs \in Registers
  /\ regs.a = cpu.a /\ regs.x = cpu.x /\ regs.y = cpu.y
  /\ regs.status = cpu.status

(* What a handler that moves the processor returns.                        *)
LEMMA MovedOutcome ==
  ASSUME NEW i, NEW err, NEW regs, Moved(regs), NEW memory, IsData(memory),
         NEW cost \in 0 .. 7,
         err # "SUCCESS" =>
           /\ i.name = "BRK" \/ (memory = data /\ regs.sp = cpu.sp)
           /\ i.name = "JSR" => regs.pc = U16(i.b2, i.b1)
           /\ i.name = "RTS" => regs.pc = Inc16(i.cpu.pc)
           /\ i.name \notin {"JSR", "RTS"} => regs.pc = i.cpu.pc
  PROVE  Outcome(i, err, regs, memory, cost)
BY DEF Outcome, Moved, StatusKept, Isolated

(* Moving the program counter, the stack pointer or both.                  *)
LEMMA MovedRegisters ==
  ASSUME CpuType, NEW i, IsFetched(i), NEW pc \in Word, NEW sp \in Byte
  PROVE  /\ Moved(i.cpu)
         /\ Moved([i.cpu EXCEPT !.pc = pc])
         /\ Moved([i.cpu EXCEPT !.sp = sp])
         /\ Moved([i.cpu EXCEPT !.sp = sp, !.pc = pc])
<1> DEFINE regs == i.cpu
<1>1. /\ regs \in Registers
      /\ regs.a = cpu.a /\ regs.x = cpu.x /\ regs.y = cpu.y
      /\ regs.status = cpu.status
  BY FetchedRegisters DEF IsFetched
<1> HIDE DEF regs
<1>2. Moved(regs)
  BY <1>1 DEF Moved
<1>3. Moved([regs EXCEPT !.pc = pc])
  BY <1>1 DEF Moved, Registers
<1>4. Moved([regs EXCEPT !.sp = sp])
  BY <1>1 DEF Moved, Registers
<1>5. Moved([regs EXCEPT !.sp = sp, !.pc = pc])
  BY <1>1 DEF Moved, Registers
<1> QED
  BY <1>2, <1>3, <1>4, <1>5 DEF regs

(* The eight branches.                                                     *)
LEMMA BranchStep ==
  ASSUME CpuType, NEW i, IsFetched(i), Branch(i)
  PROVE  Step(i)
<1> DEFINE target  == Wrap16(i.cpu.pc + Signed8(i.b1))
           crossed == Msb(target) # Msb(i.cpu.pc)
           taken   == [i.cpu EXCEPT !.pc = target]
           cost    == BaseCycles(i.opc) + IF crossed THEN 2 ELSE 1
<1>1. cost \in 0 .. 7 /\ BaseCycles(i.opc) \in 0 .. 7
  <2>1. i.name \in Branches
    BY DEF Branch, BranchTest, Branches
  <2>2. BaseCycles(i.opc) = 2
    BY <2>1 DEF IsFetched
  <2> HIDE DEF crossed
  <2> QED
    BY <2>2
<1>2. \/ Return(i, "SUCCESS", taken, data, cost)
      \/ Return(i, "SUCCESS", i.cpu, data, BaseCycles(i.opc))
  BY DEF Branch, Complete
<1> HIDE DEF crossed
<1>3. target \in Word
  <2>1. i.cpu.pc + Signed8(i.b1) \in Int
    <3>1. i.b1 \in Int /\ i.cpu.pc \in Int
      BY FetchedRegisters DEF IsFetched, Byte, Word
    <3> QED
      BY <3>1, Widths DEF Signed8
  <2> QED
    BY <2>1, WrapType
<1> HIDE DEF target, cost
<1>4. 0 \in Byte
  BY Widths DEF Byte
<1>5. Moved(taken) /\ Moved(i.cpu)
  BY <1>3, <1>4, MovedRegisters
<1> HIDE DEF taken
<1>6. /\ Outcome(i, "SUCCESS", taken, data, cost)
      /\ Outcome(i, "SUCCESS", i.cpu, data, BaseCycles(i.opc))
  BY <1>1, <1>5, MovedOutcome DEF CpuType
<1> QED
  BY <1>2, <1>6, Returned

(* JMP to the word after it.                                               *)
LEMMA JumpStep ==
  ASSUME CpuType, NEW i, IsFetched(i), JMP(i)
  PROVE  Step(i)
<1> DEFINE target == U16(i.b2, i.b1)
           regs   == [i.cpu EXCEPT !.pc = target]
<1>1. target \in Word /\ 0 \in Byte
  <2>1. i.b1 \in Byte /\ i.b2 \in Byte
    BY DEF IsFetched
  <2>2. target \in Word
    BY <2>1, WordType
  <2> QED
    BY <2>2, Widths DEF Byte
<1>2. Return(i, "SUCCESS", regs, data, BaseCycles(i.opc))
  BY DEF JMP, Complete
<1> HIDE DEF target
<1>3. Moved(regs)
  BY <1>1, MovedRegisters
<1> HIDE DEF regs
<1>4. Outcome(i, "SUCCESS", regs, data, BaseCycles(i.opc))
  BY <1>3, MovedOutcome, CostType DEF CpuType, IsFetched
<1> QED
  BY <1>2, <1>4, Returned

(* The pointer of an indirect jump is a word.                              *)
LEMMA PointerType ==
  ASSUME CpuType, NEW ptr \in Word
  PROVE  IndirectPointer(ptr).result \in Word
<1>1. 0 \in Byte /\ 0 \in Word
  BY Widths DEF Byte, Word
<1>2. Msb(ptr) \in Byte /\ Lsb(ptr) \in Byte
  BY HalvesOfWord
<1>3. U16(Msb(ptr), 0) \in Word
  BY <1>1, <1>2, WordType
<1>4. /\ Read8(ptr, Lsb(ptr)).result \in Byte
      /\ Read8(U16(Msb(ptr), 0), 0).result \in Byte
      /\ Read16(ptr, 0).result \in Word
  BY <1>1, <1>2, <1>3, ReadType
<1>5. U16(Read8(U16(Msb(ptr), 0), 0).result, Read8(ptr, Lsb(ptr)).result) \in Word
  BY <1>4, WordType
<1> QED
  BY <1>4, <1>5 DEF IndirectPointer

(* JMP through a pointer.                                                  *)
LEMMA JumpIndirectStep ==
  ASSUME CpuType, NEW i, IsFetched(i), JMPIndirect(i)
  PROVE  Step(i)
<1> DEFINE addr   == IndirectPointer(U16(i.b2, i.b1))
           target == Read16(addr.result, 0).result
           taken  == [i.cpu EXCEPT !.pc = target]
           regs   == IF addr.err = "SUCCESS" THEN taken ELSE i.cpu
<1>1. addr.result \in Word
  BY WordType, PointerType DEF IsFetched
<1>2. Return(i, addr.err, regs, data, BaseCycles(i.opc))
  BY DEF JMPIndirect
<1> HIDE DEF addr
<1>3. target \in Word /\ 0 \in Byte
  <2>1. 0 \in Word /\ 0 \in Byte
    BY Widths DEF Word, Byte
  <2> QED
    BY <1>1, <2>1, ReadType
<1> HIDE DEF target
<1>4. Moved(taken) /\ Moved(i.cpu)
  BY <1>3, MovedRegisters
<1> HIDE DEF taken
<1>5. /\ Moved(regs) /\ i.name = "JMP"
      /\ addr.err # "SUCCESS" => regs.sp = cpu.sp /\ regs.pc = i.cpu.pc
  BY <1>4, FetchedRegisters DEF JMPIndirect
<1> HIDE DEF regs
<1>6. Outcome(i, addr.err, regs, data, BaseCycles(i.opc))
  BY <1>5, MovedOutcome, CostType DEF CpuType, IsFetched
<1> QED
  BY <1>2, <1>6, Returned

-----------------------------------------------------------------------------
(* The stack.                                                              *)

(* What a word of the instruction and the next instruction's address are.  *)
LEMMA FetchedWords ==
  ASSUME CpuType, NEW i, IsFetched(i)
  PROVE  /\ U16(i.b2, i.b1) \in Word
         /\ Wrap16(i.cpu.pc - 1) \in Word
         /\ BaseCycles(i.opc) \in 0 .. 7
         /\ i.cpu.pc \in Word /\ i.cpu.sp \in Byte /\ 0 \in Byte
<1>1. /\ i.b1 \in Byte /\ i.b2 \in Byte /\ i.opc \in Byte
      /\ i.cpu.pc \in Word /\ i.cpu.sp \in Byte
  BY FetchedRegisters DEF IsFetched
<1>2. U16(i.b2, i.b1) \in Word
  BY <1>1, WordType
<1>3. Wrap16(i.cpu.pc - 1) \in Word
  <2>1. i.cpu.pc - 1 \in Int
    BY <1>1 DEF Word
  <2> QED
    BY <2>1, WrapType
<1>4. 0 \in Byte
  BY Widths DEF Byte
<1> QED
  BY <1>1, <1>2, <1>3, <1>4, CostType

(* A push of an instruction.                                               *)
LEMMA FetchedPush ==
  ASSUME CpuType, NEW i, IsFetched(i)
  PROVE  /\ \A v \in Byte :
              LET r == nes_stack_push_u8(data, i.cpu.sp, v)
              IN  /\ r.sp \in Byte /\ IsData(r.data)
                  /\ r.err # "SUCCESS" => r.data = data /\ r.sp = cpu.sp
         /\ \A w \in Word :
              LET r == nes_stack_push_u16(data, i.cpu.sp, w)
              IN  /\ r.sp \in Byte /\ IsData(r.data)
                  /\ r.err # "SUCCESS" => r.data = data /\ r.sp = cpu.sp
<1> DEFINE sp == i.cpu.sp
<1>1. sp \in Byte /\ sp = cpu.sp /\ IsData(data)
  BY FetchedRegisters DEF CpuType
<1> HIDE DEF sp
<1>2. ASSUME NEW v \in Byte
      PROVE  LET r == nes_stack_push_u8(data, sp, v)
             IN  /\ r.sp \in Byte /\ IsData(r.data)
                 /\ r.err # "SUCCESS" => r.data = data /\ r.sp = sp
  BY <1>1, PushType
<1>3. ASSUME NEW w \in Word
      PROVE  LET r == nes_stack_push_u16(data, sp, w)
             IN  /\ r.sp \in Byte /\ IsData(r.data)
                 /\ r.err # "SUCCESS" => r.data = data /\ r.sp = sp
  BY <1>1, PushType
<1> QED
  BY <1>1, <1>2, <1>3 DEF sp

(* A pop of an instruction.                                                *)
LEMMA FetchedPop ==
  ASSUME CpuType, NEW i, IsFetched(i)
  PROVE  /\ \A old \in Byte :
              LET r == nes_stack_pop_u8(cartridge, data, i.cpu.sp, old)
              IN  /\ r.sp \in Byte /\ r.result \in Byte
                  /\ r.err # "SUCCESS" => r.sp = cpu.sp
         /\ \A old \in Word :
              LET r == nes_stack_pop_u16(cartridge, data, i.cpu.sp, old)
              IN  /\ r.sp \in Byte /\ r.result \in Word
                  /\ r.err # "SUCCESS" => r.sp = cpu.sp /\ r.result = old
<1> DEFINE sp == i.cpu.sp
<1>1. sp \in Byte /\ sp = cpu.sp /\ IsData(data)
  BY FetchedRegisters DEF CpuType
<1> HIDE DEF sp
<1>2. ASSUME NEW old \in Byte
      PROVE  LET r == nes_stack_pop_u8(cartridge, data, sp, old)
             IN  /\ r.sp \in Byte /\ r.result \in Byte
                 /\ r.err # "SUCCESS" => r.sp = sp
  BY <1>1, PopType
<1>3. ASSUME NEW old \in Word
      PROVE  LET r == nes_stack_pop_u16(cartridge, data, sp, old)
             IN  /\ r.sp \in Byte /\ r.result \in Word
                 /\ r.err # "SUCCESS" => r.sp = sp /\ r.result = old
  BY <1>1, PopType
<1> QED
  BY <1>1, <1>2, <1>3 DEF sp

(* JSR.                                                                    *)
LEMMA JsrStep ==
  ASSUME CpuType, NEW i, IsFetched(i), JSR(i)
  PROVE  Step(i)
<1> DEFINE w      == Wrap16(i.cpu.pc - 1)
           p      == nes_stack_push_u16(data, i.cpu.sp, w)
           target == U16(i.b2, i.b1)
           regs   == [i.cpu EXCEPT !.sp = p.sp, !.pc = target]
<1>1. Return(i, p.err, regs, p.data, BaseCycles(i.opc)) /\ i.name = "JSR"
  BY DEF JSR
<1>2. w \in Word /\ target \in Word
  BY FetchedWords
<1> HIDE DEF w, target
<1>3. /\ p.sp \in Byte /\ IsData(p.data)
      /\ p.err # "SUCCESS" => p.data = data /\ p.sp = cpu.sp
  BY <1>2, FetchedPush
<1> HIDE DEF p
<1>4. Moved(regs) /\ regs.sp = p.sp /\ regs.pc = target
  <2>1. Moved(regs)
    BY <1>2, <1>3, MovedRegisters
  <2>2. regs.sp = p.sp /\ regs.pc = target
    BY <1>3 DEF IsFetched, Registers
  <2> QED
    BY <2>1, <2>2
<1> HIDE DEF regs
<1>5. Outcome(i, p.err, regs, p.data, BaseCycles(i.opc))
  BY <1>1, <1>3, <1>4, MovedOutcome, FetchedWords DEF target
<1> QED
  BY <1>1, <1>5, Returned

(* RTS.                                                                    *)
LEMMA RtsStep ==
  ASSUME CpuType, NEW i, IsFetched(i), RTS(i)
  PROVE  Step(i)
<1> DEFINE p      == nes_stack_pop_u16(cartridge, data, i.cpu.sp, i.cpu.pc)
           target == Inc16(p.result)
           regs   == [i.cpu EXCEPT !.sp = p.sp, !.pc = target]
<1>1. Return(i, p.err, regs, data, BaseCycles(i.opc)) /\ i.name = "RTS"
  BY DEF RTS
<1>2. /\ p.sp \in Byte /\ p.result \in Word
      /\ p.err # "SUCCESS" => p.sp = cpu.sp /\ p.result = i.cpu.pc
  BY FetchedWords, FetchedPop
<1> HIDE DEF p
<1>3. target \in Word
  BY <1>2, CountType
<1> HIDE DEF target
<1>4. Moved(regs) /\ regs.sp = p.sp /\ regs.pc = target
  <2>1. Moved(regs)
    BY <1>3, <1>2, MovedRegisters
  <2>2. regs.sp = p.sp /\ regs.pc = target
    BY <1>2 DEF IsFetched, Registers
  <2> QED
    BY <2>1, <2>2
<1> HIDE DEF regs
<1>5. Outcome(i, p.err, regs, data, BaseCycles(i.opc))
  BY <1>1, <1>2, <1>4, MovedOutcome, FetchedWords DEF CpuType, target
<1> QED
  BY <1>1, <1>5, Returned

(* A byte that is pushed.                                                  *)
LEMMA PushByteStep ==
  ASSUME CpuType, NEW i, IsFetched(i), NEW v \in Byte, i.name \in {"PHA", "PHP"},
         LET p == nes_stack_push_u8(data, i.cpu.sp, v)
         IN  Return(i, p.err, [i.cpu EXCEPT !.sp = p.sp], p.data, BaseCycles(i.opc))
  PROVE  Step(i)
<1> DEFINE p    == nes_stack_push_u8(data, i.cpu.sp, v)
           regs == [i.cpu EXCEPT !.sp = p.sp]
<1>1. Return(i, p.err, regs, p.data, BaseCycles(i.opc))
  OBVIOUS
<1>2. /\ p.sp \in Byte /\ IsData(p.data)
      /\ p.err # "SUCCESS" => p.data = data /\ p.sp = cpu.sp
  BY FetchedPush
<1> HIDE DEF p
<1>3. Moved(regs) /\ regs.sp = p.sp /\ regs.pc = i.cpu.pc
  <2>1. Moved(regs)
    BY <1>2, FetchedWords, MovedRegisters
  <2>2. regs.sp = p.sp /\ regs.pc = i.cpu.pc
    BY <1>2 DEF IsFetched, Registers
  <2> QED
    BY <2>1, <2>2
<1> HIDE DEF regs
<1>4. Outcome(i, p.err, regs, p.data, BaseCycles(i.opc))
  BY <1>2, <1>3, MovedOutcome, FetchedWords
<1> QED
  BY <1>1, <1>4, Returned

(* PHA and PHP.                                                            *)
LEMMA PushStep ==
  ASSUME CpuType, NEW i, IsFetched(i), PHA(i) \/ PHP(i)
  PROVE  Step(i)
<1>1. CASE PHA(i)
  <2>1. i.cpu.a \in Byte
    BY FetchedRegisters
  <2> QED
    BY <1>1, <2>1, PushByteStep DEF PHA
<1>2. CASE PHP(i)
  <2> DEFINE v == PushedStatus(i.cpu.status)
  <2>1. v \in Byte
    <3>1. i.cpu.status \cup {FLAGS_B} \in SUBSET Bit
      BY FetchedRegisters, FlagsType
    <3> QED
      BY <3>1, BitsType DEF PushedStatus
  <2>2. LET p == nes_stack_push_u8(data, i.cpu.sp, v)
        IN  Return(i, p.err, [i.cpu EXCEPT !.sp = p.sp], p.data, BaseCycles(i.opc))
    BY <1>2 DEF PHP
  <2>3. i.name \in {"PHA", "PHP"}
    BY <1>2 DEF PHP
  <2> HIDE DEF v
  <2> QED
    BY <2>1, <2>2, <2>3, PushByteStep
<1> QED
  BY <1>1, <1>2

(* PLA.                                                                    *)
LEMMA PlaStep ==
  ASSUME CpuType, NEW i, IsFetched(i), PLA(i)
  PROVE  Step(i)
<1> DEFINE p     == nes_stack_pop_u8(cartridge, data, i.cpu.sp, i.cpu.a)
           moved == [i.cpu EXCEPT !.sp = p.sp]
           taken == [i.cpu EXCEPT !.sp = p.sp, !.a = p.result]
           regs  == SetNZ(taken, p.result)
<1>1. /\ \/ p.err = "SUCCESS" /\ Return(i, "SUCCESS", regs, data, BaseCycles(i.opc))
         \/ Return(i, p.err, moved, data, BaseCycles(i.opc))
      /\ i.name = "PLA"
  BY DEF PLA
<1>2. /\ p.sp \in Byte /\ p.result \in Byte
      /\ p.err # "SUCCESS" => p.sp = cpu.sp
  BY FetchedRegisters, FetchedPop
<1> HIDE DEF p
<1>3. taken \in Registers /\ taken.status = cpu.status
  <2> DEFINE rs == i.cpu
  <2>1. rs \in Registers /\ rs.status = cpu.status
    BY FetchedRegisters DEF IsFetched
  <2> HIDE DEF rs
  <2>2. LET t == [rs EXCEPT !.sp = p.sp, !.a = p.result]
        IN  t \in Registers /\ t.status = cpu.status
    BY <1>2, <2>1 DEF Registers
  <2> QED
    BY <2>2 DEF rs
<1> HIDE DEF taken
<1>4. regs \in Registers /\ StatusKept(cpu.status, regs.status)
  <2>1. regs \in Registers /\ regs.status = cpu.status \cup MASK_NZ(p.result)
    BY <1>3, SetNZType
  <2> HIDE DEF regs
  <2>2. StatusKept(cpu.status, regs.status)
    BY <2>1, StatusGrows
  <2> QED
    BY <2>1, <2>2
<1> HIDE DEF regs
<1>5. Moved(moved) /\ moved.sp = p.sp /\ moved.pc = i.cpu.pc
  <2>1. Moved(moved)
    BY <1>2, FetchedWords, MovedRegisters
  <2>2. moved.sp = p.sp /\ moved.pc = i.cpu.pc
    BY <1>2 DEF IsFetched, Registers
  <2> QED
    BY <2>1, <2>2
<1> HIDE DEF moved
<1>6. /\ Outcome(i, "SUCCESS", regs, data, BaseCycles(i.opc))
      /\ Outcome(i, p.err, moved, data, BaseCycles(i.opc))
  BY <1>1, <1>2, <1>4, <1>5, RegistersOutcome, MovedOutcome, FetchedWords DEF CpuType
<1> QED
  BY <1>1, <1>6, Returned

(* A pulled status keeps the live break flag.                              *)
LEMMA PulledType ==
  ASSUME NEW s \in SUBSET Bit, NEW v \in Byte
  PROVE  /\ PulledStatus(s, v) \in SUBSET Bit
         /\ FLAGS_B \in PulledStatus(s, v) => FLAGS_B \in s
<1>1. BitsOf[v] \in SUBSET Bit
  BY BitsType
<1> QED
  BY <1>1 DEF PulledStatus

(* PLP.                                                                    *)
LEMMA PlpStep ==
  ASSUME CpuType, NEW i, IsFetched(i), PLP(i)
  PROVE  Step(i)
<1> DEFINE p    == nes_stack_pop_u8(cartridge, data, i.cpu.sp, 0)
           s    == PulledStatus(i.cpu.status, p.result)
           regs == [i.cpu EXCEPT !.sp = p.sp, !.status = s]
<1>1. \/ p.err = "SUCCESS" /\ Return(i, "SUCCESS", regs, data, BaseCycles(i.opc))
      \/ Return(i, p.err, i.cpu, data, BaseCycles(i.opc))
  BY DEF PLP
<1>2. p.sp \in Byte /\ p.result \in Byte
  BY FetchedWords, PopType DEF CpuType
<1> HIDE DEF p
<1>3. s \in SUBSET Bit /\ StatusKept(cpu.status, s)
  <2>1. i.name \in {"PLP", "RTI"}
    BY DEF PLP
  <2>2. i.cpu.status = cpu.status /\ cpu.status \in SUBSET Bit
    BY FetchedRegisters
  <2> DEFINE v == p.result
  <2>3. v \in Byte
    BY <1>2
  <2> HIDE DEF v
  <2>4. /\ PulledStatus(cpu.status, v) \in SUBSET Bit
        /\ FLAGS_B \in PulledStatus(cpu.status, v) => FLAGS_B \in cpu.status
    BY <2>2, <2>3, PulledType
  <2>5. StatusKept(cpu.status, PulledStatus(cpu.status, v))
    BY <2>1, <2>4 DEF StatusKept
  <2> QED
    BY <2>1, <2>2, <2>4, <2>5 DEF v
<1> HIDE DEF s
<1>4. regs \in Registers /\ regs.status = s
  <2> DEFINE rs == i.cpu
  <2>1. rs \in Registers
    BY DEF IsFetched
  <2> HIDE DEF rs
  <2>2. LET t == [rs EXCEPT !.sp = p.sp, !.status = s]
        IN  t \in Registers /\ t.status = s
    BY <1>2, <1>3, <2>1 DEF Registers
  <2> QED
    BY <2>2 DEF rs
<1> HIDE DEF regs
<1>5. /\ Outcome(i, "SUCCESS", regs, data, BaseCycles(i.opc))
      /\ Outcome(i, p.err, i.cpu, data, BaseCycles(i.opc))
  <2>1. i.name = "PLP"
    BY DEF PLP
  <2> QED
    BY <1>3, <1>4, <2>1, RegistersOutcome, KeptOutcome
<1> QED
  BY <1>1, <1>5, Returned

(* RTI.                                                                    *)
LEMMA RtiStep ==
  ASSUME CpuType, NEW i, IsFetched(i), RTI(i)
  PROVE  Step(i)
<1> DEFINE f    == nes_stack_pop_u8(cartridge, data, i.cpu.sp, 0)
           p    == nes_stack_pop_u16(cartridge, data, f.sp, i.cpu.pc)
           s    == PulledStatus(i.cpu.status, f.result)
           regs == [i.cpu EXCEPT !.sp = p.sp, !.pc = p.result, !.status = s]
<1>1. \/ Return(i, p.err, regs, data, BaseCycles(i.opc))
      \/ Return(i, f.err, i.cpu, data, BaseCycles(i.opc))
  BY DEF RTI
<1>2. f.sp \in Byte /\ f.result \in Byte
  BY FetchedWords, PopType DEF CpuType
<1> HIDE DEF f
<1>3. /\ p.sp \in Byte /\ p.result \in Word
      /\ p.err # "SUCCESS" => p.result = i.cpu.pc
  <2> DEFINE sp == f.sp
             pc == i.cpu.pc
  <2>1. sp \in Byte /\ pc \in Word /\ IsData(data)
    BY <1>2, FetchedWords DEF CpuType
  <2> HIDE DEF sp, pc
  <2>2. LET r == nes_stack_pop_u16(cartridge, data, sp, pc)
        IN  /\ r.sp \in Byte /\ r.result \in Word
            /\ r.err # "SUCCESS" => r.result = pc
    BY <2>1, PopType
  <2> QED
    BY <2>2 DEF sp, pc
<1> HIDE DEF p
<1>4. s \in SUBSET Bit /\ StatusKept(cpu.status, s) /\ i.name = "RTI"
  <2>1. i.name \in {"PLP", "RTI"} /\ i.name = "RTI"
    BY DEF RTI
  <2>2. i.cpu.status = cpu.status /\ cpu.status \in SUBSET Bit
    BY FetchedRegisters
  <2> DEFINE v == f.result
  <2>3. v \in Byte
    BY <1>2
  <2> HIDE DEF v
  <2>4. /\ PulledStatus(cpu.status, v) \in SUBSET Bit
        /\ FLAGS_B \in PulledStatus(cpu.status, v) => FLAGS_B \in cpu.status
    BY <2>2, <2>3, PulledType
  <2>5. StatusKept(cpu.status, PulledStatus(cpu.status, v))
    BY <2>1, <2>4 DEF StatusKept
  <2> QED
    BY <2>1, <2>2, <2>4, <2>5 DEF v
<1> HIDE DEF s
<1>5. /\ regs \in Registers /\ regs.status = s /\ regs.pc = p.result
      /\ regs.a = cpu.a /\ regs.x = cpu.x /\ regs.y = cpu.y
  <2> DEFINE rs == i.cpu
  <2>1. rs \in Registers /\ rs.a = cpu.a /\ rs.x = cpu.x /\ rs.y = cpu.y
    BY FetchedRegisters DEF IsFetched
  <2> HIDE DEF rs
  <2>2. LET t == [rs EXCEPT !.sp = p.sp, !.pc = p.result, !.status = s]
        IN  /\ t \in Registers /\ t.status = s /\ t.pc = p.result
            /\ t.a = cpu.a /\ t.x = cpu.x /\ t.y = cpu.y
    BY <1>3, <1>4, <2>1 DEF Registers
  <2> QED
    BY <2>2 DEF rs
<1> HIDE DEF regs
<1>6. /\ Outcome(i, p.err, regs, data, BaseCycles(i.opc))
      /\ Outcome(i, f.err, i.cpu, data, BaseCycles(i.opc))
  <2>1. p.err # "SUCCESS" => Isolated(i, regs, data)
    BY <1>3, <1>4, <1>5 DEF Isolated
  <2>2. Outcome(i, p.err, regs, data, BaseCycles(i.opc))
    BY <1>4, <1>5, <2>1, FetchedWords DEF Outcome, CpuType
  <2> QED
    BY <1>4, <2>2, KeptOutcome
<1> QED
  BY <1>1, <1>6, Returned

(* BRK.                                                                    *)
LEMMA BrkStep ==
  ASSUME CpuType, NEW i, IsFetched(i), BRK(i)
  PROVE  Step(i)
<1> DEFINE reason  == [i.cpu EXCEPT !.brk = i.b1]
           st      == PushedStatus(i.cpu.status)
           p1      == nes_stack_push_u16(data, i.cpu.sp, i.cpu.pc)
           p2      == nes_stack_push_u16(p1.data, p1.sp, st)
           first   == [reason EXCEPT !.sp = p1.sp]
           second  == [reason EXCEPT !.sp = p2.sp]
           s       == i.cpu.status \cup {FLAGS_I}
           taken(lsb, msb) ==
             [reason EXCEPT !.sp = p2.sp, !.pc = U16(msb, lsb),
                            !.status = @ \cup {FLAGS_I}]
           cost == BaseCycles(i.opc)
<1>1. \/ Return(i, p1.err, first, p1.data, cost)
      \/ Return(i, p2.err, second, p2.data, cost)
      \/ \E lsb \in Fetch(IRQ_ADDR), msb \in Fetch(Inc16(IRQ_ADDR)) :
           Return(i, "SUCCESS", taken(lsb, msb), p2.data, cost)
  BY DEF BRK
<1>2. i.name = "BRK" /\ cost \in 0 .. 7
  BY FetchedWords DEF BRK
<1> HIDE DEF cost
<1>3. st \in Word
  <2>1. i.cpu.status \cup {FLAGS_B} \in SUBSET Bit
    BY FetchedRegisters, FlagsType
  <2>2. st \in Byte
    BY <2>1, BitsType DEF PushedStatus
  <2> QED
    BY <2>2, ByteIsWord
<1> HIDE DEF st
<1>4. p1.sp \in Byte /\ IsData(p1.data)
  BY FetchedWords, PushType DEF CpuType
<1> HIDE DEF p1
<1>5. p2.sp \in Byte /\ IsData(p2.data)
  BY <1>3, <1>4, PushType
<1> HIDE DEF p2
<1>6. /\ i.cpu \in Registers /\ i.b1 \in Byte
      /\ i.cpu.a = cpu.a /\ i.cpu.x = cpu.x /\ i.cpu.y = cpu.y
      /\ i.cpu.status = cpu.status
  BY FetchedRegisters DEF IsFetched
<1>7. s \in SUBSET Bit /\ StatusKept(cpu.status, s)
  BY <1>6, FetchedRegisters, FlagsType DEF StatusKept
<1> HIDE DEF s
<1>8. /\ reason \in Registers
      /\ reason.a = cpu.a /\ reason.x = cpu.x /\ reason.y = cpu.y
      /\ reason.status = i.cpu.status /\ reason.pc = i.cpu.pc
  <2> DEFINE rs == i.cpu
  <2>1. /\ rs \in Registers
        /\ rs.a = cpu.a /\ rs.x = cpu.x /\ rs.y = cpu.y
    BY <1>6
  <2> HIDE DEF rs
  <2>2. LET t == [rs EXCEPT !.brk = i.b1]
        IN  /\ t \in Registers /\ t.a = cpu.a /\ t.x = cpu.x /\ t.y = cpu.y
            /\ t.status = rs.status /\ t.pc = rs.pc
    BY <1>6, <2>1 DEF Registers
  <2> QED
    BY <2>2 DEF rs
<1> HIDE DEF reason
<1>9. /\ Moved(first) /\ first.pc = i.cpu.pc
      /\ Moved(second) /\ second.pc = i.cpu.pc
  BY <1>4, <1>5, <1>6, <1>8 DEF Moved, Registers
<1>10. ASSUME NEW lsb \in Fetch(IRQ_ADDR), NEW msb \in Fetch(Inc16(IRQ_ADDR))
       PROVE  taken(lsb, msb) \in Registers /\ taken(lsb, msb).status = s
  <2>1. IRQ_ADDR \in Word
    BY Widths DEF IRQ_ADDR, Word
  <2>2. Inc16(IRQ_ADDR) \in Word
    BY <2>1, CountType
  <2>3. lsb \in Byte /\ msb \in Byte
    BY <2>1, <2>2, FetchType
  <2> DEFINE pc == U16(msb, lsb)
  <2>4. pc \in Word
    BY <2>3, WordType
  <2> HIDE DEF pc
  <2>5. reason.status \cup {FLAGS_I} = s
    BY <1>8 DEF s
  <2>6. LET t == [reason EXCEPT !.sp = p2.sp, !.pc = pc, !.status = s]
        IN  t \in Registers /\ t.status = s
    BY <1>5, <1>7, <1>8, <2>4 DEF Registers
  <2> QED
    BY <2>5, <2>6 DEF pc
<1> HIDE DEF first, second, taken
<1>11. /\ Outcome(i, p1.err, first, p1.data, cost)
       /\ Outcome(i, p2.err, second, p2.data, cost)
  BY <1>2, <1>4, <1>5, <1>9, MovedOutcome
<1>12. ASSUME NEW lsb \in Fetch(IRQ_ADDR), NEW msb \in Fetch(Inc16(IRQ_ADDR))
       PROVE  Outcome(i, "SUCCESS", taken(lsb, msb), p2.data, cost)
  BY <1>2, <1>5, <1>7, <1>10 DEF Outcome
<1> QED
  BY <1>1, <1>11, <1>12, Returned

-----------------------------------------------------------------------------
(* The other instructions.                                                 *)

(* NOP and STP.                                                            *)
LEMMA IdleStep ==
  ASSUME CpuType, NEW i, IsFetched(i), NOP(i) \/ STP(i)
  PROVE  Step(i)
<1> DEFINE stopped == [i.cpu EXCEPT !.stop = TRUE]
<1>1. \/ Return(i, "SUCCESS", i.cpu, data, BaseCycles(i.opc))
      \/ Return(i, "SUCCESS", stopped, data, BaseCycles(i.opc))
  BY DEF NOP, STP, Complete
<1>2. stopped \in Registers /\ stopped.status = cpu.status
  <2> DEFINE rs == i.cpu
  <2>1. rs \in Registers /\ rs.status = cpu.status
    BY FetchedRegisters DEF IsFetched
  <2> HIDE DEF rs
  <2>2. LET t == [rs EXCEPT !.stop = TRUE]
        IN  t \in Registers /\ t.status = cpu.status
    BY <2>1 DEF Registers
  <2> QED
    BY <2>2 DEF rs
<1> HIDE DEF stopped
<1>3. StatusKept(cpu.status, stopped.status)
  BY <1>2 DEF StatusKept
<1>4. Outcome(i, "SUCCESS", stopped, data, BaseCycles(i.opc))
  BY <1>2, <1>3, RegistersOutcome
<1>5. Outcome(i, "SUCCESS", i.cpu, data, BaseCycles(i.opc))
  BY KeptOutcome
<1> QED
  BY <1>1, <1>4, <1>5, Returned

(* An opcode that no instruction has.                                      *)
LEMMA UnsupportedStep ==
  ASSUME CpuType, NEW i, IsFetched(i), UnsupportedInstruction(i)
  PROVE  Step(i)
<1>1. /\ cpu' = i.cpu /\ data' = data /\ cartridge' = cartridge
      /\ ret' = "CPU_UNSUPPORTED_INSTRUCTION" /\ cycles' = BaseCycles(i.opc)
  BY DEF UnsupportedInstruction
<1>2. cpu' \in Registers /\ IsData(data')
  BY <1>1 DEF IsFetched, CpuType
<1>3. StatusKept(cpu.status, cpu'.status) /\ Isolated(i, cpu', data')
  <2>1. i.name \notin {"JSR", "RTS"}
    BY DEF UnsupportedInstruction, Unsupported
  <2> QED
    BY <1>1, <2>1, FetchedRegisters DEF StatusKept, Isolated
<1>4. cycles' \in 0 .. 7
  BY <1>1, FetchedWords
<1> QED
  BY <1>1, <1>2, <1>3, <1>4 DEF Step

(* Every instruction, whatever its bytes are.                              *)
LEMMA ExecuteStep ==
  ASSUME CpuType, NEW i \in FetchedInstructions, Execute(i)
  PROVE  IsFetched(i) /\ Step(i)
<1>1. IsFetched(i)
  BY Fetched
<1>2. CASE Load(i) \/ Store(i) \/ Transfer(i) \/ Logical(i) \/ ADC(i) \/ SBC(i)
  BY <1>1, <1>2, LoadStep, StoreStep, TransferStep, LogicalStep, AdcStep, SbcStep
<1>3. CASE Compare(i) \/ BIT(i) \/ CountRegister(i)
  BY <1>1, <1>3, CompareStep, BitStep, CountStep
<1>4. CASE ShiftAccumulator(i) \/ ModifyMemory(i) \/ ChangeFlag(i)
  BY <1>1, <1>4, ShiftStep, ModifyStep, ChangeFlagStep
<1>5. CASE Branch(i) \/ JMP(i) \/ JMPIndirect(i) \/ JSR(i) \/ RTS(i)
  BY <1>1, <1>5, BranchStep, JumpStep, JumpIndirectStep, JsrStep, RtsStep
<1>6. CASE PHA(i) \/ PLA(i) \/ PHP(i) \/ PLP(i) \/ BRK(i) \/ RTI(i)
  BY <1>1, <1>6, PushStep, PlaStep, PlpStep, BrkStep, RtiStep
<1>7. CASE NOP(i) \/ STP(i) \/ UnsupportedInstruction(i)
  BY <1>1, <1>7, IdleStep, UnsupportedStep
<1> QED
  BY <1>1, <1>2, <1>3, <1>4, <1>5, <1>6, <1>7 DEF Execute

(* The power-up state.                                                     *)
LEMMA InitType ==
  ASSUME IsData(data), IsNrom(cartridge)
  PROVE  /\ nes_cpu_init \in Registers
         /\ nes_cpu_init.stop = FALSE /\ nes_cpu_init.status = {FLAGS_I}
<1> DEFINE pc == Read16(VECTOR_RESET, 0).result
<1>1. VECTOR_RESET \in Word /\ 0 \in Word /\ 0 \in Byte /\ BYTE - RESTART_SP \in Byte
  BY Widths DEF VECTOR_RESET, RESTART_SP, Word, Byte
<1>2. pc \in Word
  BY <1>1, Read16Type DEF Read16
<1>3. {FLAGS_I} \in SUBSET Bit
  BY FlagsType
<1>4. nes_cpu_init = [pc |-> pc, sp |-> BYTE - RESTART_SP, a |-> 0, x |-> 0, y |-> 0,
                      status |-> {FLAGS_I}, stop |-> FALSE, brk |-> 0]
  BY DEF nes_cpu_init
<1> HIDE DEF pc
<1> QED
  BY <1>1, <1>2, <1>3, <1>4 DEF Registers

(* The restart button.                                                     *)
LEMMA ResetStep ==
  ASSUME CpuType, nes_cpu_reset
  PROVE  /\ cpu' \in Registers
         /\ cpu'.status = cpu.status \cup {FLAGS_I}
         /\ cpu'.stop = cpu.stop
         /\ UNCHANGED <<data, cartridge, ret, cycles>>
<1> DEFINE pc == Read16(VECTOR_RESET, cpu.pc).result
           sp == Wrap8(cpu.sp + BYTE - RESTART_SP)
           s  == cpu.status \cup {FLAGS_I}
<1>1. /\ cpu \in Registers /\ cpu.pc \in Word /\ cpu.sp \in Byte
      /\ cpu.status \in SUBSET Bit
  BY DEF CpuType, Registers
<1>2. pc \in Word
  <2>1. VECTOR_RESET \in Word
    BY Widths DEF VECTOR_RESET, Word
  <2> QED
    BY <1>1, <2>1, ReadType
<1>3. sp \in Byte
  <2>1. cpu.sp + BYTE - RESTART_SP \in Int
    BY <1>1, Widths DEF RESTART_SP, Byte
  <2> QED
    BY <2>1, WrapType
<1>4. s \in SUBSET Bit
  BY <1>1, FlagsType
<1>5. /\ cpu' = [cpu EXCEPT !.pc = pc, !.sp = sp, !.status = s]
      /\ UNCHANGED <<data, cartridge, ret, cycles>>
  BY DEF nes_cpu_reset
<1> HIDE DEF pc, sp, s
<1> QED
  BY <1>1, <1>2, <1>3, <1>4, <1>5 DEF Registers, s

-----------------------------------------------------------------------------
(* Where an instruction is and what it pushes.                             *)

(* A sum may be truncated before the last term is added.                   *)
LEMMA WrapSum ==
  ASSUME NEW n \in Int, NEW k \in Int
  PROVE  Wrap16(Wrap16(n) + k) = Wrap16(n + k)
<1> DEFINE q == n \div WORD
           r == n % WORD
<1>1. WORD \in Nat \ {0}
  BY Widths
<1>2. q \in Int /\ r \in Int /\ n = q * WORD + r
  BY <1>1, DivMod, ModRange
<1> HIDE DEF q, r
<1>3. n + k = (r + k) + q * WORD /\ r + k \in Int
  BY <1>1, <1>2
<1>4. ((r + k) + q * WORD) % WORD = (r + k) % WORD
  BY <1>1, <1>2, <1>3, ModShift
<1> QED
  BY <1>3, <1>4 DEF Wrap16, r

(* Counting a word is adding one.                                          *)
LEMMA CountIsSum == \A w \in Word : Inc16(w) = Wrap16(w + 1)
<1> SUFFICES ASSUME NEW w \in Word
             PROVE  Inc16(w) = Wrap16(w + 1)
  OBVIOUS
<1>1. WORD \in Nat \ {0} /\ w \in Nat /\ w < WORD
  BY Widths DEF Word
<1>2. CASE w = WORD - 1
  <2>1. (1 * WORD + 0) % WORD = 0
    BY <1>1, DivModUnique
  <2> QED
    BY <1>1, <1>2, <2>1 DEF Inc16, Wrap16
<1>3. CASE w # WORD - 1
  <2>1. (0 * WORD + (w + 1)) % WORD = w + 1
    BY <1>1, <1>3, DivModUnique
  <2> QED
    BY <1>1, <1>3, <2>1 DEF Inc16, Wrap16
<1> QED
  BY <1>2, <1>3

(* The program counter after the fetches.                                  *)
LEMMA FetchedPlace ==
  ASSUME CpuType, NEW i \in FetchedInstructions
  PROVE  /\ i.name = "JSR" => i.cpu.pc = Wrap16(cpu.pc + 3)
         /\ i.name = "BRK" => i.cpu.pc = Wrap16(cpu.pc + 2)
<1> DEFINE next(n) == Wrap16(cpu.pc + n)
<1>1. PICK opc \in Fetch(cpu.pc), b1 \in Fetch(next(1)), b2 \in Fetch(next(2)) :
        i = [name |-> Decode[opc][1], mode |-> Decode[opc][2], opc |-> opc,
             b1 |-> b1, b2 |-> b2,
             cpu |-> [cpu EXCEPT !.pc = next(Length[Decode[opc][2]])]]
  BY DEF FetchedInstructions
<1>2. opc \in Byte
  <2>1. cpu.pc \in Word
    BY DEF CpuType, Registers
  <2> QED
    BY <2>1, FetchType
<1> DEFINE mode == Decode[opc][2]
<1> HIDE DEF next
<1>3. i.name = Decode[opc][1] /\ i.cpu.pc = next(Length[mode])
  BY <1>1 DEF CpuType, Registers
<1>4. i.name \in {"JSR", "BRK"} => mode \in DOMAIN Opcode[i.name]
  <2>1. Decode[opc] = Unsupported => i.name \notin {"JSR", "BRK"}
    BY <1>3 DEF Unsupported
  <2> QED
    BY <1>2, <1>3, <2>1, Decoded
<1> HIDE DEF mode
<1>5. DOMAIN Opcode["JSR"] = {"AB"} /\ DOMAIN Opcode["BRK"] = {"IM"}
  BY DEF Opcode
<1>6. Length["AB"] = 3 /\ Length["IM"] = 2
  BY DEF Length
<1> QED
  BY <1>3, <1>4, <1>5, <1>6 DEF next

(* The instructions by their names.                                        *)
LEMMA Dispatch ==
  ASSUME NEW i, Execute(i)
  PROVE  /\ i.name = "JSR" => JSR(i)
         /\ i.name = "RTS" => RTS(i)
         /\ i.name = "PHA" => PHA(i)
         /\ i.name = "PHP" => PHP(i)
         /\ i.name = "BRK" => BRK(i)
         /\ i.name \in Stores => Store(i)
         /\ i.name \in Modifies /\ i.mode # "ACC" => ModifyMemory(i)
         /\ \/ i.name \in {"JSR", "PHA", "PHP", "BRK"} \cup Stores \cup Modifies
            \/ data' = data
<1> DEFINE Own == {"JSR", "RTS", "PHA", "PHP", "BRK"}
<1>1. ASSUME Load(i) \/ Transfer(i) \/ Logical(i) \/ ADC(i) \/ SBC(i)
      PROVE  i.name \notin Own \cup Stores \cup Modifies /\ data' = data
  BY <1>1 DEF Load, LoadTarget, Transfer, TransferRegs, Logical, ADC, SBC,
              Operate, Complete, Return, Stores, Modifies
<1>2. ASSUME Compare(i) \/ BIT(i) \/ CountRegister(i) \/ ChangeFlag(i)
      PROVE  i.name \notin Own \cup Stores \cup Modifies /\ data' = data
  BY <1>2 DEF Compare, CompareSource, BIT, CountRegister, Counted, ChangeFlag,
              FlagOf, Operate, Complete, Return, Stores, Modifies
<1>3. ASSUME Branch(i) \/ JMP(i) \/ JMPIndirect(i) \/ PLA(i) \/ PLP(i)
      PROVE  i.name \notin Own \cup Stores \cup Modifies /\ data' = data
  BY <1>3 DEF Branch, BranchTest, JMP, JMPIndirect, PLA, PLP,
              Complete, Return, Stores, Modifies
<1>4. ASSUME RTI(i) \/ NOP(i) \/ STP(i) \/ UnsupportedInstruction(i)
      PROVE  i.name \notin Own \cup Stores \cup Modifies /\ data' = data
  BY <1>4 DEF RTI, NOP, STP, UnsupportedInstruction, Unsupported,
              Complete, Return, Stores, Modifies
<1>5. ASSUME ShiftAccumulator(i)
      PROVE  /\ i.name \notin Own \cup Stores /\ i.name \in Modifies
             /\ i.mode = "ACC"
  BY <1>5 DEF ShiftAccumulator, ShiftNames, Stores, Modifies
<1>6. ASSUME ModifyMemory(i)
      PROVE  i.name \notin Own \cup Stores /\ i.name \in Modifies
  BY <1>6 DEF ModifyMemory, ShiftNames, Stores, Modifies
<1>7. ASSUME Store(i)
      PROVE  i.name \in Stores /\ i.name \notin Own \cup Modifies
  BY <1>7 DEF Store, StoreSource, Stores, Modifies
<1>8. ASSUME RTS(i)
      PROVE  data' = data
  BY <1>8 DEF RTS, Return
<1>9. /\ JSR(i) => i.name = "JSR"
      /\ RTS(i) => i.name = "RTS"
      /\ PHA(i) => i.name = "PHA"
      /\ PHP(i) => i.name = "PHP"
      /\ BRK(i) => i.name = "BRK"
  BY DEF JSR, RTS, PHA, PHP, BRK
<1>10. Own \cap (Stores \cup Modifies) = {}
  BY DEF Stores, Modifies
<1>11. \/ i.name \notin Own \cup Stores \cup Modifies /\ data' = data
       \/ ShiftAccumulator(i) \/ ModifyMemory(i) \/ Store(i)
       \/ JSR(i) \/ RTS(i) \/ PHA(i) \/ PHP(i) \/ BRK(i)
  BY <1>1, <1>2, <1>3, <1>4 DEF Execute
<1>12. CASE i.name \notin Own \cup Stores \cup Modifies /\ data' = data
  BY <1>12
<1>13. CASE ShiftAccumulator(i) \/ ModifyMemory(i) \/ Store(i)
  BY <1>5, <1>6, <1>7, <1>13
<1>14. CASE JSR(i) \/ RTS(i) \/ PHA(i) \/ PHP(i) \/ BRK(i)
  BY <1>8, <1>9, <1>10, <1>14
<1> QED
  BY <1>11, <1>12, <1>13, <1>14

(* The opcodes of no instruction have a handler of their own.              *)
LEMMA OwnHandler ==
  ASSUME NEW i, Execute(i)
  PROVE  i.name = Unsupported[1] <=> UnsupportedInstruction(i)
<1> DEFINE Other == i.name # Unsupported[1]
<1>1. Load(i) \/ Store(i) \/ Transfer(i) \/ Logical(i) => Other
  BY DEF Load, LoadTarget, Store, StoreSource, Transfer, TransferRegs, Logical,
         Unsupported
<1>2. ADC(i) \/ SBC(i) \/ Compare(i) \/ BIT(i) \/ CountRegister(i) => Other
  BY DEF ADC, SBC, Compare, CompareSource, BIT, CountRegister, Counted, Unsupported
<1>3. ShiftAccumulator(i) \/ ModifyMemory(i) \/ ChangeFlag(i) \/ Branch(i) => Other
  BY DEF ShiftAccumulator, ModifyMemory, ShiftNames, ChangeFlag, FlagOf, Branch,
         BranchTest, Unsupported
<1>4. JMP(i) \/ JMPIndirect(i) \/ JSR(i) \/ RTS(i) \/ PHA(i) \/ PLA(i) => Other
  BY DEF JMP, JMPIndirect, JSR, RTS, PHA, PLA, Unsupported
<1>5. PHP(i) \/ PLP(i) \/ BRK(i) \/ RTI(i) \/ NOP(i) \/ STP(i) => Other
  BY DEF PHP, PLP, BRK, RTI, NOP, STP, Unsupported
<1>6. UnsupportedInstruction(i) => ~ Other
  BY DEF UnsupportedInstruction, Unsupported
<1> HIDE DEF Other
<1>7. UnsupportedInstruction(i) <=> ~ Other
  BY <1>1, <1>2, <1>3, <1>4, <1>5, <1>6 DEF Execute
<1> QED
  BY <1>7 DEF Other

(* A byte that is pushed leaves what is above the stack pointer alone.     *)
LEMMA PushByteKeeps ==
  ASSUME NEW d, NEW p \in Byte, NEW v \in Byte, NEW c \in Nat, p < c
  PROVE  Peek(nes_stack_push_u8(d, p, v).data, c) = Peek(d, c)
<1>1. CASE p = 0
  BY <1>1 DEF nes_stack_push_u8
<1>2. CASE p # 0
  <2>1. c # p
    BY DEF Byte
  <2> QED
    BY <1>2, <2>1, PushByte, PeekPoke
<1> QED
  BY <1>1, <1>2

(* So does a word, and it is found where it was pushed.                    *)
LEMMA PushWordKeeps ==
  ASSUME NEW d, NEW p \in Byte, NEW w \in Word
  PROVE  LET r == nes_stack_push_u16(d, p, w)
         IN  /\ \A c \in Nat : p < c => Peek(r.data, c) = Peek(d, c)
             /\ r.err = "SUCCESS" =>
                  /\ p # 0
                  /\ U16(Peek(r.data, p), Peek(r.data, p - 1)) = w
                  /\ r.sp = IF p = 1 THEN STACK_SIZE ELSE p - 2
             /\ r.err # "SUCCESS" => r.sp = p
<1>1. CASE p = 0
  BY <1>1 DEF nes_stack_push_u16
<1>2. CASE p # 0
  <2> DEFINE msb == Msb(w)
             lsb == Lsb(w)
             stored == Poke(Poke(d, p - 1, lsb), p, msb)
  <2>1. msb \in Byte /\ lsb \in Byte /\ w = U16(msb, lsb)
    <3>1. w \in Int /\ BYTE \in Nat \ {0}
      BY Widths DEF Word
    <3>2. w = (w \div BYTE) * BYTE + (w % BYTE)
      BY <3>1, DivMod
    <3> QED
      BY <3>2, HalvesOfWord DEF Msb, Lsb, U16
  <2> HIDE DEF msb, lsb
  <2>2. /\ \A c \in Nat : p < c => Peek(stored, c) = Peek(d, c)
        /\ Peek(stored, p) = msb /\ Peek(stored, p - 1) = lsb
    <3>1. p \in Nat /\ p # p - 1 /\ (\A c \in Nat : p < c => c # p /\ c # p - 1)
      BY DEF Byte
    <3> QED
      BY <3>1, PeekPoke
  <2> HIDE DEF stored
  <2>3. nes_stack_push_u16(d, p, w)
          = [err |-> "SUCCESS", data |-> stored,
             sp  |-> IF p = 1 THEN STACK_SIZE ELSE p - 2]
    BY <1>2, <2>1, PushWord DEF stored
  <2> QED
    BY <1>2, <2>1, <2>2, <2>3
<1> QED
  BY <1>1, <1>2

(* A call or an interrupt pushes its return address, and nothing that an   *)
(* instruction pushes lands above the stack pointer that it found, unless  *)
(* an interrupt's first word wraps it.                                     *)
LEMMA Pushed ==
  ASSUME CpuType, NEW i \in FetchedInstructions, Execute(i),
         i.name \in {"JSR", "PHA", "PHP", "BRK"},
         i.name = "BRK" => cpu.sp # 1
  PROVE  /\ \A c \in Nat : cpu.sp < c => Peek(data', c) = Peek(data, c)
         /\ (/\ ret' = "SUCCESS" /\ i.name \in {"JSR", "BRK"}
             /\ i.name = "JSR" => cpu.sp # 1
             /\ i.name = "BRK" => cpu.sp # 3) =>
              /\ 2 <= cpu.sp /\ cpu'.sp <= cpu.sp - 2
              /\ U16(Peek(data', cpu.sp), Peek(data', cpu.sp - 1))
                   = Wrap16(cpu.pc + 2)
<1> DEFINE New(sp) ==
             /\ 2 <= cpu.sp /\ cpu'.sp <= cpu.sp - 2
             /\ U16(Peek(data', cpu.sp), Peek(data', cpu.sp - 1))
                  = Wrap16(cpu.pc + 2)
           Above == \A c \in Nat : cpu.sp < c => Peek(data', c) = Peek(data, c)
<1>1. /\ IsFetched(i) /\ IsData(data)
      /\ i.cpu.sp = cpu.sp /\ cpu.sp \in Byte /\ cpu.sp \in Nat
      /\ cpu.pc \in Int
  <2>1. IsFetched(i)
    BY Fetched
  <2> QED
    BY <2>1, FetchedRegisters DEF CpuType, Registers, Byte, Word
<1>2. CASE i.name \in {"PHA", "PHP"}
  <2>1. PICK v \in Byte : data' = nes_stack_push_u8(data, cpu.sp, v).data
    <3>1. i.cpu.a \in Byte /\ PushedStatus(i.cpu.status) \in Byte
      <4>1. i.cpu.status \cup {FLAGS_B} \in SUBSET Bit /\ i.cpu.a \in Byte
        BY <1>1, FetchedRegisters, FlagsType
      <4> QED
        BY <4>1, BitsType DEF PushedStatus
    <3>2. PHA(i) => data' = nes_stack_push_u8(data, cpu.sp, i.cpu.a).data
      BY <1>1 DEF PHA, Return
    <3>3. PHP(i) => data' = nes_stack_push_u8(data, cpu.sp,
                                               PushedStatus(i.cpu.status)).data
      BY <1>1 DEF PHP, Return
    <3> QED
      BY <1>2, <3>1, <3>2, <3>3, Dispatch
  <2> QED
    BY <1>1, <1>2, <2>1, PushByteKeeps
<1>3. CASE i.name = "JSR"
  <2> DEFINE w == Wrap16(i.cpu.pc - 1)
             p == nes_stack_push_u16(data, cpu.sp, w)
  <2>1. w = Wrap16(cpu.pc + 2) /\ w \in Word
    <3>1. i.cpu.pc = Wrap16(cpu.pc + 3)
      BY <1>3, FetchedPlace
    <3>2. cpu.pc + 3 \in Int /\ -1 \in Int /\ (cpu.pc + 3) + (-1) = cpu.pc + 2
      BY <1>1
    <3>3. Wrap16(Wrap16(cpu.pc + 3) + (-1)) = Wrap16((cpu.pc + 3) + (-1))
      BY <3>2, WrapSum
    <3>4. i.cpu.pc + (-1) = i.cpu.pc - 1
      BY <1>1, FetchedRegisters DEF Word
    <3> QED
      BY <1>1, <3>1, <3>2, <3>3, <3>4, FetchedWords
  <2>2. /\ data' = p.data /\ ret' = p.err
        /\ p.err = "SUCCESS" => cpu'.sp = p.sp
    <3>1. JSR(i)
      BY <1>3, Dispatch
    <3>2. [i.cpu EXCEPT !.sp = p.sp, !.pc = U16(i.b2, i.b1)].sp = p.sp
      BY <1>1 DEF IsFetched, Registers
    <3> QED
      BY <1>1, <3>1, <3>2 DEF JSR, Return
  <2> HIDE DEF w
  <2>3. /\ \A c \in Nat : cpu.sp < c => Peek(p.data, c) = Peek(data, c)
        /\ p.err = "SUCCESS" =>
             /\ cpu.sp # 0
             /\ U16(Peek(p.data, cpu.sp), Peek(p.data, cpu.sp - 1)) = w
             /\ p.sp = IF cpu.sp = 1 THEN STACK_SIZE ELSE cpu.sp - 2
    <3> DEFINE sp == cpu.sp
    <3>1. sp \in Byte /\ w \in Word
      BY <1>1, <2>1
    <3> HIDE DEF sp
    <3>2. LET r == nes_stack_push_u16(data, sp, w)
          IN  /\ \A c \in Nat : sp < c => Peek(r.data, c) = Peek(data, c)
              /\ r.err = "SUCCESS" =>
                   /\ sp # 0
                   /\ U16(Peek(r.data, sp), Peek(r.data, sp - 1)) = w
                   /\ r.sp = IF sp = 1 THEN STACK_SIZE ELSE sp - 2
              /\ r.err # "SUCCESS" => r.sp = sp
      BY <3>1, PushWordKeeps
    <3> QED
      BY <3>2 DEF sp
  <2> HIDE DEF p
  <2> QED
    BY <1>1, <1>3, <2>1, <2>2, <2>3
<1>4. CASE i.name = "BRK"
  <2> DEFINE w  == i.cpu.pc
             st == PushedStatus(i.cpu.status)
             p1 == nes_stack_push_u16(data, cpu.sp, w)
             p2 == nes_stack_push_u16(p1.data, p1.sp, st)
  <2>1. w = Wrap16(cpu.pc + 2) /\ w \in Word /\ st \in Word
    <3>1. i.cpu.status \cup {FLAGS_B} \in SUBSET Bit
      BY <1>1, FetchedRegisters, FlagsType
    <3>2. st \in Byte
      BY <3>1, BitsType DEF PushedStatus
    <3> QED
      BY <1>1, <1>4, <3>2, FetchedPlace, FetchedWords, ByteIsWord
  <2>2. \/ p1.err # "SUCCESS" /\ ret' # "SUCCESS" /\ data' = p1.data
        \/ p1.err = "SUCCESS" /\ ret' # "SUCCESS" /\ data' = p2.data
        \/ /\ p1.err = "SUCCESS" /\ p2.err = "SUCCESS"
           /\ data' = p2.data /\ cpu'.sp = p2.sp
    <3> DEFINE q1 == nes_stack_push_u16(data, i.cpu.sp, i.cpu.pc)
               q2 == nes_stack_push_u16(q1.data, q1.sp, PushedStatus(i.cpu.status))
               reason == [i.cpu EXCEPT !.brk = i.b1]
               taken(lsb, msb) ==
                 [reason EXCEPT !.sp = q2.sp, !.pc = U16(msb, lsb),
                                !.status = @ \cup {FLAGS_I}]
               cost == BaseCycles(i.opc)
    <3>1. q1 = p1 /\ q2 = p2
      BY <1>1
    <3>2. \/ /\ q1.err # "SUCCESS"
             /\ Return(i, q1.err, [reason EXCEPT !.sp = q1.sp], q1.data, cost)
          \/ /\ q1.err = "SUCCESS" /\ q2.err # "SUCCESS"
             /\ Return(i, q2.err, [reason EXCEPT !.sp = q2.sp], q2.data, cost)
          \/ /\ q1.err = "SUCCESS" /\ q2.err = "SUCCESS"
             /\ \E lsb \in Fetch(IRQ_ADDR), msb \in Fetch(Inc16(IRQ_ADDR)) :
                  Return(i, "SUCCESS", taken(lsb, msb), q2.data, cost)
      <4>1. BRK(i)
        BY <1>4, Dispatch
      <4> QED
        BY <4>1 DEF BRK
    <3>3. \A lsb, msb : taken(lsb, msb).sp = q2.sp
      <4>1. i.cpu \in Registers
        BY <1>1 DEF IsFetched
      <4> QED
        BY <4>1 DEF Registers
    <3> HIDE DEF q1, q2, reason, taken, cost, p1, p2
    <3> QED
      BY <3>1, <3>2, <3>3 DEF Return
  <2> HIDE DEF w, st
  <2>3. /\ \A c \in Nat : cpu.sp < c => Peek(p1.data, c) = Peek(data, c)
        /\ p1.err = "SUCCESS" =>
             /\ cpu.sp # 0
             /\ U16(Peek(p1.data, cpu.sp), Peek(p1.data, cpu.sp - 1)) = w
             /\ p1.sp = cpu.sp - 2
        /\ p1.err # "SUCCESS" => p1.sp = cpu.sp
    <3> DEFINE sp == cpu.sp
    <3>1. sp \in Byte /\ w \in Word
      BY <1>1, <2>1
    <3> HIDE DEF sp
    <3>2. LET r == nes_stack_push_u16(data, sp, w)
          IN  /\ \A c \in Nat : sp < c => Peek(r.data, c) = Peek(data, c)
              /\ r.err = "SUCCESS" =>
                   /\ sp # 0
                   /\ U16(Peek(r.data, sp), Peek(r.data, sp - 1)) = w
                   /\ r.sp = IF sp = 1 THEN STACK_SIZE ELSE sp - 2
              /\ r.err # "SUCCESS" => r.sp = sp
      BY <3>1, PushWordKeeps
    <3> QED
      BY <1>4, <3>2 DEF sp
  <2>4. p1.sp \in Byte
    BY <1>1, <2>1, PushType
  <2> HIDE DEF p1
  <2>5. /\ \A c \in Nat : p1.sp < c => Peek(p2.data, c) = Peek(p1.data, c)
        /\ p2.err = "SUCCESS" =>
             /\ p1.sp # 0
             /\ p2.sp = IF p1.sp = 1 THEN STACK_SIZE ELSE p1.sp - 2
    BY <2>1, <2>4, PushWordKeeps
  <2> HIDE DEF p2
  <2>6. p1.sp <= cpu.sp /\ p1.sp \in Nat /\ (p1.err = "SUCCESS" => cpu.sp >= 2)
    BY <1>1, <1>4, <2>3, <2>4 DEF Byte
  <2>7. Above
    BY <1>1, <2>2, <2>3, <2>5, <2>6
  <2>8. ASSUME p1.err = "SUCCESS", p2.err = "SUCCESS", cpu.sp # 3,
               data' = p2.data, cpu'.sp = p2.sp
        PROVE  New(cpu.sp)
    <3>1. cpu.sp - 1 \in Nat /\ p1.sp < cpu.sp - 1 /\ p1.sp < cpu.sp
      BY <1>1, <2>3, <2>6, <2>8
    <3>2. /\ Peek(data', cpu.sp) = Peek(p1.data, cpu.sp)
          /\ Peek(data', cpu.sp - 1) = Peek(p1.data, cpu.sp - 1)
      BY <1>1, <2>5, <2>8, <3>1
    <3>3. p1.sp # 1 /\ p1.sp # 0 /\ p2.sp = p1.sp - 2 /\ p1.sp = cpu.sp - 2
      BY <1>1, <2>3, <2>5, <2>8
    <3>4. 2 <= cpu.sp /\ cpu'.sp <= cpu.sp - 2
      BY <1>1, <2>6, <2>8, <3>3
    <3> QED
      BY <2>1, <2>3, <2>8, <3>2, <3>4
  <2> QED
    BY <1>4, <2>2, <2>7, <2>8
<1> QED
  BY <1>2, <1>3, <1>4
=============================================================================

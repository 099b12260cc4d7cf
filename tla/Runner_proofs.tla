----------------------------- MODULE Runner_proofs -----------------------------
(***************************************************************************)
(* A processor under a host that runs any program and restarts it between  *)
(* any two instructions: the state keeps its types, a failing call has no  *)
(* effect but those of Isolated and stops the processor, the break flag is *)
(* never live, a store that succeeds is read back, and a call returns      *)
(* behind itself as long as its frame is in progress.                      *)
(***************************************************************************)
EXTENDS Runner, Cpu_proofs

(* A call or an interrupt in progress lies above the stack pointer.        *)
FramesPlaced ==
  \A f \in frames : f.site \in Word /\ f.sp \in Byte /\ cpu.sp <= f.sp - 2

(* The inductive invariant.  FramesIntact needs FramesPlaced: what is      *)
(* pushed lands at the stack pointer or below it.                          *)
IInv == TypeOK /\ BreakFlagNeverLive /\ FramesPlaced /\ FramesIntact

(* The type invariant is what the lemmas about an instruction assume.      *)
LEMMA TypesAreTypes ==
  TypeOK <=> /\ CpuType
             /\ cycles \in 0 .. 9
             /\ resets \in 0 .. MaxResets
             /\ steps \in 0 .. MaxSteps
BY DEF TypeOK, CpuType, Registers

(* The host's start.                                                       *)
LEMMA InitIInv == Init => IInv
<1> SUFFICES ASSUME Init PROVE IInv
  OBVIOUS
<1>1. IsData(data) /\ IsNrom(cartridge)
  BY ZeroArrayType, RunnerAssumption DEF Init, nes_mem_init, IsData
<1>2. nes_cpu_init \in Registers /\ nes_cpu_init.status = {FLAGS_I}
  BY <1>1, InitType
<1>3. cpu \in Registers /\ cpu.status = {FLAGS_I}
  <2>1. cpu = [nes_cpu_init EXCEPT !.pc = START_PC] /\ START_PC \in Word
    BY RunnerAssumption DEF Init
  <2> QED
    BY <1>2, <2>1 DEF Registers
<1>4. TypeOK
  BY <1>1, <1>3, RunnerAssumption, TypesAreTypes DEF Init, CpuType
<1>5. BreakFlagNeverLive
  BY <1>3, FlagsType DEF BreakFlagNeverLive
<1> QED
  BY <1>4, <1>5 DEF Init, IInv, FramesPlaced, FramesIntact

(* What one call of nes_cpu_next does.                                     *)
LEMMA RunStep ==
  ASSUME TypeOK, RunNext
  PROVE  \E i \in FetchedInstructions :
           /\ Execute(i) /\ IsFetched(i) /\ Step(i)
           /\ frames' = FramesAfter(i)
<1>1. CpuType
  BY TypesAreTypes
<1>2. PICK i \in FetchedInstructions : Execute(i) /\ frames' = FramesAfter(i)
  BY DEF RunNext
<1> QED
  BY <1>1, <1>2, ExecuteStep

(* It keeps the types and the break flag.                                  *)
LEMMA RunTypeOK ==
  ASSUME TypeOK, BreakFlagNeverLive, RunNext
  PROVE  TypeOK' /\ BreakFlagNeverLive'
<1>1. PICK i \in FetchedInstructions : Step(i)
  BY RunStep
<1>2. CpuType' /\ cycles' \in 0 .. 9
  <2>1. cycles' \in 0 .. 7 => cycles' \in 0 .. 9
    OBVIOUS
  <2> QED
    BY <1>1, <2>1, TypesAreTypes DEF Step, CpuType, IsData, IsArray, IsNrom
<1>3. steps' \in 0 .. MaxSteps /\ resets' \in 0 .. MaxResets
  BY RunnerAssumption DEF RunNext, TypeOK
<1>4. TypeOK'
  BY <1>2, <1>3 DEF TypeOK, CpuType, Registers
<1>5. BreakFlagNeverLive'
  BY <1>1 DEF Step, StatusKept, BreakFlagNeverLive
<1> QED
  BY <1>4, <1>5

(* So does the restart button.                                             *)
LEMMA RestartTypeOK ==
  ASSUME TypeOK, BreakFlagNeverLive, Restart
  PROVE  TypeOK' /\ BreakFlagNeverLive'
<1>1. /\ cpu' \in Registers
      /\ cpu'.status = cpu.status \cup {FLAGS_I}
      /\ UNCHANGED <<data, cartridge, ret, cycles>>
  BY TypesAreTypes, ResetStep DEF Restart
<1>2. resets' \in 0 .. MaxResets /\ steps' \in 0 .. MaxSteps
  BY RunnerAssumption DEF Restart, TypeOK
<1>3. TypeOK'
  BY <1>1, <1>2 DEF TypeOK, Registers, IsData, IsArray, IsNrom
<1>4. BreakFlagNeverLive'
  BY <1>1, FlagsType DEF BreakFlagNeverLive
<1> QED
  BY <1>3, <1>4

-----------------------------------------------------------------------------
(* Calls and interrupts in progress.                                       *)

(* An instruction that is not one of the program's stores leaves the cells *)
(* of every frame that stays in progress alone.                            *)
LEMMA FrameKept ==
  ASSUME TypeOK, FramesPlaced, NEW i \in FetchedInstructions, Execute(i),
         NEW f \in frames, ~ Wraps(i),
         ~ (i.name \in StoreNames /\ Changed(FrameCells(f)))
  PROVE  /\ Peek(data', f.sp) = Peek(data, f.sp)
         /\ Peek(data', f.sp - 1) = Peek(data, f.sp - 1)
<1>1. /\ f.sp \in Nat /\ cpu.sp \in Nat /\ f.sp - 1 \in Nat
      /\ cpu.sp < f.sp - 1 /\ cpu.sp < f.sp
  BY TypesAreTypes DEF FramesPlaced, CpuType, Registers, Byte
<1>2. CASE i.name \in {"JSR", "PHA", "PHP", "BRK"}
  <2>1. i.name = "BRK" => cpu.sp # 1
    BY DEF Wraps
  <2>2. \A c \in Nat : cpu.sp < c => Peek(data', c) = Peek(data, c)
    BY <1>2, <2>1, Pushed, TypesAreTypes
  <2> QED
    BY <1>1, <2>2
<1>3. CASE i.name \in Stores \cup Modifies
  <2>1. i.name \in StoreNames
    BY <1>3 DEF StoreNames, StoreSource, ShiftNames, Stores, Modifies
  <2> QED
    BY <2>1 DEF Changed, FrameCells
<1>4. CASE data' = data
  BY <1>4
<1> QED
  BY <1>2, <1>3, <1>4, Dispatch

(* One call of nes_cpu_next.                                               *)
LEMMA RunFrames ==
  ASSUME IInv, RunNext
  PROVE  FramesPlaced' /\ FramesIntact'
<1>1. TypeOK /\ FramesPlaced /\ FramesIntact /\ CpuType
  BY TypesAreTypes DEF IInv
<1>2. PICK i \in FetchedInstructions : Execute(i) /\ frames' = FramesAfter(i)
  BY <1>1, RunStep
<1>3. cpu.pc \in Word /\ cpu.sp \in Byte
  BY <1>1 DEF CpuType, Registers
<1> DEFINE Goal(f) == /\ f.site \in Word /\ f.sp \in Byte /\ cpu'.sp <= f.sp - 2
                      /\ U16(Peek(data', f.sp), Peek(data', f.sp - 1))
                           = Wrap16(f.site + 2)
<1>4. ASSUME NEW f \in frames, ~ Wraps(i), cpu'.sp <= f.sp - 2,
             ~ (i.name \in StoreNames /\ Changed(FrameCells(f)))
      PROVE  Goal(f)
  BY <1>1, <1>2, <1>4, FrameKept DEF FramesPlaced, FramesIntact
<1>5. ASSUME i.name \in {"JSR", "BRK"}, ret' = "SUCCESS", ~ Wraps(i),
             NEW f, f.site = cpu.pc, f.sp = cpu.sp
      PROVE  Goal(f)
  <2>1. /\ i.name = "JSR" => cpu.sp # 1
        /\ i.name = "BRK" => cpu.sp # 1 /\ cpu.sp # 3
    BY <1>5 DEF Wraps
  <2>2. /\ cpu'.sp <= cpu.sp - 2
        /\ U16(Peek(data', cpu.sp), Peek(data', cpu.sp - 1)) = Wrap16(cpu.pc + 2)
    BY <1>1, <1>2, <1>5, <2>1, Pushed
  <2> QED
    BY <1>3, <1>5, <2>2
<1>6. ASSUME NEW f \in frames'
      PROVE  Goal(f)
  <2> DEFINE new == [by |-> i.name, site |-> cpu.pc, sp |-> cpu.sp]
  <2>1. \/ /\ f \in frames /\ ~ Wraps(i) /\ cpu'.sp <= f.sp - 2
           /\ ~ (i.name \in StoreNames /\ Changed(FrameCells(f)))
        \/ /\ f = new /\ i.name \in {"JSR", "BRK"}
           /\ ret' = "SUCCESS" /\ ~ Wraps(i)
    BY <1>2, <1>6 DEF FramesAfter
  <2>2. new.site = cpu.pc /\ new.sp = cpu.sp
    OBVIOUS
  <2> HIDE DEF new, Goal
  <2> QED
    BY <1>4, <1>5, <2>1, <2>2
<1> QED
  BY <1>6 DEF FramesPlaced, FramesIntact

(* A restart moves the stack pointer under them.                           *)
LEMMA RestartFrames ==
  ASSUME IInv, Restart
  PROVE  FramesPlaced' /\ FramesIntact'
BY DEF IInv, Restart, nes_cpu_reset, FramesPlaced, FramesIntact

(* Every step keeps the invariant.                                         *)
LEMMA NextIInv == IInv /\ [Next]_vars => IInv'
<1> SUFFICES ASSUME IInv, [Next]_vars PROVE IInv'
  OBVIOUS
<1>1. CASE RunNext
  BY <1>1, RunTypeOK, RunFrames DEF IInv
<1>2. CASE Restart
  BY <1>2, RestartTypeOK, RestartFrames DEF IInv
<1>3. CASE UNCHANGED vars
  BY <1>3 DEF vars, cpuVars, IInv, TypeOK, BreakFlagNeverLive, FramesPlaced,
              FramesIntact, IsData, IsArray, IsNrom
<1> QED
  BY <1>1, <1>2, <1>3 DEF Next

(* The invariant holds in every reachable state.                           *)
LEMMA SpecIInv == Spec => []IInv
BY InitIInv, NextIInv, PTL DEF Spec

(* Whatever the program does, and wherever it is restarted, the registers  *)
(* stay within their widths, memory within its array and the cycles of a   *)
(* call within nine.                                                       *)
THEOREM TypeCorrect == Spec => []TypeOK
<1>1. IInv => TypeOK
  BY DEF IInv
<1> QED
  BY <1>1, SpecIInv, PTL

(* The break flag is in the bytes that PHP and BRK push and never in the   *)
(* status register: a pull masks it, and no handler sets it.               *)
THEOREM BreakFlagStaysDead == Spec => []BreakFlagNeverLive
<1>1. IInv => BreakFlagNeverLive
  BY DEF IInv
<1> QED
  BY <1>1, SpecIInv, PTL

(* The return address of a call or an interrupt in progress is on the      *)
(* stack, whatever has been pushed, called, pulled or restarted since.     *)
THEOREM FramesStayIntact == Spec => []FramesIntact
<1>1. IInv => FramesIntact
  BY DEF IInv
<1> QED
  BY <1>1, SpecIInv, PTL

-----------------------------------------------------------------------------
(* Action properties.                                                      *)

(* A step that counts as a call is a call of nes_cpu_next on a processor   *)
(* that runs, and executes one of the instructions that may be fetched.    *)
LEMMA CallStep ==
  ASSUME TypeOK, [Next]_vars, IsCall
  PROVE  /\ Running
         /\ \E i \in FetchedInstructions : Execute(i) /\ IsFetched(i) /\ Step(i)
<1>1. ~ Restart /\ ~ UNCHANGED vars
  BY DEF IsCall, Restart, vars
<1> QED
  BY <1>1, RunStep DEF Next, RunNext

(* A call that fails leaves the registers, the stack pointer and memory as *)
(* they were, but for what a BRK has pushed and an RTI has pulled by then, *)
(* and the program counter behind the instruction, but for JSR and RTS.    *)
THEOREM FailuresAreIsolated == Spec => FailureIsolation
<1>1. TypeOK /\ [Next]_vars => [IsolatesFailure]_vars
  <2> SUFFICES ASSUME TypeOK, [Next]_vars, IsCall, ret' # "SUCCESS"
               PROVE  \E i \in FetchedInstructions : Isolated(i, cpu', data')
    BY DEF IsolatesFailure
  <2>1. PICK i \in FetchedInstructions : Step(i)
    BY CallStep
  <2> QED
    BY <2>1 DEF Step
<1> QED
  BY <1>1, TypeCorrect, PTL DEF Spec, FailureIsolation

(* A call that fails stops the processor, unless the opcode is that of no  *)
(* instruction: then it runs on, and only what the call returns tells.     *)
THEOREM FailuresAreReported == Spec => FailureReported
<1> DEFINE Reports(i) == IF i.name = Unsupported[1]
                           THEN ret' = "CPU_UNSUPPORTED_INSTRUCTION" /\ ~ cpu'.stop
                           ELSE cpu'.stop
<1>1. TypeOK /\ [Next]_vars => [ReportsFailure]_vars
  <2> SUFFICES ASSUME TypeOK, [Next]_vars, IsCall, ret' # "SUCCESS"
               PROVE  \E i \in FetchedInstructions : Reports(i)
    BY DEF ReportsFailure
  <2>1. PICK i \in FetchedInstructions : Execute(i) /\ IsFetched(i) /\ Step(i)
    BY CallStep
  <2>2. CASE i.name = Unsupported[1]
    <3>1. ret' = "CPU_UNSUPPORTED_INSTRUCTION" /\ cpu' = i.cpu
      BY <2>1, <2>2, OwnHandler DEF UnsupportedInstruction
    <3>2. i.cpu.stop = cpu.stop /\ ~ cpu.stop
      BY <2>1, CallStep, TypesAreTypes, FetchedRegisters DEF Running
    <3> QED
      BY <2>2, <3>1, <3>2
  <2>3. CASE i.name # Unsupported[1]
    <3>1. ~ UnsupportedInstruction(i)
      BY <2>1, <2>3, OwnHandler
    <3> QED
      BY <2>1, <2>3, <3>1 DEF Step
  <2> QED
    BY <2>2, <2>3
<1> QED
  BY <1>1, TypeCorrect, PTL DEF Spec, FailureReported

(* What a store of the program leaves is what a read at its address finds. *)
LEMMA StoreIsRead ==
  ASSUME NEW d, NEW c, NEW addr, addr < CARTRIDGE_BEGIN, CARTRIDGE_BEGIN \in Nat,
         addr \in Nat, NEW v, NEW e
  PROVE  /\ nes_mem_w8(d, addr, v).err = "SUCCESS"
         /\ nes_mem_r8(c, e, addr, 0).err = "SUCCESS"
         /\ nes_mem_r8(c, nes_mem_w8(d, addr, v).data, addr, 0).result = v
<1>1. ~ (addr >= CARTRIDGE_BEGIN)
  OBVIOUS
<1> QED
  BY <1>1, PeekPoke DEF nes_mem_w8, nes_mem_r8

(* STA, STX and STY.                                                       *)
LEMMA StoreStores ==
  ASSUME TypeOK, NEW i, IsFetched(i), Store(i), ret' = "SUCCESS"
  PROVE  StoresOperand(i)
<1> DEFINE addr == Address(i)
           v    == cpu[StoreSource[i.name]]
           w    == nes_mem_w8(data, addr, v)
<1>1. CpuType /\ i.name \in Stores /\ i.name \in DOMAIN StoreSource
  BY TypesAreTypes DEF Store, StoreSource, Stores
<1>2. addr \in Nat /\ CARTRIDGE_BEGIN \in Nat
  <2>1. addr \in Word
    BY <1>1, AddressType DEF IsFetched
  <2> QED
    BY <2>1, MapAssumption DEF Word
<1>3. i.cpu[StoreSource[i.name]] = v
  <2>1. StoreSource[i.name] \in {"a", "x", "y"}
    BY <1>1 DEF StoreSource
  <2> QED
    BY <1>1, <2>1, FetchedRegisters
<1>4. data' = w.data /\ ret' = w.err
  BY <1>3 DEF Store, Return
<1> HIDE DEF addr, v
<1>5. addr < CARTRIDGE_BEGIN
  BY <1>2, <1>4 DEF nes_mem_w8
<1>6. nes_mem_r8(cartridge, data', addr, 0).result = v
  BY <1>2, <1>4, <1>5, StoreIsRead
<1> QED
  BY <1>1, <1>5, <1>6 DEF StoresOperand, addr, v

(* The shifts and counts in memory.                                        *)
LEMMA ModifyStores ==
  ASSUME TypeOK, NEW i, IsFetched(i), ModifyMemory(i)
  PROVE  StoresOperand(i)
<1> DEFINE addr == Address(i)
           m    == Read8(addr, 0)
           v    == Modified(i.name, m.result)
           w    == nes_mem_w8(data, addr, v)
<1>1. /\ CpuType /\ i.name \in Modifies /\ i.name \notin DOMAIN StoreSource
      /\ i.mode \in MemoryModes
  BY TypesAreTypes DEF ModifyMemory, ShiftNames, Modifies, StoreSource, IsFetched
<1>2. addr \in Nat /\ CARTRIDGE_BEGIN \in Nat
  <2>1. addr \in Word
    BY <1>1, AddressType
  <2> QED
    BY <2>1, MapAssumption DEF Word
<1>3. IF m.err = "SUCCESS" /\ w.err = "SUCCESS"
        THEN data' = w.data
        ELSE data' = data /\ cpu' = i.cpu
  BY DEF ModifyMemory, Complete, Return
<1>4. CASE addr < CARTRIDGE_BEGIN
  <2> HIDE DEF addr
  <2>1. m.err = "SUCCESS"
    BY <1>2, <1>4, StoreIsRead DEF Read8
  <2> HIDE DEF v
  <2>2. w.err = "SUCCESS"
    BY <1>2, <1>4 DEF nes_mem_w8
  <2>3. nes_mem_r8(cartridge, w.data, addr, 0).result = v
    BY <1>2, <1>4, StoreIsRead
  <2>4. nes_mem_r8(cartridge, data', addr, 0).result = v
    BY <1>3, <2>1, <2>2, <2>3
  <2> QED
    BY <1>1, <1>4, <2>4 DEF StoresOperand, addr, v
<1>5. CASE ~ (addr < CARTRIDGE_BEGIN)
  <2> HIDE DEF addr, v, m
  <2>1. w.err # "SUCCESS"
    BY <1>2, <1>5 DEF nes_mem_w8
  <2>2. data' = data /\ cpu'.status = cpu.status
    BY <1>1, <1>3, <2>1, FetchedRegisters
  <2> QED
    BY <1>1, <1>5, <2>2 DEF StoresOperand, addr
<1> QED
  BY <1>4, <1>5

(* A store that reports success has stored, mirrors and the stack's page   *)
(* included; one that reports it on the cartridge has done nothing.        *)
THEOREM SuccessStores == Spec => SuccessMeansStored
<1>1. TypeOK /\ [Next]_vars =>
        [\A i \in FetchedInstructions :
           (/\ IsCall /\ ret' = "SUCCESS"
            /\ i.name \in StoreNames /\ i.mode # "ACC"
            /\ FetchedInstructions = {i}) => StoresOperand(i)]_vars
  <2> SUFFICES ASSUME TypeOK, [Next]_vars, NEW i \in FetchedInstructions,
                      IsCall, ret' = "SUCCESS",
                      i.name \in StoreNames, i.mode # "ACC",
                      FetchedInstructions = {i}
               PROVE  StoresOperand(i)
    OBVIOUS
  <2>1. Execute(i) /\ IsFetched(i)
    BY CallStep
  <2>2. i.name \in Stores \/ i.name \in Modifies
    BY DEF StoreNames, StoreSource, ShiftNames, Stores, Modifies
  <2>3. Store(i) \/ ModifyMemory(i)
    BY <2>1, <2>2, Dispatch
  <2> QED
    BY <2>1, <2>3, StoreStores, ModifyStores
<1> QED
  BY <1>1, TypeCorrect, PTL DEF Spec, SuccessMeansStored

(* An RTS that finds the stack pointer where the JSR left it succeeds, and *)
(* continues behind the JSR with the stack pointer that the JSR found.     *)
THEOREM CallsReturn == Spec => ReturnsToCaller
<1>1. IInv /\ [Next]_vars => [ReturnsAfterCall]_vars
  <2> SUFFICES ASSUME IInv, [Next]_vars, NEW f \in Returns("RTS", "JSR", 2)
               PROVE  /\ ret' = "SUCCESS"
                      /\ cpu'.pc = Wrap16(f.site + 3)
                      /\ cpu'.sp = f.sp
    BY DEF ReturnsAfterCall
  <2>1. /\ TypeOK /\ CpuType /\ IsCall /\ f \in frames /\ cpu.sp = f.sp - 2
        /\ \A opc \in Fetch(cpu.pc) : Decode[opc][1] = "RTS"
    BY TypesAreTypes DEF IInv, Returns
  <2>2. /\ f.site \in Word /\ f.sp \in Byte
        /\ U16(Peek(data, f.sp), Peek(data, f.sp - 1)) = Wrap16(f.site + 2)
    BY <2>1 DEF IInv, FramesPlaced, FramesIntact
  <2>3. PICK i \in FetchedInstructions : Execute(i) /\ IsFetched(i)
    BY <2>1, CallStep
  <2>4. RTS(i)
    BY <2>1, <2>3, Dispatch DEF IsFetched
  <2>5. /\ i.cpu.sp = cpu.sp /\ cpu.sp \in Byte /\ cpu.sp # STACK_SIZE
        /\ cpu.sp # STACK_SIZE - 1 /\ cpu.sp + 2 = f.sp /\ cpu.sp + 1 = f.sp - 1
    <3>1. i.cpu.sp = cpu.sp /\ cpu.sp \in Byte
      BY <2>1, <2>3, FetchedRegisters DEF CpuType, Registers
    <3> QED
      BY <2>1, <2>2, <3>1, Widths DEF STACK_SIZE, Byte
  <2>6. nes_stack_pop_u16(cartridge, data, i.cpu.sp, i.cpu.pc)
          = [err |-> "SUCCESS", result |-> Wrap16(f.site + 2), sp |-> f.sp]
    <3> DEFINE sp == i.cpu.sp
    <3>1. sp \in Byte /\ sp # STACK_SIZE
      BY <2>5
    <3> HIDE DEF sp
    <3>2. nes_stack_pop_u16(cartridge, data, sp, i.cpu.pc)
            = [err    |-> "SUCCESS",
               result |-> U16(Peek(data, sp + 2), Peek(data, sp + 1)),
               sp     |-> IF sp = STACK_SIZE - 1 THEN 0 ELSE sp + 2]
      BY <3>1, PopWord
    <3> QED
      BY <2>2, <2>5, <3>2 DEF sp
  <2>7. Inc16(Wrap16(f.site + 2)) = Wrap16(f.site + 3)
    <3>1. f.site + 2 \in Int /\ 1 \in Int /\ (f.site + 2) + 1 = f.site + 3
      BY <2>2 DEF Word
    <3>2. Wrap16(f.site + 2) \in Word
      BY <3>1, WrapType
    <3> QED
      BY <3>1, <3>2, WrapSum, CountIsSum
  <2>8. /\ ret' = "SUCCESS"
        /\ cpu' = [i.cpu EXCEPT !.sp = f.sp, !.pc = Inc16(Wrap16(f.site + 2))]
    BY <2>4, <2>6 DEF RTS, Return
  <2>9. i.cpu \in Registers
    BY <2>3 DEF IsFetched
  <2> QED
    BY <2>7, <2>8, <2>9 DEF Registers
<1> QED
  BY <1>1, SpecIInv, PTL DEF Spec, ReturnsToCaller
=============================================================================

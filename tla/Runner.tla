-------------------------------- MODULE Runner --------------------------------
(***************************************************************************)
(* A processor under a host: run() of tests/src/nestest.c, which sets the  *)
(* program counter and calls nes_cpu_next until the processor stops or a   *)
(* call fails, and a restart button (nes_cpu_reset) between two calls.     *)
(*                                                                         *)
(* `frames' is a history variable: the calls and interrupts in progress,   *)
(* each as the instruction that made it (JSR or BRK), its place and the    *)
(* stack pointer it found.  One is in progress until the stack pointer     *)
(* rises above its frame or wraps around, or a store of the program        *)
(* changes its return address.                                             *)
(***************************************************************************)
EXTENDS Cpu

CONSTANTS
  START_PC,     \* Where the host starts the program, 0xC000.
  Cartridges,   \* The programs.
  MayRestart(_),  \* Bound: the programs that the host may restart,
  MaxResets,    \* and how often.
  MaxSteps      \* Bound on the instructions executed.

ASSUME RunnerAssumption ==
  /\ START_PC \in Word
  /\ MaxResets \in Nat
  /\ MaxSteps \in Nat
  /\ \A c \in Cartridges : IsNrom(c)

VARIABLES frames, resets, steps

vars == <<cpuVars, frames, resets, steps>>

Init ==
  /\ data = nes_mem_init
  /\ cartridge \in Cartridges
  /\ cpu = [nes_cpu_init EXCEPT !.pc = START_PC]
  /\ ret = "SUCCESS"
  /\ cycles = 0
  /\ frames = {}
  /\ resets = 0
  /\ steps = 0

Running == ~cpu.stop /\ ret = "SUCCESS"

FrameCells(f) == {f.sp, f.sp - 1}

Changed(cells) == \E c \in cells : Peek(data', c) # Peek(data, c)

StoreNames == DOMAIN StoreSource \cup ShiftNames \cup {"INC", "DEC"}

(* The words pushed or pulled across the end of the stack. *)
Wraps(i) ==
  \/ i.name = "JSR" /\ cpu.sp = 1
  \/ i.name = "BRK" /\ cpu.sp \in {1, 3}
  \/ i.name = "RTS" /\ cpu.sp = STACK_SIZE - 1
  \/ i.name = "RTI" /\ cpu.sp = STACK_SIZE - 2

FramesAfter(i) ==
  LET kept   == {f \in frames :
                   /\ ~ Wraps(i)
                   /\ cpu'.sp <= f.sp - 2
                   /\ ~ (i.name \in StoreNames /\ Changed(FrameCells(f)))}
      pushed == {f \in {[by |-> i.name, site |-> cpu.pc, sp |-> cpu.sp]} :
                   /\ i.name \in {"JSR", "BRK"}
                   /\ ret' = "SUCCESS"
                   /\ ~ Wraps(i)}
  IN  kept \cup pushed

RunNext ==
  /\ Running
  /\ steps < MaxSteps
  /\ \E i \in FetchedInstructions : Execute(i) /\ frames' = FramesAfter(i)
  /\ steps' = steps + 1
  /\ UNCHANGED resets

Restart ==
  /\ MayRestart(cartridge)
  /\ resets < MaxResets
  /\ nes_cpu_reset
  /\ frames' = {f \in frames : cpu'.sp <= f.sp - 2}
  /\ resets' = resets + 1
  /\ UNCHANGED steps

Next == RunNext \/ Restart

Spec == Init /\ [][Next]_vars

-----------------------------------------------------------------------------
TypeOK ==
  /\ cpu \in [pc : Word, sp : Byte, a : Byte, x : Byte, y : Byte,
              status : SUBSET Bit, stop : BOOLEAN, brk : Byte]
  /\ IsData(data)
  /\ IsNrom(cartridge)
  /\ cycles \in 0 .. 9
  /\ resets \in 0 .. MaxResets
  /\ steps \in 0 .. MaxSteps

IsCall == steps' # steps

(* A call of nes_cpu_next that fails has no effect but those that Isolated *)
(* names: a push or a pull that fails moves neither the stack pointer nor  *)
(* memory, and a JSR whose push fails has jumped with the stack as it was. *)
IsolatesFailure ==
  (IsCall /\ ret' # "SUCCESS") =>
    \E i \in FetchedInstructions : Isolated(i, cpu', data')

FailureIsolation == [][IsolatesFailure]_vars

(* A call that fails stops the processor, so that a host which looks at    *)
(* `stop' alone ends, with one exception: an opcode of no instruction      *)
(* returns an error of its own and leaves `stop' clear.                    *)
ReportsFailure ==
  (IsCall /\ ret' # "SUCCESS") =>
    \E i \in FetchedInstructions :
      IF i.name = Unsupported[1]
        THEN ret' = "CPU_UNSUPPORTED_INSTRUCTION" /\ ~ cpu'.stop
        ELSE cpu'.stop

FailureReported == [][ReportsFailure]_vars

(* A store that reports success is read back at its address, mirrors and   *)
(* the stack's page included.  An INC, DEC or shift, whose error the       *)
(* dispatch discards, reports success on the cartridge too: there it does  *)
(* nothing at all, the flags included.                                     *)
StoresOperand(i) ==
  LET addr   == Address(i)
      stored == IF i.name \in DOMAIN StoreSource
                  THEN cpu[StoreSource[i.name]]
                  ELSE Modified(i.name, Read8(addr, 0).result)
  IN  IF addr < CARTRIDGE_BEGIN
        THEN nes_mem_r8(cartridge, data', addr, 0).result = stored
        ELSE /\ i.name \notin DOMAIN StoreSource
             /\ data' = data
             /\ cpu'.status = cpu.status

SuccessMeansStored ==
  [][\A i \in FetchedInstructions :
       (/\ IsCall /\ ret' = "SUCCESS"
        /\ i.name \in StoreNames /\ i.mode # "ACC"
        /\ FetchedInstructions = {i}) => StoresOperand(i)]_vars

(* The break flag exists on the stack only: it is in every status byte a   *)
(* PHP or a BRK pushes, and never in the live status.                      *)
BreakFlagNeverLive == FLAGS_B \notin cpu.status

(* No push, call, interrupt, pull or restart changes the return address of *)
(* a call or an interrupt in progress: only a store to zero page can.      *)
FramesIntact ==
  \A f \in frames :
    U16(Peek(data, f.sp), Peek(data, f.sp - 1)) = Wrap16(f.site + 2)

Returns(name, kind, size) ==
  {f \in frames : /\ IsCall /\ \A opc \in Fetch(cpu.pc) : Decode[opc][1] = name
                  /\ f.by = kind /\ cpu.sp = f.sp - size}

(* An RTS that finds the stack pointer where the JSR left it returns to    *)
(* the instruction after that JSR.                                         *)
ReturnsAfterCall ==
  \A f \in Returns("RTS", "JSR", 2) :
    /\ ret' = "SUCCESS"
    /\ cpu'.pc = Wrap16(f.site + 3)
    /\ cpu'.sp = f.sp

ReturnsToCaller == [][ReturnsAfterCall]_vars

(* _RTI's "Pull program counter": an RTI that finds the stack pointer      *)
(* where the BRK left it resumes at the program counter BRK pushed.        *)
ResumesAfterInterrupt ==
  [][\A f \in Returns("RTI", "BRK", 4) : cpu'.pc = Wrap16(f.site + 2)]_vars

(* The loads' "Update status flags" after "Get value and store it in A":   *)
(* the zero and the negative flag are those of the value just loaded.      *)
FlagsFollowResult ==
  [][\A i \in FetchedInstructions :
       (/\ IsCall /\ ret' = "SUCCESS"
        /\ i.name \in DOMAIN LoadTarget
        /\ FetchedInstructions = {i}) =>
          LET loaded == cpu'[LoadTarget[i.name]]
          IN  /\ FLAGS_Z \in cpu'.status <=> loaded = 0
              /\ FLAGS_N \in cpu'.status <=> Negative(loaded)]_vars

(* cpu_read_addr's "Indirect Y (Post-Indexed)", "Add Y to the actual       *)
(* address": LDA (zp),Y loads from the word at zp, plus Y.                 *)
PostIndexed ==
  [][(IsCall /\ Fetch(cpu.pc) = {Opcode.LDA.IY} /\ ret' = "SUCCESS") =>
       LET pointer == Read8(Wrap16(cpu.pc + 1), 0).result
       IN  cpu'.a = Read8(Wrap16(Read16(pointer, 0).result + cpu.y), 0).result]_vars
=============================================================================

----------------------------- MODULE StackClient -----------------------------
(***************************************************************************)
(* The CPU stack under any sequence of pushes and pops of bytes and words, *)
(* from an empty stack.  Nothing else writes to the stack's page here:     *)
(* what instructions do to it is Cpu's and Runner's matter.                *)
(***************************************************************************)
EXTENDS Stack, Sequences

CONSTANT Values   \* The bytes pushed.

ASSUME StackClientAssumption == Values \subseteq Byte

VARIABLES data, sp, ret, result

vars == <<data, sp, ret, result>>

(* No stack address reaches the cartridge. *)
NoCartridge == [prgrom |-> ZeroArray, mirrored_bank |-> TRUE]

Init ==
  /\ data = nes_mem_init
  /\ sp = STACK_SIZE
  /\ ret = "SUCCESS"
  /\ result = 0

Push(p) ==
  /\ data' = p.data
  /\ sp' = p.sp
  /\ ret' = p.err
  /\ UNCHANGED result

Pop(p) ==
  /\ sp' = p.sp
  /\ ret' = p.err
  /\ result' = p.result
  /\ UNCHANGED data

Next ==
  \/ \E value \in Values : Push(nes_stack_push_u8(data, sp, value))
  \/ \E msb, lsb \in Values : Push(nes_stack_push_u16(data, sp, U16(msb, lsb)))
  \/ Pop(nes_stack_pop_u8(NoCartridge, data, sp, result))
  \/ Pop(nes_stack_pop_u16(NoCartridge, data, sp, result))

Spec == Init /\ [][Next]_vars

-----------------------------------------------------------------------------
(* The stack never reaches the cartridge (no call ends in a bus error),    *)
(* never writes outside of its page, and its pointer stays a byte.         *)
TypeOK ==
  /\ IsArray(data, Byte)
  /\ sp \in Byte
  /\ ret \in {"SUCCESS", "MEMORY_STACK_OVERFLOW", "MEMORY_STACK_UNDERFLOW"}
  /\ result \in Word

(* The bytes on the stack, oldest first. *)
Items == [i \in 1 .. (STACK_SIZE - sp) |-> Peek(data, BYTE - i)]

Abstract == INSTANCE Lifo WITH items <- Items

(* Bytes and words come back in the reverse order of their pushes, however *)
(* the two sizes are mixed; an overflow or an underflow that is reported   *)
(* changes nothing, and the only calls that break the stack silently are   *)
(* a word pushed on one free byte and a word popped from one byte.         *)
ImplementsLifo == Abstract!Spec

(* stack.h: a stack address is transformed into a memory address by adding *)
(* the base address 0x0100, so that the stack is page one.                 *)
StackInPageOne ==
  DOMAIN data \subseteq STACK_BASE_ADDR .. (STACK_BASE_ADDR + STACK_SIZE)
=============================================================================

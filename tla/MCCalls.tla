------------------------------- MODULE MCCalls -------------------------------
(***************************************************************************)
(* Every program of four three-byte blocks after one that sets the stack   *)
(* pointer so that 5 bytes are free, and of three blocks with 6 free:      *)
(* calls and recursion, unbalanced pushes and pulls, interrupts, a store   *)
(* to the stack's page.  A word pushed on the last free byte wraps the     *)
(* pointer, so that both ends of the stack are reached.  The third block   *)
(* is also the interrupt handler.                                          *)
(***************************************************************************)
EXTENDS MCPrograms, SequencesExt

(* The address of a block. *)
Block(n) == Start + 3 * n

Nop == Opcode.NOP.IMP

Call(n) == <<Opcode.JSR.AB>> \o Word16(Block(n))

Blocks ==
  {Call(2), Call(3),
   <<Opcode.RTS.IMP, Nop, Nop>>,
   <<Opcode.PHA.IMP, Nop, Nop>>,
   <<Opcode.PLA.IMP, Nop, Nop>>,
   <<Opcode.PHP.IMP, Opcode.PLP.IMP, Nop>>,
   <<Opcode.INC.ZP, \h04, Nop>>,
   <<Opcode.BRK.IM, \h07, Nop>>,
   <<Opcode.RTI.IMP, Nop, Nop>>}

SetStackPointer(s) == <<Opcode.LDX.IM, s, Opcode.TXS.IMP>>

Pointers == {SetStackPointer(s) : s \in {\h05, \h06}}

Bodies(s, n) ==
  {[code |-> FlattenSeq(blocks) \o <<Opcode.STP.IMP>>,
    heads |-> {SetStackPointer(s)}, irq |-> Block(3)] :
     blocks \in [1 .. n -> Blocks]}

CallBodies == Bodies(\h05, 4) \cup Bodies(\h06, 3)

CallPrograms == Assembled(Pointers, CallBodies)

(* Only the programs of calls are restarted: no other one starts with      *)
(* their stack pointers.                                                   *)
MCMayRestart(c) == Peek(c.prgrom, 1) \in {\h05, \h06}
=============================================================================

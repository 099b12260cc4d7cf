------------------------------ MODULE MCProcessor ------------------------------
(***************************************************************************)
(* Every opcode once, and every short program of calls, in one run of the  *)
(* processor; the programs of calls may be restarted at any point.         *)
(***************************************************************************)
EXTENDS MCInstructions, MCCalls

ProcessorPrograms ==
  Assembled(Prologues \cup Pointers, InstructionBodies \cup CallBodies)
=============================================================================

------------------------------ MODULE MCPrograms ------------------------------
(* The cartridges of programs, for the runs of Runner. *)
EXTENDS Runner, Programs

(* The cartridges of programs: a body of code after one of the heads that  *)
(* it goes with, and the address of its interrupt handler.                 *)
Assembled(heads, bodies) ==
  {Loaded(Bank(p[1] \o p[2].code, p[2].irq), PRGROM_BANK_SIZE) :
     p \in {q \in heads \X bodies : q[1] \in q[2].heads}}

(* A fetch from an unmapped address: BRK, or STP. *)
MCGarbage == {\h00, \hDB}
=============================================================================

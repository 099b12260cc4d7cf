------------------------------- MODULE MCConsole -------------------------------
(***************************************************************************)
(* Files for the emulator: small endless and stopping programs, and images *)
(* the loader must refuse at each of its checks or accept at its limits.   *)
(* The frame has 12 scanlines of 16 dots, each as long as the code's.      *)
(***************************************************************************)
EXTENDS Console, Programs

Jump(addr) == <<Opcode.JMP.AB>> \o Word16(addr)

Spin == Jump(Start)

(* Nothing of the table's price but the jump. *)
Free == <<Opcode.TXS.IMP, Opcode.TXS.IMP>> \o Jump(Start)

(* PPUCTRL, once at its address and once at a mirror. *)
Control ==
  <<Opcode.LDA.IM, \h13, Opcode.STA.AB>> \o Word16(\h2000)
    \o <<Opcode.LDA.IM, \h02, Opcode.STA.AB>> \o Word16(\h3FF8) \o Jump(Start)

(* The processor goes on after the STP, into a jump or into an error. *)
StopThenSpin == <<Opcode.NOP.IMP, Opcode.STP.IMP>> \o Jump(Start)
StopThenFail == <<Opcode.STP.IMP, \h02>>

(* Ends in the error of an unsupported opcode, which does not stop it. *)
Fail == <<Opcode.NOP.IMP, \h02>>

(* Until the stack is full. *)
Recurse == <<Opcode.JSR.AB>> \o Word16(Start)
Break   == <<Opcode.BRK.IM, 0>>

Bytes(prgrom, chrrom) ==
  INES_HEADER_SIZE + prgrom * PRGROM_BANK_SIZE + chrrom * CHRROM_BANK_SIZE

(* A file of one bank of each kind, with some CHR data. *)
File(program) ==
  [len |-> Bytes(1, 1), magic |-> TRUE, prgrom |-> 1, chrrom |-> 1,
   arrangement |-> 0, mapper |-> 0,
   bytes |-> Bank(program, Start)
             @@ [b \in PRGROM_BANK_SIZE + 1 .. PRGROM_BANK_SIZE + 9 |-> 1 + (b % 7)]]

(* The program in the second of two banks; the first ends in vectors of    *)
(* its own.                                                                *)
TwoBanks ==
  LET second == Bank(Spin, Halt)
  IN  [File(Spin) EXCEPT
         !.len = Bytes(2, 1), !.prgrom = 2,
         !.bytes = [b \in {PRGROM_BANK_SIZE + o : o \in DOMAIN second} |->
                      second[b - PRGROM_BANK_SIZE]]
                   @@ [b \in \h3FFC .. \h3FFF |-> \h40]]

Runs == {Spin, Free, Control, StopThenSpin, StopThenFail, Fail, Recurse, Break}

Images ==
  {TwoBanks,
   [File(Spin) EXCEPT !.arrangement = 1],
   [File(Spin) EXCEPT !.len = @ + 100],                       \* Trailing bytes.
   [File(Spin) EXCEPT !.chrrom = 0],
   [File(Spin) EXCEPT !.prgrom = 0],                          \* Executes zeros.
   [File(Spin) EXCEPT !.len = INES_HEADER_SIZE - 1],
   [File(Spin) EXCEPT !.magic = FALSE],
   [File(Spin) EXCEPT !.len = Bytes(1, 0) - 1],
   [File(Spin) EXCEPT !.len = Bytes(1, 1) - 1],
   [File(Spin) EXCEPT !.mapper = 1],
   [File(Spin) EXCEPT !.prgrom = 3, !.len = Bytes(3, 1)],
   [File(Spin) EXCEPT !.chrrom = 2, !.len = Bytes(1, 2)],
   [TwoBanks EXCEPT !.chrrom = 2, !.len = Bytes(2, 1)]}

MCFiles == {File(program) : program \in Runs} \cup Images

(* No program of these runs past the mapped addresses. *)
MCGarbage == {\hDB}
=============================================================================

-------------------------------- MODULE Console --------------------------------
(***************************************************************************)
(* main() of the emulator: a file is loaded into a cartridge, the memories *)
(* and both processors are set up, and the event loop alternates a         *)
(* scanline of the PPU with as many instructions as it lasts.  `at' is the *)
(* place of the main thread; SIGINT may come at any place of the loop, and *)
(* WindowShouldClose, outside of the repository, may answer either way.    *)
(*                                                                         *)
(* Nothing on the CPU's bus reaches video memory at this commit: vram is   *)
(* as nes_vram_init leaves it, and of a line only its cycles and its       *)
(* return code matter here (PpuClient is about what it draws).             *)
(***************************************************************************)
EXTENDS Cpu, Ppu

CONSTANT Files   \* The files the emulator may be started with.

ASSUME ConsoleAssumption == \A f \in Files : IsFile(f)

(* PRG ROM is the end of the address space, and starts at a multiple of    *)
(* its size, so that the remainders of an address in it are offsets; the   *)
(* vectors lie in its last bank.                                           *)
ASSUME ConsoleMapAssumption ==
  /\ WORD = ROM_BEGIN + NROM_PRGROM_SIZE
  /\ ROM_BEGIN % NROM_PRGROM_SIZE = 0
  /\ PRGROM_BANK_SIZE >= 4

VARIABLES
  file,         \* The file.
  vram,         \* struct nes_mem_video.
  scanline,     \* The PPU's scanline.
  at,           \* Where the main thread is.
  event_loop,   \* g_main_event_loop.
  ppu_cycles,   \* The length of the last line, in dots.
  cpu_cycles,   \* The cycles of the instructions since.
  status        \* What main returned; NULL before.

vars == <<cpuVars, file, vram, scanline, at, event_loop,
          ppu_cycles, cpu_cycles, status>>

machine == <<cpuVars, vram, scanline>>
host    == <<event_loop, ppu_cycles, cpu_cycles, status>>

LoopPlaces == {"test", "render", "catch_up", "execute", "check_stop"}
Places     == LoopPlaces \cup {"load", "power_up", "exited"}

Init ==
  /\ file \in Files
  /\ data = nes_mem_init
  /\ cartridge = EmptyCartridge
  /\ cpu = nes_cpu_init
  /\ ret = "SUCCESS"
  /\ cycles = 0
  /\ vram = nes_vram_init
  /\ scanline = nes_ppu_init
  /\ at = "load"
  /\ event_loop = TRUE
  /\ ppu_cycles = 0
  /\ cpu_cycles = 0
  /\ status = "NULL"

Exit(code) == at' = "exited" /\ status' = code

LoadCartridge ==
  /\ at = "load"
  /\ LET load == nes_cartridge_read_ines(cartridge, file)
     IN  /\ cartridge' = load.cartridge
         /\ IF load.err # "SUCCESS" THEN Exit("EXIT_FAILURE")
            ELSE at' = "power_up" /\ UNCHANGED status
  /\ UNCHANGED <<cpu, data, ret, cycles, file, vram, scanline, event_loop,
                 ppu_cycles, cpu_cycles>>

(* The four initialisations, none of which fails. *)
PowerUp ==
  /\ at = "power_up"
  /\ data' = nes_mem_init
  /\ vram' = nes_vram_init
  /\ cpu' = nes_cpu_init
  /\ scanline' = nes_ppu_init
  /\ at' = "test"
  /\ UNCHANGED <<cartridge, ret, cycles, file, host>>

(* Mutant of TestLoop: only the window ends the loop. *)
TestLoopWindow ==
  /\ at = "test"
  /\ \/ at' = "render" /\ UNCHANGED status
     \/ Exit("EXIT_SUCCESS")
  /\ UNCHANGED <<machine, file, event_loop, ppu_cycles, cpu_cycles>>

TestLoop ==
  /\ at = "test"
  /\ \/ /\ event_loop
        /\ at' = "render"
        /\ UNCHANGED status
     \/ Exit("EXIT_SUCCESS")   \* A cleared flag, or the window's answer.
  /\ UNCHANGED <<machine, file, event_loop, ppu_cycles, cpu_cycles>>

(* An error leaves the loop by a break. *)
RenderLine ==
  /\ at = "render"
  /\ LET line == nes_ppu_render(scanline, vram, cartridge, data)
     IN  /\ scanline' = line.scanline
         /\ ppu_cycles' = line.cycles
         /\ cpu_cycles' = 0
         /\ IF line.err # "SUCCESS" THEN Exit("EXIT_SUCCESS")
            ELSE at' = "catch_up" /\ UNCHANGED status
  /\ UNCHANGED <<cpuVars, file, vram, event_loop>>

(* Mutant of Behind: the loop counts only whole dots of CPU time. *)
BehindByDots == cpu_cycles < ppu_cycles

Behind == 3 * cpu_cycles < ppu_cycles

CatchUp ==
  /\ at = "catch_up"
  /\ at' = IF Behind THEN "execute" ELSE "check_stop"
  /\ UNCHANGED <<machine, file, host>>

(* Mutant of Instruct: an error only leaves the catch-up. *)
InstructUnheeded ==
  /\ at = "execute"
  /\ \E i \in FetchedInstructions : Execute(i)
  /\ IF ret' = "SUCCESS"
       THEN cpu_cycles' = cpu_cycles + cycles' /\ at' = "catch_up"
       ELSE at' = "check_stop" /\ UNCHANGED cpu_cycles
  /\ UNCHANGED <<file, vram, scanline, event_loop, ppu_cycles, status>>

(* One instruction; the flags are not looked at between instructions. *)
Instruct ==
  /\ at = "execute"
  /\ \E i \in FetchedInstructions : Execute(i)
  /\ IF ret' = "SUCCESS"
       THEN /\ cpu_cycles' = cpu_cycles + cycles'
            /\ at' = "catch_up"
            /\ UNCHANGED event_loop
       ELSE /\ event_loop' = FALSE
            /\ at' = "check_stop"
            /\ UNCHANGED cpu_cycles
  /\ UNCHANGED <<file, vram, scanline, ppu_cycles, status>>

(* Mutant of CheckStop: the stopped processor is not noticed. *)
CheckStopMissing ==
  /\ at = "check_stop"
  /\ at' = "test"
  /\ UNCHANGED <<machine, file, host>>

CheckStop ==
  /\ at = "check_stop"
  /\ event_loop' = (event_loop /\ ~ cpu.stop)
  /\ at' = "test"
  /\ UNCHANGED <<machine, file, ppu_cycles, cpu_cycles, status>>

(* sigint_handler. *)
Interrupt ==
  /\ at \in LoopPlaces
  /\ event_loop
  /\ event_loop' = FALSE
  /\ UNCHANGED <<machine, file, at, ppu_cycles, cpu_cycles, status>>

Exited == at = "exited" /\ UNCHANGED vars

Next ==
  \/ LoadCartridge
  \/ PowerUp
  \/ TestLoop
  \/ RenderLine
  \/ CatchUp
  \/ Instruct
  \/ CheckStop
  \/ Interrupt
  \/ Exited

(* The main thread always goes on: in every place but the last it has a    *)
(* step, and each of its steps, unlike SIGINT, takes it to another place.  *)
MainThread == at # "exited" /\ \E place \in Places \ {at} : at' = place

Spec == Init /\ [][Next]_vars /\ WF_at(MainThread)

-----------------------------------------------------------------------------
TypeOK ==
  /\ cpu \in [pc : Word, sp : Byte, a : Byte, x : Byte, y : Byte,
              status : SUBSET Bit, stop : BOOLEAN, brk : Byte]
  /\ IsData(data)
  /\ IsCartridge(cartridge)
  /\ IsVram(vram)
  /\ scanline \in 0 .. PRERENDER_SCANLINE
  /\ at \in Places
  /\ event_loop \in BOOLEAN
  /\ ppu_cycles \in {0, DOTS_PER_SCANLINE}
  /\ cpu_cycles \in Nat
  /\ status \in {"NULL", "EXIT_SUCCESS", "EXIT_FAILURE"}
  /\ (status # "NULL") <=> (at = "exited")

(* What nes_cartridge_read_ines accepts, said of the file alone. *)
Loadable ==
  /\ file.magic
  /\ file.mapper = 0
  /\ file.prgrom <= 2
  /\ file.chrrom <= 1
  /\ file.len >= INES_HEADER_SIZE + prgrom_len(file) + chrrom_len(file)

(* The emulator refuses a file exactly when the loader's checks, spread    *)
(* over its four steps, say that it does not fit; trailing bytes are       *)
(* accepted.                                                               *)
RefusesUnloadable ==
  at # "load" => ((status = "EXIT_FAILURE") <=> ~ Loadable)

FileByte(offset) == Peek(file.bytes, offset)

(* Once a file is loaded the CPU's bus answers with each byte of its PRG   *)
(* data, in both halves of the cartridge when it is one bank, and the      *)
(* PPU's bus with each byte of its CHR data.                               *)
CartridgeIsFile ==
  at = "power_up" =>
    /\ \A b \in 0 .. (prgrom_len(file) - 1) :
         \A half \in IF file.prgrom = 1 THEN {0, PRGROM_BANK_SIZE} ELSE {0} :
           Read8(ROM_BEGIN + half + b, 0).result = FileByte(b)
    /\ \A a \in 0 .. (chrrom_len(file) - 1) :
         nes_vram_r8(vram, cartridge, a, 0).result
           = FileByte(prgrom_len(file) + a)

(* The processor starts at the word four bytes before the end of the       *)
(* file's PRG data, whether it has one bank or two.                        *)
Boots ==
  (at = "power_up" /\ at' = "test" /\ file.prgrom > 0) =>
    LET vector == prgrom_len(file) - 4
    IN  cpu'.pc = U16(FileByte(vector + 1), FileByte(vector))

BootsFromFile == [][Boots]_vars

(* No line is rendered after the one in which an STP stopped the processor *)
(* ("CPU was stopped") or an instruction failed, also when the failure is  *)
(* that of an unsupported opcode, which leaves `stop' clear.               *)
NoLineAfterStop == at = "render" => ~ cpu.stop /\ ret = "SUCCESS"

(* The processor's time for a line is that of the line or longer by less   *)
(* than one instruction of the table, unless an error cuts it short.       *)
OvershootBounded ==
  (at = "check_stop" /\ ret = "SUCCESS") =>
    /\ 3 * cpu_cycles >= ppu_cycles
    /\ 3 * (cpu_cycles - 7) < ppu_cycles

(* The inner loop, which looks at no flag, ends by itself: no program of   *)
(* the run goes on with instructions that cost no cycles.                  *)
CatchUpEnds == at = "catch_up" ~> at = "check_stop"

(* A cleared flag, by SIGINT or after an error, ends the program, also     *)
(* when it is cleared in the middle of a line or between the tests.        *)
InterruptEndsLoop == ~ event_loop ~> at = "exited"

(* A processor that is stopped, or whose instruction failed, with or       *)
(* without being stopped by it, ends the program without any help from the *)
(* window or the user.                                                     *)
StopEndsLoop == (cpu.stop \/ ret # "SUCCESS") ~> at = "exited"

(* cartridge.h's table of flags 6: with bit 0 clear the nametables are     *)
(* "horizontal mirrored", 0x2000 and 0x2400 the same bytes, and with it    *)
(* set "vertically mirrored", 0x2000 and 0x2800 the same.                  *)
NametableArrangement ==
  at = "power_up" =>
    LET cell(table) == Locate(cartridge, NAMETABLE_BASE_ADDR
                                         + table * NAMETABLE_SIZE)
    IN  IF file.arrangement = 0 THEN cell(0) = cell(1) ELSE cell(0) = cell(2)
=============================================================================

----------------------------- MODULE Console_proofs -----------------------------
(***************************************************************************)
(* The emulator's program, whatever the file it is started with, the       *)
(* program in it, the times of SIGINT and the answers of the window: the   *)
(* loader refuses what does not fit, what runs is the file, a stopped      *)
(* processor gets no further line, and a line gets no instruction more     *)
(* than it lasts.  That the loops end is liveness, and is checked by TLC.  *)
(***************************************************************************)
EXTENDS Console, Cpu_proofs

(* The file is in the cartridge from its load to the end of the program.   *)
FileIsLoaded ==
  at \notin {"load", "exited"} => Fits(file) /\ cartridge = CartridgeOf(file)

(* The status tells a refused file from every other end.                   *)
Refused == at = "exited" => ((status = "EXIT_FAILURE") <=> ~ Fits(file))

(* The processor is not stopped and has not failed when a line is to be    *)
(* rendered, nor when the flag lets the loop go on to one.  Between the    *)
(* instructions of a line it may be stopped but has not failed: a failure  *)
(* leaves them and clears the flag, which is what tells it apart when the  *)
(* line ends.                                                              *)
RunsOn ==
  /\ (at \in {"load", "power_up", "render"} \/ (at = "test" /\ event_loop))
       => ~ cpu.stop /\ ret = "SUCCESS"
  /\ at \in {"catch_up", "execute"} => ret = "SUCCESS"
  /\ (at = "check_stop" /\ event_loop) => ret = "SUCCESS"

(* The processor's time for a line, before and after each instruction.     *)
Budget ==
  /\ at = "catch_up" => 3 * (cpu_cycles - 7) < ppu_cycles
  /\ at = "execute" => 3 * cpu_cycles < ppu_cycles
  /\ OvershootBounded

(* Video memory is as it was at power-up. *)
VideoUntouched == vram = nes_vram_init

IInv ==
  /\ TypeOK
  /\ file \in Files
  /\ VideoUntouched
  /\ FileIsLoaded
  /\ Refused
  /\ RunsOn
  /\ Budget

-----------------------------------------------------------------------------
(* What the main thread calls.                                             *)

(* A product with a positive number is monotone.                           *)
LEMMA MultipleOrder ==
  ASSUME NEW s \in Nat \ {0}, NEW j \in Int, NEW k \in Int
  PROVE  j * s <= k * s <=> j <= k
<1> DEFINE e == j - k
<1>1. e \in Int /\ e * s = j * s - k * s
  OBVIOUS
<1> HIDE DEF e
<1>2. j * s \in Int /\ k * s \in Int
  OBVIOUS
<1>3. e <= 0 => e * s <= 0
  BY <1>1
<1>4. e >= 1 => e * s >= s
  BY <1>1
<1>5. e <= 0 <=> e * s <= 0
  BY <1>1, <1>3, <1>4
<1> QED
  BY <1>1, <1>2, <1>5 DEF e

(* The loader's checks say that the file fits.                             *)
LEMMA LoadableFits ==
  ASSUME file \in Files
  PROVE  Loadable <=> Fits(file)
<1>1. /\ file.prgrom \in Int /\ file.chrrom \in Int
      /\ PRGROM_BANK_SIZE \in Nat \ {0} /\ CHRROM_BANK_SIZE \in Nat \ {0}
  BY ConsoleAssumption, NromAssumption DEF IsFile
<1>2. file.prgrom <= 2 <=> file.prgrom * PRGROM_BANK_SIZE <= 2 * PRGROM_BANK_SIZE
  BY <1>1, MultipleOrder
<1>3. file.chrrom <= 1 <=> file.chrrom * CHRROM_BANK_SIZE <= 1 * CHRROM_BANK_SIZE
  BY <1>1, MultipleOrder
<1>4. /\ file.prgrom <= 2 <=> prgrom_len(file) <= NROM_PRGROM_SIZE
      /\ file.chrrom <= 1 <=> chrrom_len(file) <= NROM_CHRROM_SIZE
  BY <1>1, <1>2, <1>3
     DEF prgrom_len, chrrom_len, NROM_PRGROM_SIZE, NROM_CHRROM_SIZE
<1> QED
  BY <1>4 DEF Loadable, Fits

(* A line lasts as long as every other and leaves a scanline of the frame. *)
LEMMA LineStep ==
  ASSUME scanline \in 0 .. PRERENDER_SCANLINE
  PROVE  LET line == nes_ppu_render(scanline, vram, cartridge, data)
         IN  /\ line.cycles = DOTS_PER_SCANLINE
             /\ line.scanline \in 0 .. PRERENDER_SCANLINE
<1> DEFINE line == nes_ppu_render(scanline, vram, cartridge, data)
<1>1. line.cycles = DOTS_PER_SCANLINE
  BY DEF nes_ppu_render, DrawLine
<1>2. \E err : line.scanline = NextScanline(scanline, err)
  BY DEF nes_ppu_render, DrawLine
<1> HIDE DEF line
<1>3. SCANLINES \in Nat \ {0} /\ scanline + 1 \in Int
  BY PpuAssumption DEF PRERENDER_SCANLINE
<1>4. (scanline + 1) % SCANLINES \in 0 .. (SCANLINES - 1)
  BY <1>3, ModRange
<1> QED
  BY <1>1, <1>2, <1>4 DEF NextScanline, PRERENDER_SCANLINE, line

(* The empty structures are of their types.                                *)
LEMMA EmptyTypes ==
  IsCartridge(EmptyCartridge) /\ IsData(nes_mem_init) /\ IsVram(nes_vram_init)
<1>1. \A cells : IsArray(ZeroArray, cells)
  BY ZeroArrayType
<1> QED
  BY <1>1 DEF IsCartridge, IsNrom, EmptyCartridge, Mappers, IsData, nes_mem_init,
              IsVram, nes_vram_init

-----------------------------------------------------------------------------
(* The invariant.                                                          *)

(* The first scanline and the length of a line.                            *)
LEMMA FrameTypes ==
  /\ nes_ppu_init \in 0 .. PRERENDER_SCANLINE
  /\ DOTS_PER_SCANLINE \in Nat
BY PpuAssumption DEF nes_ppu_init, PRERENDER_SCANLINE

(* Before the load nothing has happened.                                   *)
LEMMA InitIInv == Init => IInv
<1> SUFFICES ASSUME Init PROVE IInv
  OBVIOUS
<1>1. IsCartridge(cartridge) /\ IsData(data) /\ IsVram(vram)
  BY EmptyTypes DEF Init
<1>2. cpu \in Registers /\ cpu.stop = FALSE
  BY <1>1, InitType DEF Init, IsCartridge
<1>3. TypeOK
  BY <1>1, <1>2, FrameTypes DEF Init, TypeOK, Registers, Places
<1>4. FileIsLoaded /\ Refused /\ RunsOn /\ VideoUntouched /\ file \in Files
  BY <1>2 DEF Init, FileIsLoaded, Refused, RunsOn, VideoUntouched
<1>5. Budget
  BY DEF Init, Budget, OvershootBounded
<1> QED
  BY <1>3, <1>4, <1>5 DEF IInv

(* The load.                                                               *)
LEMMA LoadIInv == IInv /\ LoadCartridge => IInv'
<1> SUFFICES ASSUME IInv, LoadCartridge PROVE IInv'
  OBVIOUS
<1> DEFINE load == nes_cartridge_read_ines(cartridge, file)
<1>1. /\ cartridge' = load.cartridge
      /\ \/ /\ load.err # "SUCCESS"
            /\ at' = "exited" /\ status' = "EXIT_FAILURE"
         \/ /\ load.err = "SUCCESS"
            /\ at' = "power_up" /\ status' = status
      /\ UNCHANGED <<cpu, data, ret, cycles, file, vram, scanline, event_loop,
                     ppu_cycles, cpu_cycles>>
      /\ at = "load"
  BY DEF LoadCartridge, Exit
<1>2. file \in Files /\ IsFile(file) /\ IsCartridge(cartridge)
  BY ConsoleAssumption DEF IInv, TypeOK
<1>3. /\ (load.err = "SUCCESS") <=> Fits(file)
      /\ Fits(file) => load.cartridge = CartridgeOf(file)
      /\ IsCartridge(load.cartridge)
  BY <1>2, Loading, LoadType
<1> HIDE DEF load
<1>4. TypeOK'
  BY <1>1, <1>3 DEF IInv, TypeOK, Places
<1>5. FileIsLoaded' /\ Refused'
  BY <1>1, <1>3 DEF IInv, FileIsLoaded, Refused, Fits, CartridgeOf, PrgOf
<1>6. RunsOn' /\ VideoUntouched' /\ file' \in Files
  BY <1>1 DEF IInv, RunsOn, VideoUntouched
<1>7. Budget'
  BY <1>1 DEF Budget, OvershootBounded
<1> QED
  BY <1>4, <1>5, <1>6, <1>7 DEF IInv

(* The four initialisations.                                               *)
LEMMA PowerUpIInv == IInv /\ PowerUp => IInv'
<1> SUFFICES ASSUME IInv, PowerUp PROVE IInv'
  OBVIOUS
<1>1. cpu' \in Registers /\ cpu'.stop = FALSE
  BY InitType DEF IInv, TypeOK, IsCartridge, PowerUp
<1>2. TypeOK'
  BY <1>1, EmptyTypes, FrameTypes
     DEF IInv, TypeOK, Registers, PowerUp, host, Places, LoopPlaces
<1>3. FileIsLoaded' /\ Refused'
  BY DEF IInv, FileIsLoaded, Refused, Fits, CartridgeOf, PrgOf, PowerUp, host
<1>4. RunsOn' /\ VideoUntouched' /\ file' \in Files
  BY <1>1 DEF IInv, RunsOn, VideoUntouched, PowerUp
<1>5. Budget'
  BY DEF Budget, OvershootBounded, PowerUp
<1> QED
  BY <1>2, <1>3, <1>4, <1>5 DEF IInv

(* A step of the loop that leaves the file and the cartridge alone.        *)
LEMMA FileStays ==
  ASSUME IInv, at \notin {"load", "exited"}, UNCHANGED <<file, cartridge>>,
         at' # "exited" \/ status' # "EXIT_FAILURE"
  PROVE  file' \in Files /\ FileIsLoaded' /\ Refused'
<1>1. Fits(file') <=> Fits(file)
  BY DEF Fits
<1>2. CartridgeOf(file') = CartridgeOf(file)
  BY DEF CartridgeOf, PrgOf
<1> QED
  BY <1>1, <1>2 DEF IInv, FileIsLoaded, Refused

(* The test of the event loop.                                             *)
LEMMA TestIInv == IInv /\ TestLoop => IInv'
<1> SUFFICES ASSUME IInv, TestLoop PROVE IInv'
  OBVIOUS
<1>1. /\ at = "test"
      /\ \/ event_loop /\ at' = "render" /\ status' = status
         \/ at' = "exited" /\ status' = "EXIT_SUCCESS"
      /\ UNCHANGED <<cpu, data, cartridge, ret, cycles, vram, scanline, file,
                     event_loop, ppu_cycles, cpu_cycles>>
  BY DEF TestLoop, Exit, machine, cpuVars
<1>2. TypeOK'
  BY <1>1 DEF IInv, TypeOK, Places, LoopPlaces
<1>3. file' \in Files /\ FileIsLoaded' /\ Refused'
  BY <1>1, FileStays
<1>4. RunsOn' /\ VideoUntouched' /\ Budget'
  BY <1>1 DEF IInv, RunsOn, VideoUntouched, Budget, OvershootBounded
<1> QED
  BY <1>2, <1>3, <1>4 DEF IInv

(* A line: the processor's time for it starts at zero.                     *)
LEMMA RenderIInv == IInv /\ RenderLine => IInv'
<1> SUFFICES ASSUME IInv, RenderLine PROVE IInv'
  OBVIOUS
<1> DEFINE line == nes_ppu_render(scanline, vram, cartridge, data)
<1>1. /\ at = "render"
      /\ scanline' = line.scanline /\ ppu_cycles' = line.cycles
      /\ cpu_cycles' = 0
      /\ \/ at' = "exited" /\ status' = "EXIT_SUCCESS"
         \/ at' = "catch_up" /\ status' = status
      /\ UNCHANGED <<cpu, data, cartridge, ret, cycles, file, vram, event_loop>>
  BY DEF RenderLine, Exit, cpuVars
<1>2. /\ line.cycles = DOTS_PER_SCANLINE
      /\ line.scanline \in 0 .. PRERENDER_SCANLINE
  BY LineStep DEF IInv, TypeOK
<1> HIDE DEF line
<1>3. TypeOK'
  BY <1>1, <1>2 DEF IInv, TypeOK, Places, LoopPlaces
<1>4. file' \in Files /\ FileIsLoaded' /\ Refused'
  BY <1>1, FileStays
<1>5. Budget'
  BY <1>1, <1>2, FrameTypes DEF Budget, OvershootBounded
<1>6. RunsOn' /\ VideoUntouched'
  BY <1>1 DEF IInv, RunsOn, VideoUntouched
<1> QED
  BY <1>3, <1>4, <1>5, <1>6 DEF IInv

(* The test of the inner loop.                                             *)
LEMMA CatchUpIInv == IInv /\ CatchUp => IInv'
<1> SUFFICES ASSUME IInv, CatchUp PROVE IInv'
  OBVIOUS
<1>1. /\ at = "catch_up"
      /\ \/ at' = "execute" /\ 3 * cpu_cycles < ppu_cycles
         \/ at' = "check_stop" /\ ~ (3 * cpu_cycles < ppu_cycles)
      /\ UNCHANGED <<cpu, data, cartridge, ret, cycles, vram, scanline, file,
                     event_loop, ppu_cycles, cpu_cycles, status>>
  BY DEF CatchUp, Behind, machine, cpuVars, host
<1>2. TypeOK'
  BY <1>1 DEF IInv, TypeOK, Places, LoopPlaces
<1>3. file' \in Files /\ FileIsLoaded' /\ Refused'
  BY <1>1, FileStays
<1>4. ppu_cycles \in Int /\ cpu_cycles \in Int
  BY FrameTypes DEF IInv, TypeOK
<1>5. Budget'
  BY <1>1, <1>4 DEF IInv, Budget, OvershootBounded
<1>6. RunsOn' /\ VideoUntouched'
  BY <1>1 DEF IInv, RunsOn, VideoUntouched
<1> QED
  BY <1>2, <1>3, <1>5, <1>6 DEF IInv

(* An instruction: it takes at most seven cycles, or fails.                *)
LEMMA InstructIInv == IInv /\ Instruct => IInv'
<1> SUFFICES ASSUME IInv, Instruct PROVE IInv'
  OBVIOUS
<1>1. PICK i \in FetchedInstructions : Execute(i)
  BY DEF Instruct
<1>2. CpuType
  BY DEF IInv, TypeOK, CpuType, Registers, IsCartridge
<1>3. /\ cpu' \in Registers /\ IsData(data') /\ cartridge' = cartridge
      /\ cycles' \in 0 .. 7
  BY <1>1, <1>2, ExecuteStep DEF Step
<1>4. /\ at = "execute"
      /\ \/ /\ ret' = "SUCCESS" /\ at' = "catch_up"
            /\ cpu_cycles' = cpu_cycles + cycles' /\ event_loop' = event_loop
         \/ /\ ret' # "SUCCESS" /\ at' = "check_stop"
            /\ cpu_cycles' = cpu_cycles /\ event_loop' = FALSE
      /\ UNCHANGED <<file, vram, scanline, ppu_cycles, status>>
  BY DEF Instruct
<1>5. ppu_cycles \in Int /\ cpu_cycles \in Nat
  BY FrameTypes DEF IInv, TypeOK
<1>6. TypeOK'
  <2>1. cpu_cycles' \in Nat
    BY <1>3, <1>4, <1>5
  <2>2. at' \in Places /\ at' # "exited" /\ event_loop' \in BOOLEAN
    BY <1>4 DEF IInv, TypeOK, Places, LoopPlaces
  <2>3. IsCartridge(cartridge') /\ IsVram(vram')
    BY <1>3, <1>4 DEF IInv, TypeOK
  <2> QED
    BY <1>3, <1>4, <2>1, <2>2, <2>3 DEF IInv, TypeOK, Registers
<1>7. file' \in Files /\ FileIsLoaded' /\ Refused'
  BY <1>3, <1>4, FileStays
<1>8. Budget'
  BY <1>3, <1>4, <1>5 DEF IInv, Budget, OvershootBounded
<1>9. RunsOn' /\ VideoUntouched'
  BY <1>4 DEF IInv, RunsOn, VideoUntouched
<1> QED
  BY <1>6, <1>7, <1>8, <1>9 DEF IInv

(* The end of a turn of the event loop.                                    *)
LEMMA CheckStopIInv == IInv /\ CheckStop => IInv'
<1> SUFFICES ASSUME IInv, CheckStop PROVE IInv'
  OBVIOUS
<1>1. /\ at = "check_stop" /\ at' = "test"
      /\ event_loop' = (event_loop /\ ~ cpu.stop)
      /\ UNCHANGED <<cpu, data, cartridge, ret, cycles, vram, scanline, file,
                     ppu_cycles, cpu_cycles, status>>
  BY DEF CheckStop, machine, cpuVars
<1>2. event_loop' \in BOOLEAN /\ (event_loop' => ~ cpu'.stop)
  BY <1>1, Zenon DEF IInv, TypeOK
<1>3. TypeOK'
  BY <1>1, <1>2 DEF IInv, TypeOK, Places, LoopPlaces
<1>4. file' \in Files /\ FileIsLoaded' /\ Refused'
  BY <1>1, FileStays
<1>5. RunsOn' /\ VideoUntouched' /\ Budget'
  BY <1>1, <1>2 DEF IInv, RunsOn, VideoUntouched, Budget, OvershootBounded
<1> QED
  BY <1>3, <1>4, <1>5 DEF IInv

(* SIGINT, which moves nothing but the flag.                               *)
LEMMA InterruptIInv == IInv /\ Interrupt => IInv'
<1> SUFFICES ASSUME IInv, Interrupt PROVE IInv'
  OBVIOUS
<1>1. /\ at \in LoopPlaces /\ event_loop' = FALSE
      /\ UNCHANGED <<cpu, data, cartridge, ret, cycles, vram, scanline, file, at,
                     ppu_cycles, cpu_cycles, status>>
  BY DEF Interrupt, machine, cpuVars
<1>2. TypeOK'
  BY <1>1 DEF IInv, TypeOK
<1>3. at \notin {"load", "exited"} /\ at' # "exited"
  BY <1>1 DEF LoopPlaces
<1>4. file' \in Files /\ FileIsLoaded' /\ Refused'
  BY <1>1, <1>3, FileStays
<1>5. RunsOn' /\ VideoUntouched' /\ Budget'
  BY <1>1 DEF IInv, RunsOn, VideoUntouched, Budget, OvershootBounded
<1> QED
  BY <1>2, <1>4, <1>5 DEF IInv

(* Nothing happens after the end.                                          *)
LEMMA StutterIInv == IInv /\ UNCHANGED vars => IInv'
<1> SUFFICES ASSUME IInv, UNCHANGED vars PROVE IInv'
  OBVIOUS
<1>1. UNCHANGED <<cpu, data, cartridge, ret, cycles, vram, scanline, file, at,
                  event_loop, ppu_cycles, cpu_cycles, status>>
  BY DEF vars, cpuVars
<1>2. TypeOK'
  BY <1>1 DEF IInv, TypeOK
<1>3. (Fits(file') <=> Fits(file)) /\ CartridgeOf(file') = CartridgeOf(file)
  BY <1>1 DEF Fits, CartridgeOf, PrgOf
<1>4. file' \in Files /\ FileIsLoaded' /\ Refused'
  BY <1>1, <1>3 DEF IInv, FileIsLoaded, Refused
<1>5. RunsOn' /\ VideoUntouched' /\ Budget'
  BY <1>1 DEF IInv, RunsOn, VideoUntouched, Budget, OvershootBounded
<1> QED
  BY <1>2, <1>4, <1>5 DEF IInv

(* Every step keeps the invariant.                                         *)
LEMMA NextIInv == IInv /\ [Next]_vars => IInv'
<1>1. IInv /\ Next => IInv'
  BY LoadIInv, PowerUpIInv, TestIInv, RenderIInv, CatchUpIInv, InstructIInv,
     CheckStopIInv, InterruptIInv, StutterIInv DEF Next, Exited
<1> QED
  BY <1>1, StutterIInv

(* Every state satisfies the invariant.                                    *)
LEMMA SpecIInv == Spec => []IInv
BY InitIInv, NextIInv, PTL DEF Spec

-----------------------------------------------------------------------------
(* The theorems.                                                           *)

(* Registers, memories, cartridge and scanline stay in their ranges,       *)
(* whatever the file is and the program in it does, and main has returned  *)
(* exactly when the main thread has left it.                               *)
THEOREM TypeCorrect == Spec => []TypeOK
<1>1. IInv => TypeOK
  BY DEF IInv
<1> QED
  BY <1>1, SpecIInv, PTL

(* main returns EXIT_FAILURE for a file that fails one of the loader's     *)
(* checks and for no other, however it ends.                               *)
THEOREM OnlyUnloadableIsRefused == Spec => []RefusesUnloadable
<1>1. IInv => RefusesUnloadable
  <2> SUFFICES ASSUME IInv, at # "load"
               PROVE  (status = "EXIT_FAILURE") <=> ~ Loadable
    BY DEF RefusesUnloadable
  <2>1. Loadable <=> Fits(file)
    BY LoadableFits DEF IInv
  <2>2. CASE at = "exited"
    BY <2>1, <2>2 DEF IInv, Refused
  <2>3. CASE at # "exited"
    <3>1. status = "NULL" /\ Fits(file)
      BY <2>3 DEF IInv, TypeOK, FileIsLoaded
    <3> QED
      BY <2>1, <3>1
  <2> QED
    BY <2>2, <2>3
<1> QED
  BY <1>1, SpecIInv, PTL

(* No line is rendered for a stopped processor.                            *)
THEOREM StopEndsRendering == Spec => []NoLineAfterStop
<1>1. IInv => NoLineAfterStop
  BY DEF IInv, RunsOn, NoLineAfterStop
<1> QED
  BY <1>1, SpecIInv, PTL

(* The processor's time for a line is that of the line, or longer by less  *)
(* than one instruction, however long a line is.                           *)
THEOREM OvershootIsBounded == Spec => []OvershootBounded
<1>1. IInv => OvershootBounded
  BY DEF IInv, Budget
<1> QED
  BY <1>1, SpecIInv, PTL

-----------------------------------------------------------------------------
(* What runs is the file.                                                  *)

(* What the assumptions say of the numbers of PRG ROM.                     *)
LEMMA RomNumbers ==
  /\ ROM_BEGIN \in Nat /\ PRGROM_BANK_SIZE \in Nat \ {0} /\ PRGROM_BANK_SIZE >= 4
  /\ NROM_PRGROM_SIZE = 2 * PRGROM_BANK_SIZE
  /\ WORD \in Nat /\ WORD = ROM_BEGIN + NROM_PRGROM_SIZE
  /\ CARTRIDGE_BEGIN \in Nat /\ CARTRIDGE_BEGIN <= ROM_BEGIN
BY NromAssumption, ConsoleMapAssumption, MapAssumption, Widths DEF NROM_PRGROM_SIZE

(* The offset of an address of PRG ROM, in the ROM and in each of its      *)
(* banks.                                                                  *)
LEMMA RomOffset ==
  ASSUME NEW b \in 0 .. (NROM_PRGROM_SIZE - 1)
  PROVE  /\ (ROM_BEGIN + b) % NROM_PRGROM_SIZE = b
         /\ b < PRGROM_BANK_SIZE =>
              /\ (ROM_BEGIN + b) % PRGROM_BANK_SIZE = b
              /\ (ROM_BEGIN + PRGROM_BANK_SIZE + b) % PRGROM_BANK_SIZE = b
<1> DEFINE size == PRGROM_BANK_SIZE
           rom  == NROM_PRGROM_SIZE
           q    == ROM_BEGIN \div rom
<1>1. /\ size \in Nat \ {0} /\ rom \in Nat \ {0} /\ rom = 2 * size
      /\ ROM_BEGIN \in Int /\ b \in 0 .. (rom - 1)
  BY RomNumbers
<1>2. q \in Int /\ ROM_BEGIN = q * rom + 0
  BY <1>1, DivMod, ConsoleMapAssumption
<1> HIDE DEF size, rom, q
<1>3. (q * rom + b) % rom = b
  BY <1>1, <1>2, DivModUnique
<1>4. ASSUME b < size
      PROVE  /\ (ROM_BEGIN + b) % size = b
             /\ (ROM_BEGIN + size + b) % size = b
  <2> DEFINE k == 2 * q
             n == 2 * q + 1
  <2>1. k \in Int /\ n \in Int /\ b \in 0 .. (size - 1)
    BY <1>1, <1>2, <1>4
  <2>2. ROM_BEGIN + b = k * size + b /\ ROM_BEGIN + size + b = n * size + b
    BY <1>1, <1>2
  <2> HIDE DEF k, n
  <2>3. (k * size + b) % size = b /\ (n * size + b) % size = b
    BY <1>1, <2>1, DivModUnique
  <2> QED
    BY <2>2, <2>3
<1> QED
  BY <1>1, <1>2, <1>3, <1>4 DEF size, rom

(* The CPU's bus answers with the file's PRG data.                         *)
LEMMA PrgIsFile ==
  ASSUME file \in Files, Fits(file), cartridge = CartridgeOf(file),
         NEW b \in 0 .. (prgrom_len(file) - 1)
  PROVE  /\ Read8(ROM_BEGIN + b, 0) = [err |-> "SUCCESS", result |-> FileByte(b)]
         /\ prgrom_len(file) = PRGROM_BANK_SIZE =>
              Read8(ROM_BEGIN + PRGROM_BANK_SIZE + b, 0)
                = [err |-> "SUCCESS", result |-> FileByte(b)]
<1> DEFINE len == prgrom_len(file)
           mirrored == len <= PRGROM_BANK_SIZE
<1>1. /\ len \in Nat /\ len <= NROM_PRGROM_SIZE /\ b \in 0 .. (len - 1)
      /\ NROM_PRGROM_SIZE \div 2 = PRGROM_BANK_SIZE
  BY FileNumbers, ConsoleAssumption DEF Fits
<1>2. /\ cartridge.prgrom = Copied(ZeroArray, file.bytes, len)
      /\ cartridge.mirrored_bank = mirrored
  BY <1>1, LoadedFields
<1> HIDE DEF len
<1>3. b \in Nat /\ b < len /\ b \in 0 .. (NROM_PRGROM_SIZE - 1)
  BY <1>1, RomNumbers
<1>4. Peek(cartridge.prgrom, b) = FileByte(b)
  BY <1>1, <1>2, <1>3, PeekCopied DEF FileByte
<1> DEFINE index(a) == IF cartridge.mirrored_bank THEN a % PRGROM_BANK_SIZE
                       ELSE a % NROM_PRGROM_SIZE
<1>5. \A a \in Int : a >= ROM_BEGIN =>
        Read8(a, 0) = [err |-> "SUCCESS", result |-> Peek(cartridge.prgrom, index(a))]
  BY RomNumbers DEF Read8, nes_mem_r8, nes_ines_nrom_prg_reader
<1>6. /\ (ROM_BEGIN + b) % NROM_PRGROM_SIZE = b
      /\ b < PRGROM_BANK_SIZE =>
           /\ (ROM_BEGIN + b) % PRGROM_BANK_SIZE = b
           /\ (ROM_BEGIN + PRGROM_BANK_SIZE + b) % PRGROM_BANK_SIZE = b
  BY <1>3, RomOffset
<1>7. mirrored => b < PRGROM_BANK_SIZE
  BY <1>1, <1>3, RomNumbers
<1>8. index(ROM_BEGIN + b) = b
  BY <1>2, <1>6, <1>7
<1>9. len = PRGROM_BANK_SIZE => index(ROM_BEGIN + PRGROM_BANK_SIZE + b) = b
  <2>1. len = PRGROM_BANK_SIZE => mirrored
    BY RomNumbers
  <2> QED
    BY <1>2, <1>6, <1>7, <2>1
<1>10. /\ ROM_BEGIN + b \in Int /\ ROM_BEGIN + b >= ROM_BEGIN
      /\ ROM_BEGIN + PRGROM_BANK_SIZE + b \in Int
      /\ ROM_BEGIN + PRGROM_BANK_SIZE + b >= ROM_BEGIN
  BY <1>3, RomNumbers
<1> HIDE DEF index
<1> QED
  BY <1>4, <1>5, <1>8, <1>9, <1>10 DEF len

(* The PPU's bus answers with the file's CHR data.                         *)
LEMMA ChrIsFile ==
  ASSUME file \in Files, Fits(file), cartridge = CartridgeOf(file),
         NEW a \in 0 .. (chrrom_len(file) - 1)
  PROVE  nes_vram_r8(vram, cartridge, a, 0)
           = [err |-> "SUCCESS", result |-> FileByte(prgrom_len(file) + a)]
<1> DEFINE prg == prgrom_len(file)
           chr == chrrom_len(file)
<1>1. /\ prg \in Nat /\ chr \in Nat /\ chr <= NROM_CHRROM_SIZE
      /\ NROM_CHRROM_SIZE = PATTERN_TABLE_ADDR /\ PATTERN_TABLE_ADDR \in Nat
      /\ IsFile(file) /\ a \in 0 .. (chr - 1)
  BY FileNumbers, ConsoleAssumption, PpuMapAssumption, VideoNumbers DEF Fits
<1>2. /\ cartridge.chrrom = Copied(ZeroArray, DataFrom(file, prg), chr)
      /\ cartridge.chr_mapper_fn \in Mappers
  BY <1>1, LoadedFields DEF chr_mapper_of, Mappers
<1> HIDE DEF prg, chr
<1>3. a \in Nat /\ a < chr /\ a < NROM_CHRROM_SIZE /\ ~ (a >= NROM_CHRROM_SIZE)
  BY <1>1
<1>4. a \in Word /\ a \in Chr
  <2>1. PATTERN_TABLE_ADDR < WORD /\ WORD \in Nat
    BY VideoNumbers, VideoAssumption, Widths
  <2> QED
    BY <1>1, <1>3, <2>1 DEF Word, Chr
<1>5. Peek(cartridge.chrrom, a) = FileByte(prg + a)
  <2>1. Peek(cartridge.chrrom, a) = Peek(DataFrom(file, prg), a)
    BY <1>1, <1>2, <1>3, PeekCopied
  <2>2. Peek(DataFrom(file, prg), a) = Peek(file.bytes, a + prg)
    BY <1>1, <1>3, DataFromType
  <2>3. a + prg = prg + a
    BY <1>1, <1>3
  <2> QED
    BY <2>1, <2>2, <2>3 DEF FileByte
<1>6. Locate(cartridge, a) = Located("chr", a)
  BY <1>2, <1>4, LocatedByRegion, Regions
<1>7. nes_vram_r8(vram, cartridge, a, 0) = nes_ines_nrom_chr_reader(cartridge, a, 0)
  BY <1>6 DEF nes_vram_r8, Located
<1> QED
  BY <1>3, <1>5, <1>7 DEF nes_ines_nrom_chr_reader, prg

(* Both buses answer with the file, each byte of it at its place.          *)
THEOREM CartridgeHoldsFile == Spec => []CartridgeIsFile
<1>1. IInv => CartridgeIsFile
  <2> SUFFICES ASSUME IInv, at = "power_up"
               PROVE  CartridgeIsFile
    BY DEF CartridgeIsFile
  <2>1. file \in Files /\ Fits(file) /\ cartridge = CartridgeOf(file)
    BY DEF IInv, FileIsLoaded
  <2>2. ASSUME NEW b \in 0 .. (prgrom_len(file) - 1),
               NEW half \in IF file.prgrom = 1 THEN {0, PRGROM_BANK_SIZE} ELSE {0}
        PROVE  Read8(ROM_BEGIN + half + b, 0).result = FileByte(b)
    <3>1. half = 0 \/ (half = PRGROM_BANK_SIZE /\ prgrom_len(file) = PRGROM_BANK_SIZE)
      BY RomNumbers DEF prgrom_len
    <3>2. ROM_BEGIN + 0 + b = ROM_BEGIN + b
      BY <2>1, FileNumbers, ConsoleAssumption, RomNumbers
    <3>3. /\ Read8(ROM_BEGIN + b, 0) = [err |-> "SUCCESS", result |-> FileByte(b)]
          /\ prgrom_len(file) = PRGROM_BANK_SIZE =>
               Read8(ROM_BEGIN + PRGROM_BANK_SIZE + b, 0)
                 = [err |-> "SUCCESS", result |-> FileByte(b)]
      BY <2>1, PrgIsFile
    <3>4. CASE half = 0
      BY <3>2, <3>3, <3>4
    <3>5. CASE half = PRGROM_BANK_SIZE /\ prgrom_len(file) = PRGROM_BANK_SIZE
      BY <3>3, <3>5
    <3> QED
      BY <3>1, <3>4, <3>5
  <2>3. ASSUME NEW a \in 0 .. (chrrom_len(file) - 1)
        PROVE  nes_vram_r8(vram, cartridge, a, 0).result = FileByte(prgrom_len(file) + a)
    BY <2>1, ChrIsFile
  <2> QED
    BY <2>2, <2>3 DEF CartridgeIsFile
<1> QED
  BY <1>1, SpecIInv, PTL

(* The power-up reads the program counter from the end of the file's PRG   *)
(* data, whether that is one bank, seen twice, or two.                     *)
LEMMA PowerUpBoots == IInv /\ [Next]_vars => Boots
<1> SUFFICES ASSUME IInv, [Next]_vars,
                    at = "power_up", at' = "test", file.prgrom > 0
             PROVE  cpu'.pc = U16(FileByte(prgrom_len(file) - 4 + 1),
                                  FileByte(prgrom_len(file) - 4))
  BY DEF Boots
<1> DEFINE len == prgrom_len(file)
           size == PRGROM_BANK_SIZE
<1>1. /\ file \in Files /\ Fits(file) /\ cartridge = CartridgeOf(file)
  BY DEF IInv, FileIsLoaded
<1>2. PowerUp
  <2>1. ~ UNCHANGED vars
    BY DEF vars
  <2>2. ~ Exited /\ ~ LoadCartridge /\ ~ TestLoop /\ ~ RenderLine /\ ~ CatchUp
    BY <2>1 DEF Exited, LoadCartridge, TestLoop, RenderLine, CatchUp
  <2>3. ~ Instruct /\ ~ CheckStop /\ ~ Interrupt
    BY DEF Instruct, CheckStop, Interrupt, LoopPlaces
  <2> QED
    BY <2>1, <2>2, <2>3 DEF Next
<1>3. len \in {size, 2 * size} /\ len \in Nat
  <2>1. file.prgrom \in Nat /\ file.prgrom <= 2
    BY <1>1, LoadableFits, ConsoleAssumption DEF IsFile, Loadable
  <2>2. file.prgrom \in {1, 2}
    BY <2>1
  <2> QED
    BY <2>2, RomNumbers DEF prgrom_len
<1>4. /\ len - 4 \in 0 .. (len - 1) /\ len - 4 + 1 \in 0 .. (len - 1)
  BY <1>3, RomNumbers
<1> DEFINE low  == [err |-> "SUCCESS", result |-> FileByte(len - 4)]
           high == [err |-> "SUCCESS", result |-> FileByte(len - 4 + 1)]
<1>5. Read8(VECTOR_RESET, 0) = low /\ Read8(Inc16(VECTOR_RESET), 0) = high
  <2>1. Inc16(VECTOR_RESET) = VECTOR_RESET + 1
    BY RomNumbers DEF Inc16, VECTOR_RESET
  <2>2. CASE len = size
    <3>1. /\ VECTOR_RESET = ROM_BEGIN + size + (len - 4)
          /\ VECTOR_RESET + 1 = ROM_BEGIN + size + (len - 4 + 1)
      BY <2>2, RomNumbers DEF VECTOR_RESET
    <3> QED
      BY <1>1, <1>4, <2>1, <2>2, <3>1, PrgIsFile
  <2>3. CASE len = 2 * size
    <3>1. /\ VECTOR_RESET = ROM_BEGIN + (len - 4)
          /\ VECTOR_RESET + 1 = ROM_BEGIN + (len - 4 + 1)
      BY <2>3, RomNumbers DEF VECTOR_RESET
    <3> QED
      BY <1>1, <1>4, <2>1, <3>1, PrgIsFile
  <2> QED
    BY <1>3, <2>2, <2>3
<1>6. Read16(VECTOR_RESET, 0).result = U16(FileByte(len - 4 + 1), FileByte(len - 4))
  BY <1>5 DEF Read16, nes_mem_r16, Read8
<1> QED
  BY <1>2, <1>6 DEF PowerUp, nes_cpu_init

(* The processor starts at the file's RESET vector.                        *)
THEOREM FileBoots == Spec => BootsFromFile
<1>1. IInv /\ [Next]_vars => [Boots]_vars
  BY PowerUpBoots
<1> QED
  BY <1>1, SpecIInv, PTL DEF Spec, BootsFromFile
=============================================================================

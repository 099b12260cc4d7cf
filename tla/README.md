# A TLA+ verification of libnesemu

libnesemu emulates a NES in C: a processor, a memory bus, a stack in that
memory, cartridges, video memory and a picture unit, driven by a front end.
These modules model its state and its operations as the code performs them,
check them with TLC on small instances, and prove with TLAPS, for every value of
their constants, every invariant, action property and refinement that the runs
find to hold; what is left to TLC alone is liveness. Paths below are relative to the repository; `main.c` is
`src/memory/main.c` unless it is called the front end.

## The system

| Part | State | Operations | Who calls it |
|---|---|---|---|
| Main memory bus (`memory/main.c`) | `_data`, 0x4020 bytes; the cartridge | init, r8, w8, r16, w16 | processor, stack, PPU (PPUCTRL) |
| Stack (`memory/stack.c`) | none: the bytes are main memory's, the pointer is the processor's | push and pop of a byte or a word | JSR, RTS, PHA, PLA, PHP, PLP, BRK, RTI |
| Cartridge (`cartridge/`) | PRG ROM, CHR ROM, callbacks | iNES loader; NROM loaders and readers; the two mirroring functions | both buses, through function pointers |
| Processor (`cpu/`) | pc, sp, a, x, y, status, stop, brk | init, reset, next | front end, `tests/src/nestest.c` |
| Video memory bus (`memory/video.c`) | CIRAM, palette RAM; the cartridge | r8, w8, r16, w16, pattern and palette reads | PPU |
| PPU (`ppu/ppu.c`) | the scanline | init, render one scanline | front end |
| Front end (`emulator/src/main.c`) | event-loop flag | the loop: render a scanline, let the processor catch up | the user |

Every call is synchronous and there is one thread; the only asynchronous event
is the front end's SIGINT handler, which clears a flag. What is hard here is
therefore not interleaving. It is long sequences of legal calls, partial
failure and widths:

* The stack is shared by calls, interrupts and explicit pushes and pulls, it
  overlaps zero page, and its checks look at one byte when a word is moved.
* A call that fails half-way (a word across the cartridge's border, a push in
  the middle of an instruction) leaves part of its effect behind.
* Some errors are returned without stopping the processor and some are
  discarded by the dispatch.
* Every address and every index is an 8- or 16-bit number that wraps, and the
  same mirroring is computed separately by reads and by writes.

What makes each part correct:

* **Main memory**: a read returns the last byte written to any alias of its
  address; nothing else changes; a refused write changes nothing; the mirrored
  ranges of the array are never touched.
* **Stack**: last-in first-out for any mixture of bytes and words, a refused
  call changes nothing, and no access leaves the stack's page.
* **Processor**: the return addresses of calls in progress survive everything
  but an explicit store; a return goes where its call came from; a failing
  instruction disturbs neither the program's registers nor the stack, and is
  reported; N and Z are those of the last result (the code breaks this); B is
  never live.
* **Cartridge**: a file is refused exactly when it does not fit, whichever of
  the loader's checks notices, and what was loaded is what both buses answer.
* **Video memory**: an address space with aliases like main memory's, wired by
  the mirroring function of the inserted cartridge; reads of several bytes are
  the bytes one by one and stay in their table.
* **PPU**: every visible line is drawn once a frame and in order, whatever
  fails in between, and each of its pixels is the one the nametables say.
* **Front end**: the catch-up ends and stays within one instruction of its
  budget; no line follows a stop or a failure; a cleared flag ends the program.

## Modules

A C function that can fail is an operator that returns a record: `err` is its
return code and the other fields are what it leaves in its structure or
behind its pointers. The state machines store these records in variables, one
action per call.

| Module | Models | Remarks |
|---|---|---|
| `Words` | `uint8_t`, `uint16_t`, byte arrays | The width `BYTE` is a constant. An array after `memset(0)` is a function on its nonzero cells. |
| `Nrom` | `nrom.c` | Loaders with their size checks, readers with the bank mirroring, for both sides of the cartridge. |
| `Ines` | `cartridge.c` | The checks of the loader in their order, and what each leaves in the structure. |
| `Mirroring` | `mirroring.c` | The two mirroring functions, for any size of a nametable. |
| `MainMemory` | `main.c` | Every number of the header is a constant; `MapAssumption` says what the proofs need of them. |
| `MemoryClient` | any caller of `main.h` | One disjunct per function of the header; `ret` and `result` are what the caller sees. |
| `AddressSpace` | nothing: the abstract bus | A write is seen at all aliases of its address (`wiring`) and nowhere else; a refused call returns the code of its address. Both buses implement it. |
| `MemoryRefinement` | the mapping | `bus` is what a read would answer at each address, `wiring` the mirrors of the header, the return codes those of the NROM mapper. |
| `Stack` | `stack.c` | Including the cast that truncates the base away, and the wrap-arounds of the word operations. |
| `StackClient` | any caller of `stack.h` | |
| `Lifo` | nothing: the abstract stack | A bounded sequence. Two steps are not a stack's and are named: `Overrun` and `Underrun`. |
| `Video` | `video.c` | `Locate` says in which of the three memories an address is, or which code refuses it; the six functions are built on it. |
| `VideoClient` | any caller of `video.h` | As `MemoryClient`, with any of several cartridges inserted. |
| `VideoRefinement` | the mapping | The wiring is the one of the cartridge's mirroring: nametables repeat as a pair (vertical) or each in its half (horizontal), palettes every `PALETTE_RAM_SIZE`. |
| `Status` | `status.h` | The status register is the set of its flags. |
| `Instructions` | `instructions.h`, `instructions.c`, the cases of the dispatch | Opcode of each instruction and mode, bytes fetched, cycle table. |
| `Cpu` | `cpu.c`, `decode.c` | One action per handler. An action is a whole `nes_cpu_next`: fetch, handler and the common end. |
| `Runner` | `run()` of `tests/src/nestest.c`, and the restart button | Also holds the history of the calls in progress. |
| `Ppu` | `ppu.c` | One scanline: the reads of each tile, the first failure, the next scanline. |
| `PpuClient` | any host of `nes_ppu_render` | Writes PPUCTRL and changes the cartridge between two lines. |
| `Console` | `main` of `emulator/src/main.c` | Composes `Ines`, `Cpu` and `Ppu`: one action per step of the loop, and SIGINT. |
| `Programs` | nothing | The PRG data of small programs. |
| `MC*` | | Constants of the runs: memory maps, cartridges, programs, files. |
| `*_proofs` | | Theorems about the module of that name; `Memory_proofs` and `Cpu_proofs` hold the lemmas that several of them need. |

How the state corresponds: `data` is `_data` of `struct nes_mem_main`,
`cartridge` is the mapper's structure, `cpu` is `struct nes_cpu` with the
status as a set of bit numbers, `ret` is the value the last `nes_cpu_next`
returned and `cycles` what it left in `*cycles`. In `StackClient`, `sp` is the
pointer the caller owns. `frames`, `resets` and `steps` in `Runner` are not in
the code: the first is a history variable, the others are bounds.

`vram` is `struct nes_mem_video` without its pointer to the cartridge, and
`scanline` the only field of `struct nes_ppu` that any code uses. A cartridge
is one record: the mapper's arrays, the type, and `chr_mapper_fn`, which stands
for the whole set of callbacks because the loader sets them together ("NULL"
before). A file is its header's fields (sizes in banks, arrangement bit, mapper
number, magic), its length and the nonzero bytes of its data. `drawn` in
`PpuClient` is a history variable. In `Console`, `at` is the program counter of
`main`, `event_loop` the flag that the loop and the signal handler share,
`ppu_cycles` and `cpu_cycles` the two locals the catch-up compares, and
`status` what `main` returned; `ret` and `cycles` are those of the last
instruction, as in `Runner`.

`frames` records each JSR and BRK in progress, with its address and the stack
pointer it found. A frame is dropped when the pointer rises above it, when a
word wraps around the end of the stack, or when a store instruction changes
its return address; the last is possible because the stack lies in zero page.
BRK pushes two words, so that it wraps with the first at pointer 1 and with the
second at pointer 3. Addresses in a frame are 16-bit numbers: a JSR in the last
bytes of the address space pushes a return address that has wrapped.

Some of what the code does is surprising and modelled as it is: N and Z are
only ever added to the status by the handlers; ADC and SBC take them from the
accumulator before the operation; SBC adds the carry and sets it on a borrow;
both arms of a comparison's conditional set the carry; CLV sets V; ROL and ROR
move a constant 1 in; the indirect jump dereferences its target once more; INC,
DEC and the memory shifts report success even when their operand cannot be
read or written; an unsupported opcode does not stop the processor; a restart
leaves `stop` and `brk` alone. A call that fails stores its opcode in `brk`, so
that a failing BRK leaves 0 there, while `cpu.h` documents the field as "BRK
Reason (0xFF on internal error)". No code on the modelled paths reads the field,
so that no property speaks of its value. `nes_cpu_fetch` returns an uninitialised
variable at an unmapped address: `Garbage` is the set of bytes it may be.

The bit of flags 6 that asks for horizontal mirroring selects the vertical
function and the other way round; a video write that crosses from one memory
into the next stores its first byte whatever the second does; the front end
looks at its flags between scanlines only, so that a stopped processor goes on
executing to the end of the line.

Left out throughout: the branches on NULL arguments, and those on NULL
callbacks but for the mirroring function's, which a PPU without a loaded
cartridge meets, the build
variant that disables the safety checks, and the debug-only fields of the
processor.

## Runs

| Run | Question | Result |
|---|---|---|
| `memory` | Does the bus implement `AddressSpace`, for every sequence of calls? | holds |
| `stack` | Does the stack implement `Lifo`? | holds |
| `processor` | All 256 opcodes: types, failures, stores. Do return addresses survive every small program of calls, with a restart anywhere? | holds |
| `memory_doc` | `RamFullyMirrored`: the header's mirroring table | violated at 0x1800 |
| `stack_doc` | `StackInPageOne`: the header's "adding the base address" | violated by the first push |
| `interrupt_doc` | `ResumesAfterInterrupt`: RTI's "Pull program counter" | violated by BRK, RTI |
| `indexed_doc` | `PostIndexed`: "Add Y to the actual address" | violated by LDA (zp),Y |
| `nz_doc` | `FlagsFollowResult`: the loads' "Update status flags" | violated by a load of zero and one of another value |
| `video` | Does video memory implement `AddressSpace`, and do its longer reads agree with it? | holds |
| `ppu` | Is every line drawn once, in order, and what the nametables say? | holds |
| `console` | What is loaded, how far the processor runs ahead, does the loop end? | holds |
| `arrangement_doc` | `NametableArrangement`: the header's table of flags 6 | violated by a file with the bit clear |

**memory.** 16 addresses (4 values to a byte) in the order of the real map: two
RAM bytes, one mirror and a half, a byte past the mirrors, two PPU registers
and their mirrors, an I/O register, unmapped cartridge space, ROM. Each
boundary has an address on each side, words straddle each of them, and the
last address wraps to the first. Two values (0 and not 0) are enough to tell
which write a cell holds; two cartridges cover one and two banks. The state
space is complete.

**stack.** 6 values to a byte, hence a stack of 5 bytes: both ends and both
parities of the wrap-arounds are reached, and words and bytes mix in every
order. Complete.

**processor.** The real map and byte, and two families of programs, 16506 in
all (1 077 207 states).

* *Instructions* (`MCInstructions`). Each program loads the registers, the carry
  and a pointer and then executes one opcode with one operand. 6 register
  settings by 6 operands by 256 opcodes: the operands and indexes land in RAM,
  on its mirrors, in PRG ROM, in unmapped space and on 0xFFFF; stack pointers 0,
  1, 2, 0xFD, 0xFE and 0xFF reach both ends of the stack for bytes and words;
  values 0, 1, 0x7F, 0x80, 0x81 and 0xFF reach each carry, borrow and overflow.
* *Calls* (`MCCalls`). Every sequence of 4 blocks (of 3, for the second pointer)
  out of two calls, RTS, PHA, PLA, PHP with PLP, a store, BRK and RTI, starting
  with 5 (6) bytes of stack. The calls go to the second and third block, which
  makes recursion and mutual recursion; the third is also the interrupt handler.

The bounds are 16 instructions, with which a recursion runs the stack over both
ends, and one restart, which may come between any two instructions of the
programs of calls (`MayRestart`; the others set their registers and the stack
pointer anew after a restart, which would only repeat them). The
host may really stop (STP, an error, the bound), so deadlock is not checked here.

`Isolated` in `Cpu` says what a failing call may have done. Nothing happens to
the registers, the stack pointer and memory, but that a BRK may have pushed its
return address before its second push fails, and that an RTI has taken the
status when its word fails. The program counter is behind the instruction, but a
JSR has jumped although its push failed, and an RTS has counted it once more.
`FailureIsolation` is this predicate for the fetched instruction, and its mutant
checks the bound of a push after the word is stored.

`FailureReported` says that the call which fails stops the processor, with the
exception of the unsupported opcode, whose `return` skips the end of
`nes_cpu_next`: the host gets a code of its own and `stop` stays clear, so that
a host which looks at `stop` alone would run on.

`SuccessMeansStored` says that the result of a store that reports success is
read back at its address, and names the exception: INC, DEC and the memory
shifts report success on the cartridge too, because the dispatch discards their
errors, and then change neither memory nor flags.

**video.** 16 addresses in the order of the real map: one pattern of two bytes,
four nametables of two bytes and the first of their mirrors (the real map ends
its mirrors early too, where the palettes begin), one palette and a mirror of
it, an address past the end. Calls use both sides of every border; words cross
each of them, and the last one wraps to the first. Two cartridges, loaded from
files that differ in the arrangement bit, bring both mirroring functions. Bytes
are 0 or 3 and the halves of a word differ, so that a swapped or lost half
shows. Complete.

**ppu.** The real frame: 262 scanlines, 240 of them visible with 32 tiles of 8
dots. Between any two lines the host may write one of four values to PPUCTRL
(all four nametables, both pattern tables), at its address or at a mirror, and
insert one of three files, of which one is refused and leaves the PPU without a
mirroring function: every line then fails until the next file. Nothing in the
repository writes video memory yet, so that the run fills it as a host would:
tiles and attributes differ along rows, columns and tables and every palette
byte is different. `LineIsBackground` compares every pixel of the next line
with `Background`, a definition of a background pixel that goes from the pixel
to its bytes rather than along a line. Complete.

**console.** 8 programs (endless, free of charge but for a jump, writing
PPUCTRL, stopping, failing, filling the stack by calls and by interrupts) and
13 images that the loader must accept or refuse at each of its checks and at
their borders. The real memory maps; lines have the real 341 dots, hence 114
CPU cycles, and a frame has 12 of them, of 16 pixels, so that an endless
program comes back to an earlier state soon. SIGINT may come anywhere in the loop and the window may close at
every test. `NoLineAfterStop` and `StopEndsLoop` speak of both ways to fail: the
programs that fill the stack fail with `stop` set, the failing one executes an
unsupported opcode and leaves it clear, so that only the front end's look at the
return code ends the loop. `CartridgeIsFile` compares every byte of both parts of the file with
what the two buses answer, in both halves of PRG ROM when the file has one bank.
Complete (66 775 states); `Exited` stutters, so that deadlock is checked.

The six `_doc` runs check a sentence of the repository each, quoted with its
line in `PROJECT.json` under `findings`, and TLC shows the code doing
something else. Four change what programs compute (the stack in zero page,
BRK and RTI, post-indexing, and N and Z, which the handlers set and never clear,
so that a branch after a load may follow an earlier result), one what they show (the two mirrorings swapped),
and one is a difference of region that only a program using the upper mirror
would see.

Each property of a passing run is shown to depend on the code by a mutant: an
operator written beside the one it replaces, with a plausible slip (a dropped
check, an off-by-one, a swapped order), under which TLC finds the property
violated.

Liveness is checked in `console`, under `WF_at(MainThread)`: as long as `main`
has not returned, it takes its next step. That is all that running sequential
code means. Each of its steps changes `at`; SIGINT never does, so that fairness
forces neither the signal nor a particular answer of the window. Under it,
`CatchUpEnds` (the inner loop, which looks at no flag, ends for each program of
the run), `InterruptEndsLoop` and `StopEndsLoop` hold. `CatchUpEnds` is a
property of the programs as much as of the loop: some instructions of the table
cost no cycles, and only the jump that closes a loop keeps it from spinning.
The hosts of the other runs may stop at any time and promise no progress.

## Proofs

Every invariant, action property and refinement of a passing run is a theorem.
The pattern is the same throughout: an inductive invariant `IInv` (checked by
TLC first), a lemma that `Init` establishes it, one lemma or step per action
that the action keeps it, and `SpecIInv == Spec => []IInv`, from which the
theorems follow; an action property follows from `IInv /\ [Next]_vars` one step
at a time.

| Module | Theorems | Rests on |
|---|---|---|
| `MemoryClient_proofs` | `TypeCorrect`, `MirrorsNeverUsed`, `AddressSpaceImplemented` | `Memory_proofs` |
| `StackClient_proofs` | `TypeCorrect`, `LifoImplemented` | `Memory_proofs` |
| `VideoClient_proofs` | `TypeCorrect`, `AddressSpaceImplemented`, `PaletteReadsAreBytes`, `PatternReadsAreBytes` | `Memory_proofs` |
| `PpuClient_proofs` | `TypeCorrect`, `FrameIsWhole`, `LineIsBackgrounds` | `Memory_proofs` |
| `Runner_proofs` | `TypeCorrect`, `BreakFlagStaysDead`, `FramesStayIntact`, `FailuresAreIsolated`, `FailuresAreReported`, `SuccessStores`, `CallsReturn` | `Cpu_proofs` |
| `Console_proofs` | `TypeCorrect`, `OnlyUnloadableIsRefused`, `CartridgeHoldsFile`, `FileBoots`, `StopEndsRendering`, `OvershootIsBounded` | `Cpu_proofs` |

`Memory_proofs` has the lemmas about divisions, bytes, words and sparse arrays,
about the calls of main memory and the stack, about the loader and about where
the bytes of video memory are. All theorem modules extend it, so that the
assumptions on the constants of both buses are in scope in each of them;
a proof uses the ones it cites.

### Assumptions

They are the ASSUMEs of the modules; the values in the code satisfy them, and
TLC evaluates each in the runs of the modules that declare it.

* `ByteAssumption`, `NromAssumption`, `InesAssumption`, `MapAssumption`: a byte
  has at least 4 values, the mirrored ranges are whole, in order and below the
  cartridge, and each mirror's base is aligned.
* `StackAssumption`: the stack's page is unmirrored RAM.
* `VideoAssumption`, `MirroringAssumption`: the regions are in order, palettes
  begin within the mirrors of the nametables and divide palette RAM, palette
  RAM divides its region, the address space ends below twice the palettes'
  address (which makes the first of the two palette modulos a subtraction), and
  CIRAM is two nametables.
* `PpuAssumption`, `PpuMapAssumption`: a byte has 256 values, the screen is
  whole tiles wide and at most a nametable, there is a scanline after the
  visible ones before the pre-render line, a visible line is a byte, and the
  regions are those of the header in terms of each other (a nametable is its
  tiles and 64 attribute bytes, a pattern two bytes per dot row, a CHR bank the
  pattern tables). The number of lines and the width of the screen stay free.
* `EightBitAssumption`, `GarbageAssumption`, `RunnerAssumption`: the status is
  8 bits; the uninitialised byte of a fetch is any nonempty set of bytes; the
  bounds on steps and restarts are any numbers.
* `ConsoleAssumption`, `ConsoleMapAssumption`: a file's fields are numbers (any
  numbers: cut, oversized and foreign files included); PRG ROM is the end of
  the address space and starts at a multiple of its size, which makes the
  reader's remainders offsets.

### Arguments

* `MemoryClient_proofs!TypeCorrect` and `MirrorsNeverUsed`: together they are
  inductive; the second follows from the first step by step because a written
  cell is always the image of `Cell`, which is outside of both mirrored ranges.
* `MemoryClient_proofs!AddressSpaceImplemented`: the core is that two addresses
  have the same cell exactly when they are aliases (`AliasIsCell`), by the three
  regions of the map; then storing to a cell is storing to the aliases on the
  bus (`StoreBus`), the wiring never changes (`Refusals`), and the four calls
  map step by step, a word being two stores of which the second may fail.
* `StackClient_proofs!TypeCorrect`: the pointer is a byte, the array holds only
  cells of the stack's page, and no stack operation returns a bus error.
* `StackClient_proofs!LifoImplemented`: the refinement reads the sequence from
  the cells above the pointer; the proof shows how a store below them extends it
  (`ItemsGrow`), how raising the pointer cuts it (`ItemsShrink`), and treats the
  wrap-arounds apart.
* `VideoClient_proofs!TypeCorrect`: CIRAM and palette RAM hold bytes at their
  own indices only. The inductive invariant adds to `TypeOK` that the structure
  has exactly these two arrays, which the records' updates keep and need, and
  that the cartridge is one of those that may be inserted.
* `VideoClient_proofs!AddressSpaceImplemented`: `LocatedByRegion` computes
  `Locate` in each of the four regions, `VerticalCell` and `HorizontalCell` the
  index in CIRAM: vertical mirroring passes low addresses through and folds the
  others by a modulo that is not a power of two, and only CIRAM's modulo
  afterwards makes both agree. `AliasIsLocation` is the core: two addresses are
  aliases exactly when they are located at the same index of the same memory.
* `VideoClient_proofs!PaletteReadsAreBytes`: from `PaletteFits`, that a palette
  at a multiple of its size in any mirror ends before both palette RAM and its
  mirror do. `PatternReadsAreBytes`: under the assumption, true of the header's
  numbers, that a CHR bank is as large as the pattern tables.
* `PpuClient_proofs!FrameIsWhole`: `TypeOK /\ FrameWhole` is inductive.
  `DrawnLine` is the case distinction of a line (every tile succeeds, the line
  is whole and the scanline advances; or some tile fails, the line is cut at the
  first and the scanline stays) and `NextLine` says what that does to the number
  of lines done.
* `PpuClient_proofs!LineIsBackgrounds`: it holds in every state of its types, so
  that no invariant beyond `TypeOK` is needed. `TileAddresses` shows that the
  two nametable reads of a tile stay in the nametables for every PPUCTRL,
  `TilePattern` and `TilePalette` that the other two never fail and give the
  bytes by address, and `PixelNumbers` and `Quarters` that the code's nested
  divisions along the line are the definition's divisions of the pixel's own
  coordinates.
* `Cpu_proofs` has one lemma for each family of handlers, with what the family
  can change, `Isolated` included when the call fails (`Step`); `Dispatch` and
  `OwnHandler` say what each opcode executes, `ExecuteStep` puts the families
  together, and `Pushed` says which bytes below the pointer a push
  leaves as they were.
* `Runner_proofs`: `IInv` is `TypeOK`, `BreakFlagNeverLive`, `FramesIntact` and
  `FramesPlaced` (a frame lies above the pointer). Without the last, a push might
  overwrite a return address in progress, and `FramesIntact` is not inductive.
  `FrameKept` is the core: pushes land below all frames unless a word wraps, and
  the frames are then dropped; a restart moves the pointer and keeps what lies
  above it; a store that hits a frame drops it. `BreakFlagNeverLive` is needed
  in no other proof, and holds by itself because the byte PLP and RTI pull loses
  B. The action properties follow from the handlers' lemmas;
  `FailuresAreReported` needs moreover that only a running processor is called,
  which is why an unsupported opcode leaves `stop` clear and not merely unchanged.
* `Runner_proofs!CallsReturn`: an RTS with its pointer where the JSR left it
  pulls the two bytes `FramesIntact` speaks of; adding one in 16 bits gives the
  address after the JSR also when either wraps.
* `Console_proofs`: `IInv` ties the place of the main thread to the rest.
  `FileIsLoaded` says that from the load on the cartridge is the file's (nothing
  else writes it), `Refused` what the exit status tells, `RunsOn` that the
  processor runs and its last call succeeded when a line is to be rendered and
  when the flag lets the loop go on to one, `Budget` the lead before and after
  each instruction. `RunsOn` is what makes `NoLineAfterStop` inductive: a
  processor may stop anywhere in the catch-up, which `CheckStop` notices on the
  way back to the test, and a call may fail without stopping it, for which
  `Instruct` itself clears the flag.
  `OvershootBounded` comes from `CostType`, that no instruction costs more than
  seven cycles when it succeeds.
* `Console_proofs!CartridgeHoldsFile` and `FileBoots`: `RomOffset` reduces an
  address to its offset in PRG ROM, with one bank and with two, and `PrgIsFile`
  and `ChrIsFile` follow the bytes from the file through the loader's copies to
  the readers.

Three things the proofs showed about the models, which the runs had not met: a
BRK at stack pointer 3 wraps with its second word and loses the frames in
progress; the return address of a JSR in the last two bytes of the address
space wraps; and where an instruction's opcode is an uninitialised byte, several
instructions may execute, so that `ReturnsToCaller` and `SuccessMeansStored`
speak of the fetches that leave one only.

### Only model-checked

* `CatchUpEnds`, `InterruptEndsLoop` and `StopEndsLoop`: liveness under fairness
  is out of the prover's reach. `CatchUpEnds` is moreover a property of the
  programs of the run.
* The six statements of the `_doc` runs are violated; there is nothing to
  prove.
* That the renderer never fails in `Console`, where a loaded cartridge always
  has its mirroring function: `LineIsBackgrounds` shows it for every state of
  `PpuClient` with such a cartridge.

No definition is recursive.

## Not modelled

* Reading the file: `fopen`, `fread` and their failures are the C library's,
  and what a short read leaves in the buffer is not the repository's to say.
  A file that was read is modelled byte for byte where the loader looks.
* The window, the texture and the framebuffer's byte order (raylib), and the
  colours of the system palette (data). In `Console` video memory stays as its
  initialisation leaves it, because nothing on the processor's bus reaches it
  at this commit: every pixel there has the palette's first colour, and what a
  line draws is checked in `ppu` over filled memory.
* The PPU's internal registers and the OAM structure: no code uses them. The
  trainer and the other header flags: the loader reads none of them.
* A cartridge with CHR RAM: the bus can call a write callback and no mapper of
  the repository has one.
* The verdict and the totals that the nestest host prints; the NULL-argument
  checks and the build variant without them.

## Plan

1. An abstract specification of the front end, lines and instructions without
   places, and `Console` shown to implement it.
2. That the break after "PPU failed" is never taken in `Console`, as a property
   of its own: it needs the reads of a tile in `Console_proofs`.
3. The lemmas that say what an instruction computes (a pushed byte is pulled
   again, a loaded operand is stored where it came from) as theorems.

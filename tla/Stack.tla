-------------------------------- MODULE Stack --------------------------------
(***************************************************************************)
(* The CPU stack: a descending stack of bytes in main memory, of which the *)
(* caller holds the pointer.  A push stores, then decrements; a pop        *)
(* increments, then reads.  NESEMU_STACK_GET_ADDR casts the whole address  *)
(* to uint8_t, so that the base is truncated away.                         *)
(***************************************************************************)
EXTENDS MainMemory

STACK_BASE_ADDR == BYTE         \* 0x0100
STACK_SIZE      == BYTE - 1     \* 0xFF

(* The page the stack really lies in, and one byte more, is RAM that no    *)
(* mirroring moves.                                                        *)
ASSUME StackAssumption == BYTE < RAM_MIRRORING_BASE

STACK_GET_ADDR(addr) == Wrap8(STACK_BASE_ADDR + addr)

(* Mutant of nes_stack_push_u8: it stores at the last used byte. *)
nes_stack_push_u8_full(data, sp, value) ==
  IF sp = 0
    THEN [err |-> "MEMORY_STACK_OVERFLOW", data |-> data, sp |-> sp]
    ELSE LET w == nes_mem_w8(data, STACK_GET_ADDR(Inc8(sp)), value)
         IN  [err |-> w.err, data |-> w.data, sp |-> Dec8(sp)]

nes_stack_push_u8(data, sp, value) ==
  IF sp = 0
    THEN [err |-> "MEMORY_STACK_OVERFLOW", data |-> data, sp |-> sp]
    ELSE LET w == nes_mem_w8(data, STACK_GET_ADDR(sp), value)
         IN  [err |-> w.err, data |-> w.data, sp |-> Dec8(sp)]

(* Mutant of nes_stack_pop_u8: it reads before it increments. *)
nes_stack_pop_u8_early(cartridge, data, sp, old) ==
  IF sp = STACK_SIZE
    THEN [err |-> "MEMORY_STACK_UNDERFLOW", result |-> old, sp |-> sp]
    ELSE LET r == nes_mem_r8(cartridge, data, STACK_GET_ADDR(sp), old)
         IN  [err |-> r.err, result |-> r.result, sp |-> Inc8(sp)]

nes_stack_pop_u8(cartridge, data, sp, old) ==
  IF sp = STACK_SIZE
    THEN [err |-> "MEMORY_STACK_UNDERFLOW", result |-> old, sp |-> sp]
    ELSE LET r == nes_mem_r8(cartridge, data, STACK_GET_ADDR(Inc8(sp)), old)
         IN  [err |-> r.err, result |-> r.result, sp |-> Inc8(sp)]

(* Mutants of nes_stack_push_u16: without its check, and with the check    *)
(* after the store.                                                        *)
nes_stack_push_u16_unchecked(data, sp, value) ==
  LET w == nes_mem_w16(data, STACK_GET_ADDR(Dec8(sp)), value)
  IN  [err |-> w.err, data |-> w.data, sp |-> Dec8(Dec8(sp))]

nes_stack_push_u16_late(data, sp, value) ==
  LET w == nes_mem_w16(data, STACK_GET_ADDR(Dec8(sp)), value)
  IN  IF sp = 0
        THEN [err |-> "MEMORY_STACK_OVERFLOW", data |-> w.data, sp |-> sp]
        ELSE [err |-> w.err, data |-> w.data, sp |-> Dec8(Dec8(sp))]

(* Only sp = 0 is refused: with one free byte the second decrement wraps. *)
nes_stack_push_u16(data, sp, value) ==
  IF sp = 0
    THEN [err |-> "MEMORY_STACK_OVERFLOW", data |-> data, sp |-> sp]
    ELSE LET w == nes_mem_w16(data, STACK_GET_ADDR(Dec8(sp)), value)
         IN  [err |-> w.err, data |-> w.data, sp |-> Dec8(Dec8(sp))]

(* Only an empty stack is refused: with one byte on it the second          *)
(* increment wraps and the high byte is the cell after the stack.          *)
nes_stack_pop_u16(cartridge, data, sp, old) ==
  IF sp = STACK_SIZE
    THEN [err |-> "MEMORY_STACK_UNDERFLOW", result |-> old, sp |-> sp]
    ELSE LET r == nes_mem_r16(cartridge, data, STACK_GET_ADDR(Inc8(sp)), old)
         IN  [err |-> r.err, result |-> r.result, sp |-> Inc8(Inc8(sp))]
=============================================================================

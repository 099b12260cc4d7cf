--------------------------------- MODULE Lifo ---------------------------------
(***************************************************************************)
(* What the CPU stack promises: a bounded sequence of bytes on which words *)
(* are two bytes, the high one below the low one.  Two cases are not a     *)
(* stack's, and are named: Overrun and Underrun.                           *)
(***************************************************************************)
EXTENDS Words, Sequences

VARIABLES items, ret, result

vars == <<items, ret, result>>

CAPACITY == BYTE - 1

Init ==
  /\ items = << >>
  /\ ret = "SUCCESS"
  /\ result = 0

Size == Len(items)

Push(bytes) ==
  /\ items' = items \o bytes
  /\ ret' = "SUCCESS"
  /\ UNCHANGED result

Pop(n, value) ==
  /\ items' = SubSeq(items, 1, Size - n)
  /\ ret' = "SUCCESS"
  /\ result' = value

Refuse(error) ==
  /\ ret' = error
  /\ UNCHANGED <<items, result>>

(* A word pushed on a single free byte empties the stack and succeeds.     *)
Overrun ==
  /\ Size = CAPACITY - 1
  /\ items' = << >>
  /\ ret' = "SUCCESS"
  /\ UNCHANGED result

(* A word popped from a single byte succeeds and leaves a full stack.      *)
Underrun ==
  /\ Size = 1
  /\ items' \in [1 .. CAPACITY -> Byte]
  /\ ret' = "SUCCESS"
  /\ \E msb \in Byte : result' = U16(msb, items[1])

Next ==
  \/ \E v \in Byte : Size < CAPACITY /\ Push(<<v>>)
  \/ \E msb, lsb \in Byte : Size < CAPACITY - 1 /\ Push(<<msb, lsb>>)
  \/ Size >= 1 /\ Pop(1, items[Size])
  \/ Size >= 2 /\ Pop(2, U16(items[Size - 1], items[Size]))
  \/ Size = CAPACITY /\ Refuse("MEMORY_STACK_OVERFLOW")
  \/ Size = 0 /\ Refuse("MEMORY_STACK_UNDERFLOW")
  \/ Overrun
  \/ Underrun

Spec == Init /\ [][Next]_vars
=============================================================================

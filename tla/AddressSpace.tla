----------------------------- MODULE AddressSpace -----------------------------
(***************************************************************************)
(* What a memory bus promises to its users: an address space in which a    *)
(* register or a byte of RAM may have several addresses.  `bus' maps each  *)
(* address to the byte read there and `wiring' to the addresses of the     *)
(* same storage, which what is inserted decides once and for all.  A write *)
(* is seen at every alias of its address and nowhere else; a refused call  *)
(* returns the code of its address and changes nothing; a word is two      *)
(* bytes, the low one first, and the first refusal stops it.               *)
(***************************************************************************)
EXTENDS Words

CONSTANTS
  Values,       \* The bytes that are written.
  ReadError,    \* Maps each address no read answers to its return code.
  WriteError    \* Maps each address no write changes to its return code.

VARIABLES bus, wiring, ret, result

vars == <<bus, wiring, ret, result>>

Unmapped == DOMAIN ReadError
ReadOnly == DOMAIN WriteError

Init ==
  /\ bus \in [Word -> Byte]
  /\ \A a \in Word \ ReadOnly : bus[a] = 0
  /\ \A a \in Word : a \in wiring[a]
  /\ ret = "SUCCESS"
  /\ result = 0

Store(a, v) == [x \in Word |-> IF x \in wiring[a] THEN v ELSE bus[x]]

RefuseWrite(a) ==
  /\ a \in ReadOnly
  /\ ret' = WriteError[a]
  /\ UNCHANGED <<wiring, result>>

AcceptWrite ==
  /\ ret' = "SUCCESS"
  /\ UNCHANGED <<wiring, result>>

Write8(a, v) ==
  \/ /\ RefuseWrite(a)
     /\ UNCHANGED bus
  \/ /\ a \notin ReadOnly
     /\ AcceptWrite
     /\ bus' = Store(a, v)

(* The high byte is the later write: it wins where the two addresses alias. *)
Write16(a, msb, lsb) ==
  \/ /\ RefuseWrite(a)
     /\ UNCHANGED bus
  \/ /\ a \notin ReadOnly
     /\ RefuseWrite(Inc16(a))
     /\ bus' = Store(a, lsb)
  \/ /\ {a, Inc16(a)} \cap ReadOnly = {}
     /\ AcceptWrite
     /\ LET low == Store(a, lsb)
        IN  bus' = [x \in Word |->
                      IF x \in wiring[Inc16(a)] THEN msb ELSE low[x]]

RefuseRead(a) ==
  /\ a \in Unmapped
  /\ ret' = ReadError[a]
  /\ UNCHANGED <<bus, wiring, result>>

AnswerRead(value) ==
  /\ ret' = "SUCCESS"
  /\ result' = value
  /\ UNCHANGED <<bus, wiring>>

Read8(a) ==
  \/ RefuseRead(a)
  \/ a \notin Unmapped /\ AnswerRead(bus[a])

Read16(a) ==
  \/ RefuseRead(a)
  \/ a \notin Unmapped /\ RefuseRead(Inc16(a))
  \/ /\ {a, Inc16(a)} \cap Unmapped = {}
     /\ AnswerRead(U16(bus[Inc16(a)], bus[a]))

Next ==
  \E a \in Word :
    \/ Read8(a)
    \/ Read16(a)
    \/ \E v \in Values : Write8(a, v)
    \/ \E msb, lsb \in Values : Write16(a, msb, lsb)

Spec == Init /\ [][Next]_vars
=============================================================================

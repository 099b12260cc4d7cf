--------------------------- MODULE StackClient_proofs ---------------------------
(***************************************************************************)
(* The CPU stack never leaves its page, never reaches the cartridge, and   *)
(* implements the bounded stack of Lifo.tla with its two named exceptions: *)
(* for every width of a byte and every map that MapAssumption and          *)
(* StackAssumption admit.                                                  *)
(***************************************************************************)
EXTENDS StackClient, Memory_proofs, SequenceTheorems

-----------------------------------------------------------------------------
(* The stack starts well-typed.                                            *)
LEMMA InitTypeOK == Init => TypeOK
BY ZeroArrayType, ByteAssumption
   DEF Init, TypeOK, nes_mem_init, STACK_SIZE, Byte, Word, WORD

(* A byte push keeps the types.                                            *)
LEMMA PushByteTypeOK ==
  ASSUME TypeOK, NEW v \in Values, Push(nes_stack_push_u8(data, sp, v))
  PROVE  TypeOK'
<1>1. CASE sp = 0
  BY <1>1 DEF TypeOK, Push, nes_stack_push_u8, IsArray, Byte, Word, WORD
<1>2. CASE sp # 0
  <2>1. data' = Poke(data, sp, v) /\ sp' = sp - 1 /\ ret' = "SUCCESS"
        /\ result' = result
    BY <1>2, PushByte DEF TypeOK, Push
  <2>2. IsArray(data', Byte)
    BY <2>1, PokeType, StackClientAssumption DEF TypeOK
  <2>3. sp' \in Byte
    BY <1>2, <2>1, ByteAssumption DEF TypeOK, Byte
  <2> QED
    BY <2>1, <2>2, <2>3 DEF TypeOK, IsArray, Byte, Word, WORD
<1> QED
  BY <1>1, <1>2

(* A word push keeps the types.                                            *)
LEMMA PushWordTypeOK ==
  ASSUME TypeOK, NEW msb \in Values, NEW lsb \in Values,
         Push(nes_stack_push_u16(data, sp, U16(msb, lsb)))
  PROVE  TypeOK'
<1>1. CASE sp = 0
  BY <1>1 DEF TypeOK, Push, nes_stack_push_u16, IsArray, Byte, Word, WORD
<1>2. CASE sp # 0
  <2>1. /\ data' = Poke(Poke(data, sp - 1, lsb), sp, msb)
        /\ sp' = IF sp = 1 THEN STACK_SIZE ELSE sp - 2
        /\ ret' = "SUCCESS" /\ result' = result
    BY <1>2, PushWord, StackClientAssumption DEF TypeOK, Push
  <2>2. sp' \in Byte /\ sp - 1 \in Byte
    BY <1>2, <2>1, ByteAssumption DEF TypeOK, Byte, STACK_SIZE
  <2>3. IsArray(Poke(data, sp - 1, lsb), Byte)
    BY <2>2, PokeType, StackClientAssumption DEF TypeOK
  <2>4. IsArray(data', Byte)
    BY <2>1, <2>3, PokeType, StackClientAssumption DEF TypeOK
  <2> QED
    BY <2>1, <2>2, <2>4 DEF TypeOK, IsArray, Byte, Word, WORD
<1> QED
  BY <1>1, <1>2

(* A pop keeps the types: it changes only the pointer and the result.      *)
LEMMA PopTypeOK ==
  ASSUME TypeOK,
         \/ Pop(nes_stack_pop_u8(NoCartridge, data, sp, result))
         \/ Pop(nes_stack_pop_u16(NoCartridge, data, sp, result))
  PROVE  TypeOK'
<1>1. CASE sp = STACK_SIZE
  BY <1>1 DEF TypeOK, Pop, nes_stack_pop_u8, nes_stack_pop_u16, IsArray, Byte,
              Word, WORD
<1>2. CASE sp # STACK_SIZE
  <2>1. \A c : Peek(data, c) \in Byte
    BY PeekType DEF TypeOK
  <2>2. \A c, d : U16(Peek(data, c), Peek(data, d)) \in Word
    BY <2>1, HalvesOfU16
  <2>3. data' = data /\ ret' = "SUCCESS" /\ result' \in Word
    BY <1>2, <2>1, <2>2, PopByte, PopWord, ByteIsWord DEF TypeOK, Pop
  <2>4. sp' \in {sp + 1, IF sp = STACK_SIZE - 1 THEN 0 ELSE sp + 2}
    BY <1>2, PopByte, PopWord DEF TypeOK, Pop
  <2>5. sp' \in Byte
    BY <1>2, <2>4, ByteAssumption DEF TypeOK, STACK_SIZE, Byte
  <2> QED
    BY <2>3, <2>5 DEF TypeOK, IsArray, Byte, Word, WORD
<1> QED
  BY <1>1, <1>2

(* Each operation of the stack keeps the types.                            *)
LEMMA NextTypeOK == TypeOK /\ [Next]_vars => TypeOK'
<1> SUFFICES ASSUME TypeOK, [Next]_vars PROVE TypeOK'
  OBVIOUS
<1>1. CASE Next
  BY <1>1, PushByteTypeOK, PushWordTypeOK, PopTypeOK DEF Next
<1>2. CASE UNCHANGED vars
  BY <1>2 DEF vars, TypeOK, IsArray, Byte, Word, WORD
<1> QED
  BY <1>1, <1>2

(* Every byte the stack stores is in its page, its pointer is a byte, and  *)
(* no call returns an error of the memory below it.                        *)
THEOREM TypeCorrect == Spec => []TypeOK
BY InitTypeOK, NextTypeOK, PTL DEF Spec

-----------------------------------------------------------------------------
(* Refinement.  The stack an array and a pointer stand for.                *)

Depth(p) == STACK_SIZE - p
ItemsOf(d, p) == [i \in 1 .. Depth(p) |-> Peek(d, BYTE - i)]

(* The items of the refinement are the cells above the pointer.            *)
LEMMA ItemsAreItemsOf == Items = ItemsOf(data, sp) /\ Items' = ItemsOf(data', sp')
BY DEF Items, ItemsOf, Depth

(* The items are a sequence of bytes.                                      *)
LEMMA ItemsOfSeq ==
  ASSUME NEW d, IsArray(d, Byte), NEW p \in Byte
  PROVE  /\ ItemsOf(d, p) \in Seq(Byte)
         /\ Len(ItemsOf(d, p)) = Depth(p)
         /\ Depth(p) \in 0 .. (BYTE - 1)
         /\ \A i \in 1 .. Depth(p) : ItemsOf(d, p)[i] = Peek(d, BYTE - i)
<1>1. Depth(p) \in 0 .. (BYTE - 1)
  BY ByteAssumption DEF Depth, STACK_SIZE, Byte
<1>2. \A c : Peek(d, c) \in Byte
  BY PeekType
<1> QED
  BY <1>1, <1>2 DEF ItemsOf

(* Storing some bytes from cell p of d downwards gives e and the pointer q. *)
Pushed(bytes, d, p, e, q) ==
  /\ bytes \in Seq(Byte)
  /\ IsArray(d, Byte) /\ IsArray(e, Byte)
  /\ p \in Byte /\ q \in Byte /\ q = p - Len(bytes)
  /\ \A c \in (p + 1) .. BYTE : Peek(e, c) = Peek(d, c)
  /\ \A i \in 1 .. Len(bytes) : Peek(e, p + 1 - i) = bytes[i]

(* Bytes stored below the pointer are bytes added to the stack.            *)
LEMMA ItemsGrow ==
  ASSUME NEW bytes, NEW d, NEW p, NEW e, NEW q, Pushed(bytes, d, p, e, q)
  PROVE  ItemsOf(e, q) = ItemsOf(d, p) \o bytes
<1> DEFINE old == ItemsOf(d, p)
           new == ItemsOf(e, q)
<1>1. /\ bytes \in Seq(Byte) /\ Len(bytes) \in Nat
      /\ p \in Nat /\ q = p - Len(bytes) /\ BYTE \in Nat
  BY ByteAssumption, LenProperties DEF Pushed, Byte
<1>2. /\ old \in Seq(Byte) /\ Len(old) = Depth(p)
      /\ new \in Seq(Byte) /\ Len(new) = Depth(q)
      /\ \A i \in 1 .. Depth(p) : old[i] = Peek(d, BYTE - i)
      /\ \A i \in 1 .. Depth(q) : new[i] = Peek(e, BYTE - i)
  BY ItemsOfSeq DEF Pushed
<1>3. /\ Depth(q) = Depth(p) + Len(bytes) /\ Depth(p) = BYTE - 1 - p
      /\ Depth(p) \in Nat
  BY <1>1, ByteAssumption DEF Pushed, Depth, STACK_SIZE, Byte
<1> HIDE DEF old, new
<1>4. /\ old \o bytes \in Seq(Byte)
      /\ Len(old \o bytes) = Len(old) + Len(bytes)
      /\ \A i \in 1 .. (Len(old) + Len(bytes)) :
           (old \o bytes)[i]
             = IF i <= Len(old) THEN old[i] ELSE bytes[i - Len(old)]
  BY <1>1, <1>2, ConcatProperties
<1>5. ASSUME NEW i \in 1 .. Depth(q) PROVE new[i] = (old \o bytes)[i]
  <2>1. (old \o bytes)[i]
          = IF i <= Depth(p) THEN old[i] ELSE bytes[i - Depth(p)]
    BY <1>2, <1>3, <1>4
  <2>2. CASE i <= Depth(p)
    <3>1. i \in 1 .. Depth(p) /\ BYTE - i \in (p + 1) .. BYTE
      BY <1>1, <1>3, <2>2
    <3> QED
      BY <1>2, <2>1, <2>2, <3>1 DEF Pushed
  <2>3. CASE ~ (i <= Depth(p))
    <3>1. /\ i - Depth(p) \in 1 .. Len(bytes)
          /\ BYTE - i = p + 1 - (i - Depth(p))
      BY <1>1, <1>3, <2>3
    <3> QED
      BY <1>2, <2>1, <2>3, <3>1 DEF Pushed
  <2> QED
    BY <2>2, <2>3
<1>6. new = old \o bytes
  BY <1>2, <1>3, <1>4, <1>5, SeqEqual
<1> QED
  BY <1>6 DEF old, new

(* Moving the pointer up removes the youngest bytes.                       *)
LEMMA ItemsShrink ==
  ASSUME NEW d, IsArray(d, Byte), NEW p \in Byte, NEW q \in Byte, p <= q
  PROVE  ItemsOf(d, q) = SubSeq(ItemsOf(d, p), 1, Depth(p) - (q - p))
<1> DEFINE s == SubSeq(ItemsOf(d, p), 1, Depth(p) - (q - p))
<1>1. /\ ItemsOf(d, p) \in Seq(Byte) /\ Len(ItemsOf(d, p)) = Depth(p)
      /\ ItemsOf(d, q) \in Seq(Byte) /\ Len(ItemsOf(d, q)) = Depth(q)
      /\ \A i \in 1 .. Depth(p) : ItemsOf(d, p)[i] = Peek(d, BYTE - i)
      /\ \A i \in 1 .. Depth(q) : ItemsOf(d, q)[i] = Peek(d, BYTE - i)
  BY ItemsOfSeq
<1>2. /\ Depth(q) = Depth(p) - (q - p) /\ Depth(q) \in Nat
      /\ Depth(q) <= Depth(p) /\ Depth(p) \in Nat
  BY ByteAssumption DEF Depth, STACK_SIZE, Byte
<1>3. \A i \in 1 .. Depth(q) : i \in 1 .. Depth(p)
  BY <1>2
<1>4. \A i \in 1 .. Depth(q) : ItemsOf(d, p)[i] \in Byte
  BY <1>1, <1>3, ElementOfSeq
<1>5. /\ s \in Seq(Byte) /\ Len(s) = Depth(q)
      /\ \A i \in 1 .. Depth(q) : s[i] = ItemsOf(d, p)[i]
  BY <1>2, <1>4, SubSeqProperties
<1> HIDE DEF s
<1>6. ItemsOf(d, q) = s
  BY <1>1, <1>3, <1>5, SeqEqual
<1> QED
  BY <1>6 DEF s

(* The two modules share the words of Words.tla.                           *)
LEMMA SameWords ==
  /\ Abstract!Byte = Byte
  /\ Abstract!CAPACITY = BYTE - 1
  /\ \A msb, lsb : Abstract!U16(msb, lsb) = U16(msb, lsb)
BY DEF Abstract!Byte, Byte, Abstract!CAPACITY, Abstract!U16, U16

(* The stack has as many items as the pointer has gone down.               *)
LEMMA SizeIsDepth == TypeOK => Abstract!Size = Depth(sp)
BY ItemsAreItemsOf, ItemsOfSeq DEF TypeOK, Abstract!Size

(* The initial stack is empty.                                             *)
LEMMA InitRefines == Init => Abstract!Init
<1> SUFFICES ASSUME Init PROVE Abstract!Init
  OBVIOUS
<1>1. TypeOK /\ Depth(sp) = 0
  BY InitTypeOK, ByteAssumption DEF Init, Depth, STACK_SIZE
<1>2. Items \in Seq(Byte) /\ Len(Items) = 0
  BY <1>1, ItemsAreItemsOf, ItemsOfSeq DEF TypeOK
<1>3. Items = << >>
  BY <1>2, EmptySeq
<1> QED
  BY <1>3 DEF Init, Abstract!Init

(* A byte push appends its byte, or is refused on a full stack.            *)
LEMMA PushByteRefines ==
  ASSUME TypeOK, NEW v \in Values, Push(nes_stack_push_u8(data, sp, v))
  PROVE  Abstract!Next
<1>1. v \in Byte /\ v \in Abstract!Byte
  BY StackClientAssumption, SameWords
<1>2. CASE sp = 0
  <2>1. data' = data /\ sp' = sp /\ result' = result
        /\ ret' = "MEMORY_STACK_OVERFLOW"
    BY <1>2 DEF Push, nes_stack_push_u8
  <2>2. Items' = Items
    BY <2>1 DEF Items
  <2>3. Abstract!Size = Abstract!CAPACITY
    BY <1>2, SizeIsDepth, SameWords, ByteAssumption DEF Depth, STACK_SIZE
  <2> QED
    BY <2>1, <2>2, <2>3 DEF Abstract!Next, Abstract!Refuse
<1>3. CASE sp # 0
  <2>1. /\ data' = Poke(data, sp, v) /\ sp' = sp - 1
        /\ ret' = "SUCCESS" /\ result' = result
    BY <1>3, PushByte DEF TypeOK, Push
  <2> DEFINE bytes == <<v>>
  <2>2. /\ IsArray(data', Byte) /\ IsArray(data, Byte)
        /\ sp' \in Byte /\ sp \in Byte
    BY PushByteTypeOK DEF TypeOK
  <2>3. bytes \in Seq(Byte) /\ Len(bytes) = 1 /\ bytes[1] = v
    BY <1>1
  <2> HIDE DEF bytes
  <2>4. /\ \A c \in (sp + 1) .. BYTE : Peek(data', c) = Peek(data, c)
        /\ \A i \in 1 .. Len(bytes) : Peek(data', sp + 1 - i) = bytes[i]
        /\ sp' = sp - Len(bytes)
    BY <2>1, <2>3, PeekPoke DEF TypeOK, Byte
  <2>5. Pushed(bytes, data, sp, data', sp')
    BY <2>2, <2>3, <2>4 DEF Pushed
  <2>6. ItemsOf(data', sp') = ItemsOf(data, sp) \o bytes
    BY <2>5, ItemsGrow
  <2>7. Abstract!Size < Abstract!CAPACITY
    BY <1>3, SizeIsDepth, SameWords, ByteAssumption
       DEF TypeOK, Depth, STACK_SIZE, Byte
  <2> QED
    BY <1>1, <2>1, <2>6, <2>7, ItemsAreItemsOf
       DEF bytes, Abstract!Next, Abstract!Push
<1> QED
  BY <1>2, <1>3

(* A word push appends both bytes, overruns, or is refused.                *)
LEMMA PushWordRefines ==
  ASSUME TypeOK, NEW msb \in Values, NEW lsb \in Values,
         Push(nes_stack_push_u16(data, sp, U16(msb, lsb)))
  PROVE  Abstract!Next
<1>1. msb \in Byte /\ lsb \in Byte /\ Abstract!Byte = Byte
  BY StackClientAssumption, SameWords
<1>2. CASE sp = 0
  <2>1. data' = data /\ sp' = sp /\ result' = result
        /\ ret' = "MEMORY_STACK_OVERFLOW"
    BY <1>2 DEF Push, nes_stack_push_u16
  <2>2. Items' = Items
    BY <2>1 DEF Items
  <2>3. Abstract!Size = Abstract!CAPACITY
    BY <1>2, SizeIsDepth, SameWords, ByteAssumption DEF Depth, STACK_SIZE
  <2> QED
    BY <2>1, <2>2, <2>3 DEF Abstract!Next, Abstract!Refuse
<1>3. CASE sp # 0
  <2>1. /\ data' = Poke(Poke(data, sp - 1, lsb), sp, msb)
        /\ sp' = IF sp = 1 THEN STACK_SIZE ELSE sp - 2
        /\ ret' = "SUCCESS" /\ result' = result
    BY <1>1, <1>3, PushWord DEF TypeOK, Push
  <2>2. /\ IsArray(data', Byte) /\ IsArray(data, Byte)
        /\ sp' \in Byte /\ sp \in Byte
    BY PushWordTypeOK DEF TypeOK
  <2>3. CASE sp = 1
    <3>1. Abstract!Size = Abstract!CAPACITY - 1
      BY <2>3, SizeIsDepth, SameWords, ByteAssumption DEF Depth, STACK_SIZE
    <3>2. Depth(sp') = 0
      BY <2>1, <2>3, ByteAssumption DEF Depth, STACK_SIZE
    <3>3. Items' \in Seq(Byte) /\ Len(Items') = 0
      BY <2>2, <3>2, ItemsAreItemsOf, ItemsOfSeq
    <3>4. Items' = << >>
      BY <3>3, EmptySeq
    <3> QED
      BY <2>1, <3>1, <3>4 DEF Abstract!Next, Abstract!Overrun
  <2>4. CASE sp # 1
    <3> DEFINE bytes == <<msb, lsb>>
    <3>1. /\ bytes \in Seq(Byte) /\ Len(bytes) = 2
          /\ bytes[1] = msb /\ bytes[2] = lsb
      BY <1>1
    <3> HIDE DEF bytes
    <3>2. sp \in Nat /\ sp' = sp - Len(bytes)
      BY <1>3, <2>1, <2>4, <3>1, ByteAssumption DEF TypeOK, Byte
    <3>3. \A c : Peek(data', c) = IF c = sp THEN msb
                                  ELSE IF c = sp - 1 THEN lsb
                                  ELSE Peek(data, c)
      BY <2>1, PeekPoke
    <3>4. /\ \A c \in (sp + 1) .. BYTE : Peek(data', c) = Peek(data, c)
          /\ \A i \in 1 .. Len(bytes) : Peek(data', sp + 1 - i) = bytes[i]
      BY <3>1, <3>2, <3>3
    <3>5. ItemsOf(data', sp') = ItemsOf(data, sp) \o bytes
      <4>1. Pushed(bytes, data, sp, data', sp')
        BY <2>2, <3>1, <3>2, <3>4 DEF Pushed
      <4> QED
        BY <4>1, ItemsGrow
    <3>6. Abstract!Size < Abstract!CAPACITY - 1
      BY <1>3, <2>4, SizeIsDepth, SameWords, ByteAssumption
         DEF TypeOK, Depth, STACK_SIZE, Byte
    <3> QED
      BY <1>1, <2>1, <3>5, <3>6, ItemsAreItemsOf
         DEF bytes, Abstract!Next, Abstract!Push
  <2> QED
    BY <2>3, <2>4
<1> QED
  BY <1>2, <1>3

(* A byte pop removes the last item, or is refused on an empty stack.      *)
LEMMA PopByteRefines ==
  ASSUME TypeOK, Pop(nes_stack_pop_u8(NoCartridge, data, sp, result))
  PROVE  Abstract!Next
<1>1. CASE sp = STACK_SIZE
  <2>1. Items' = Items /\ result' = result /\ ret' = "MEMORY_STACK_UNDERFLOW"
    BY <1>1 DEF Pop, nes_stack_pop_u8, Items
  <2>2. Abstract!Size = 0
    BY <1>1, SizeIsDepth, ByteAssumption DEF Depth, STACK_SIZE
  <2> QED
    BY <2>1, <2>2 DEF Abstract!Next, Abstract!Refuse
<1>2. CASE sp # STACK_SIZE
  <2>1. /\ data' = data /\ sp' = sp + 1
        /\ ret' = "SUCCESS" /\ result' = Peek(data, sp + 1)
    BY <1>2, PopByte DEF TypeOK, Pop
  <2>2. sp \in Byte /\ sp' \in Byte /\ sp <= sp' /\ sp' - sp = 1
        /\ IsArray(data, Byte)
    BY <1>2, <2>1, ByteAssumption DEF TypeOK, STACK_SIZE, Byte
  <2>3. Items' = SubSeq(Items, 1, Depth(sp) - 1)
    BY <2>1, <2>2, ItemsShrink, ItemsAreItemsOf
  <2>4. Depth(sp) \in 1 .. Depth(sp) /\ BYTE - Depth(sp) = sp + 1
    BY <1>2, ByteAssumption DEF TypeOK, Depth, STACK_SIZE, Byte
  <2>5. Items[Depth(sp)] = Peek(data, sp + 1)
    BY <2>2, <2>4, ItemsOfSeq, ItemsAreItemsOf
  <2>6. Abstract!Size = Depth(sp) /\ Depth(sp) >= 1
    BY <2>4, SizeIsDepth
  <2> QED
    BY <2>1, <2>3, <2>5, <2>6 DEF Abstract!Next, Abstract!Pop
<1> QED
  BY <1>1, <1>2

(* A word pop removes two items, underruns, or is refused.                 *)
LEMMA PopWordRefines ==
  ASSUME TypeOK, Pop(nes_stack_pop_u16(NoCartridge, data, sp, result))
  PROVE  Abstract!Next
<1>1. CASE sp = STACK_SIZE
  <2>1. Items' = Items /\ result' = result /\ ret' = "MEMORY_STACK_UNDERFLOW"
    BY <1>1 DEF Pop, nes_stack_pop_u16, Items
  <2>2. Abstract!Size = 0
    BY <1>1, SizeIsDepth, ByteAssumption DEF Depth, STACK_SIZE
  <2> QED
    BY <2>1, <2>2 DEF Abstract!Next, Abstract!Refuse
<1>2. CASE sp # STACK_SIZE
  <2>1. /\ data' = data /\ ret' = "SUCCESS"
        /\ sp' = IF sp = STACK_SIZE - 1 THEN 0 ELSE sp + 2
        /\ result' = U16(Peek(data, sp + 2), Peek(data, sp + 1))
    BY <1>2, PopWord DEF TypeOK, Pop
  <2>2. /\ IsArray(data, Byte) /\ sp \in Byte
        /\ \A i \in 1 .. Depth(sp) : Items[i] = Peek(data, BYTE - i)
    BY ItemsOfSeq, ItemsAreItemsOf DEF TypeOK
  <2>3. CASE sp = STACK_SIZE - 1
    <3>1. Depth(sp) = 1 /\ Abstract!Size = 1 /\ Depth(0) = BYTE - 1
      BY <2>3, SizeIsDepth, ByteAssumption DEF Depth, STACK_SIZE
    <3>2. sp' = 0 /\ 0 \in Byte
      BY <2>1, <2>3, ByteAssumption DEF Byte
    <3>3. /\ Items' \in Seq(Byte) /\ Len(Items') = BYTE - 1
      BY <2>1, <2>2, <3>1, <3>2, ItemsAreItemsOf, ItemsOfSeq
    <3>4. Items' \in [1 .. Abstract!CAPACITY -> Abstract!Byte]
      BY <3>3, LenProperties, SameWords
    <3>5. Items[1] = Peek(data, sp + 1)
      BY <2>2, <2>3, <3>1, ByteAssumption DEF STACK_SIZE
    <3>6. Peek(data, sp + 2) \in Abstract!Byte
      BY <2>2, PeekType, SameWords
    <3>7. \E m \in Abstract!Byte : result' = Abstract!U16(m, Items[1])
      BY <2>1, <3>5, <3>6, SameWords
    <3> QED
      BY <2>1, <3>1, <3>4, <3>7 DEF Abstract!Next, Abstract!Underrun
  <2>4. CASE sp # STACK_SIZE - 1
    <3>1. sp' \in Byte /\ sp <= sp' /\ sp' - sp = 2
      BY <1>2, <2>1, <2>2, <2>4, ByteAssumption DEF STACK_SIZE, Byte
    <3>2. Items' = SubSeq(Items, 1, Depth(sp) - 2)
      BY <2>1, <2>2, <3>1, ItemsShrink, ItemsAreItemsOf
    <3>3. /\ Depth(sp) \in Nat /\ Depth(sp) >= 2
          /\ BYTE - Depth(sp) = sp + 1 /\ BYTE - (Depth(sp) - 1) = sp + 2
      BY <1>2, <2>2, <2>4, ByteAssumption DEF Depth, STACK_SIZE, Byte
    <3>4. /\ Items[Depth(sp)] = Peek(data, sp + 1)
          /\ Items[Depth(sp) - 1] = Peek(data, sp + 2)
      BY <2>2, <3>3
    <3>5. Abstract!Size = Depth(sp)
      BY SizeIsDepth
    <3> QED
      BY <2>1, <3>2, <3>3, <3>4, <3>5, SameWords
         DEF Abstract!Next, Abstract!Pop
  <2> QED
    BY <2>3, <2>4
<1> QED
  BY <1>1, <1>2

(* Every step of the stack is one of the bounded stack, or a stutter.      *)
LEMMA NextRefines == TypeOK /\ [Next]_vars => [Abstract!Next]_(Abstract!vars)
<1> SUFFICES ASSUME TypeOK, [Next]_vars PROVE [Abstract!Next]_(Abstract!vars)
  OBVIOUS
<1>1. CASE Next
  BY <1>1, PushByteRefines, PushWordRefines, PopByteRefines, PopWordRefines
     DEF Next
<1>2. CASE UNCHANGED vars
  BY <1>2 DEF vars, Abstract!vars, Items
<1> QED
  BY <1>1, <1>2

(* Bytes and words come back in the reverse order of their pushes; the     *)
(* only silent faults are a word pushed on one free byte and a word popped *)
(* from one byte, whatever the width of a byte and the memory map.         *)
THEOREM LifoImplemented == Spec => ImplementsLifo
BY InitRefines, NextRefines, TypeCorrect, PTL
   DEF Spec, ImplementsLifo, Abstract!Spec
=============================================================================

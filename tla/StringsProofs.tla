---------------------------- MODULE StringsProofs ----------------------------
(***************************************************************************)
(* Proofs about Strings, for every memory, span of a byte and byte to set: *)
(* what a write leaves in memory, what a comparison answers and that none  *)
(* reads behind what it was given.                                         *)
(***************************************************************************)
EXTENDS Strings, LoopProofs

(* The bytes written so far: from the front of the destination, or from its *)
(* back when the arrays are copied downwards.                               *)
Written ==
  IF Upward(call) THEN call.a..(call.a + i - 1)
  ELSE (call.a + i)..(call.a + call.count - 1)

\* What a write is to leave in byte x of its destination.
Due(x) ==
  IF call.fn = "memset" THEN ToByte(call.ch) ELSE before[call.b + (x - call.a)]

CallsLegal ==
  IF call = NoCall THEN ~running
  ELSE call \in CallArgs /\ Plain(call) /\ Legal(call)

\* The written bytes are as they should be, the others as before: so a byte that
\* is still to be copied has not been overwritten.
WritesSoFar ==
  call.fn \in Writers =>
    /\ i <= call.count
    /\ ~running => i = IF Upward(call) THEN call.count ELSE 0
    /\ \A x \in Address : memory[x] = IF x \in Written THEN Due(x) ELSE before[x]

\* What has been compared or measured was equal, and not the end.
ReadsSoFar ==
  call.fn \in Readers =>
    /\ memory = before
    /\ running =>
         /\ call.fn \in {"memcmp", "strncmp"} => i <= call.count
         /\ call.fn # "strlen" =>
              \A k \in 0..(i - 1) : before[call.a + k] = before[call.b + k]
         /\ call.fn \in {"strlen", "strcmp"} =>
              \A k \in 0..(i - 1) : before[call.a + k] # 0
         /\ call.fn = "strncmp" /\ i > 0 => before[call.a] # 0

IInv ==
  /\ TypeOK
  /\ CallsLegal
  /\ WritesSoFar
  /\ ReadsSoFar
  /\ ComparesExactly

------------------------------------------------------------------------------
(* What the property's operators say of strings and arrays.                 *)

(* The end of a string is its first byte 0, or the end of memory.            *)
LEMMA EndOfIsFirst ==
  ASSUME before \in [Address -> Byte], NEW at \in Address
  PROVE  /\ EndOf(at) \in 0..(Size - at)
         /\ \A k \in 0..(Size - 1 - at) : k < EndOf(at) => before[at + k] # 0
         /\ EndOf(at) < Size - at => before[at + EndOf(at)] = 0
<1> DEFINE zeros == {k \in 0..(Size - 1 - at) : before[at + k] = 0}
<1>1. {Size - at} \cup zeros \in SUBSET Nat /\ {Size - at} \cup zeros # {}
  BY StringsAssumption DEF Address
<1>2. /\ EndOf(at) \in {Size - at} \cup zeros
      /\ \A k \in {Size - at} \cup zeros : EndOf(at) <= k
  <2> HIDE DEF zeros
  <2>1. EndOf(at) = Min({Size - at} \cup zeros)
    BY DEF EndOf, zeros
  <2> QED
    BY <1>1, <2>1, MinIsLeast
<1> QED
  BY <1>2, StringsAssumption DEF Address

(* The order of two arrays is that of the first bytes that differ.          *)
LEMMA OrderOfFirst ==
  ASSUME NEW range \in SUBSET Nat
  PROVE  /\ (\A k \in range : before[call.a + k] = before[call.b + k]) =>
              Order(range) = 0
         /\ \A d \in range :
              /\ before[call.a + d] # before[call.b + d]
              /\ \A k \in range : k < d => before[call.a + k] = before[call.b + k]
              => Order(range) = Sign(before[call.a + d] - before[call.b + d])
<1>1. ASSUME \A k \in range : before[call.a + k] = before[call.b + k]
      PROVE  Order(range) = 0
  BY <1>1 DEF Order, Differences
<1>2. ASSUME NEW d \in range, before[call.a + d] # before[call.b + d],
             \A k \in range : k < d => before[call.a + k] = before[call.b + k]
      PROVE  Order(range) = Sign(before[call.a + d] - before[call.b + d])
  <2>1. d \in Differences(range) /\ Differences(range) \in SUBSET Nat
    BY <1>2 DEF Differences
  <2>2. Min(Differences(range)) \in Differences(range) /\ Min(Differences(range)) <= d
    BY <2>1, MinIsLeast
  <2>3. \A m \in Differences(range) : m <= d => m = d
    <3> SUFFICES ASSUME NEW m \in range, before[call.a + m] # before[call.b + m],
                        m <= d
                 PROVE  m = d
      BY DEF Differences
    <3>1. ~(m < d) /\ m \in Nat /\ d \in Nat
      BY <1>2
    <3> QED
      BY <3>1
  <2>4. Min(Differences(range)) = d
    BY <2>2, <2>3, Zenon
  <2> QED
    BY <2>1, <2>4 DEF Order
<1> QED
  BY <1>1, <1>2

(* Strings are compared up to the first of their ends.                      *)
LEMMA RangeEnds ==
  ASSUME before \in [Address -> Byte], call.a \in Address, call.b \in Address
  PROVE  /\ StringRange \in SUBSET Nat
         /\ \A k \in Nat : k \in StringRange <=>
              k <= EndOf(call.a) /\ k <= EndOf(call.b)
<1>1. EndOf(call.a) \in Nat /\ EndOf(call.b) \in Nat
  BY EndOfIsFirst, StringsAssumption DEF Address
<1>2. LET ends == {EndOf(call.a), EndOf(call.b)}
      IN  Min(ends) \in ends /\ \A y \in ends : Min(ends) <= y
  BY <1>1, MinIsLeast
<1> QED
  BY <1>1, <1>2 DEF StringRange

(* A number is narrowed to a byte.                                          *)
LEMMA ToByteIsByte == \A ch \in Ints : ToByte(ch) \in Byte
BY StringsAssumption DEF ToByte, Byte

------------------------------------------------------------------------------
(* The invariant holds in the beginning and is kept by every step.          *)

LEMMA InitIInv == Init => IInv
<1> SUFFICES ASSUME Init PROVE IInv
  OBVIOUS
<1>1. TypeOK
  <2>1. memory \in [Address -> Byte] /\ before = memory
    BY DEF Init
  <2>2. i \in 0..Size /\ ret \in Int /\ call = NoCall
    BY StringsAssumption DEF Init
  <2>3. running \in BOOLEAN
    BY DEF Init
  <2> QED
    BY <2>1, <2>2, <2>3 DEF TypeOK
<1>2. call.fn = "none" /\ call = NoCall /\ ~running
  BY DEF Init, NoCall
<1> QED
  BY <1>1, <1>2 DEF IInv, CallsLegal, WritesSoFar, ReadsSoFar, ComparesExactly,
     Returned, Writers, Readers

LEMMA CallKeeps ==
  ASSUME IInv, Call
  PROVE  IInv'
<1>1. PICK c \in CallArgs :
        /\ Plain(c) /\ Legal(c)
        /\ call' = c
        /\ i' = IF Upward(c) THEN 0 ELSE c.count
  BY DEF Call
<1>2. /\ memory' = memory /\ before' = memory /\ ret' = ret
      /\ running' = TRUE
  BY DEF Call
<1>3. c.fn \in Writers \cup Readers /\ c.count \in 0..Size /\ c.a \in Address
  BY DEF CallArgs
<1>4. TypeOK'
  BY <1>1, <1>2, <1>3, StringsAssumption DEF IInv, TypeOK
<1>5. CallsLegal'
  <2>1. Legal(call)' = Legal(c)
    BY <1>1, <1>2 DEF Legal, Terminated, Ends
  <2>2. Plain(call)' = Plain(c)
    BY <1>1 DEF Plain
  <2>3. c # NoCall
    BY <1>3 DEF NoCall, Writers, Readers
  <2> QED
    BY <1>1, <1>2, <2>1, <2>2, <2>3 DEF CallsLegal
<1>6. WritesSoFar'
  <2>1. i' <= c.count /\ running'
    BY <1>1, <1>2, <1>3, StringsAssumption
  <2>2. Written' = {}
    BY <1>1, <1>3 DEF Written, Upward, Address
  <2> QED
    BY <1>1, <1>2, <2>1, <2>2 DEF WritesSoFar
<1>7. ReadsSoFar'
  <2>1. c.fn \in Readers => i' = 0
    BY <1>1 DEF Upward, Readers
  <2> QED
    BY <1>1, <1>2, <1>3, <2>1 DEF ReadsSoFar
<1>8. ComparesExactly'
  BY <1>2 DEF ComparesExactly, Returned
<1> QED
  BY <1>4, <1>5, <1>6, <1>7, <1>8 DEF IInv

LEMMA GoOnKeeps ==
  ASSUME IInv, GoOn
  PROVE  IInv'
<1>1. /\ call' = NoCall /\ call'.fn = "none" /\ i' = 0 /\ ret' = 0
      /\ memory' = memory /\ before' = memory /\ running' = running /\ ~running
  BY DEF GoOn, NoCall
<1>2. TypeOK'
  BY <1>1, StringsAssumption DEF IInv, TypeOK
<1> QED
  BY <1>1, <1>2 DEF IInv, CallsLegal, WritesSoFar, ReadsSoFar, ComparesExactly,
     Returned, Writers, Readers

(* A byte is written that is due, next to those written before.             *)
LEMMA StoreKeeps ==
  ASSUME IInv, running, call.fn \in Writers,
         NEW at \in Address, NEW value \in Byte, Store(at, value),
         value = Due(at), Written' = Written \cup {at}, i' \in 0..call.count
  PROVE  IInv'
<1>1. /\ memory' = [memory EXCEPT ![at] = value]
      /\ call' = call /\ running' = running /\ ret' = ret /\ before' = before
  BY DEF Store
<1>2. /\ memory \in [Address -> Byte] /\ before \in [Address -> Byte]
      /\ call \in CallArgs /\ Plain(call) /\ Legal(call)
      /\ call.count \in 0..Size /\ running \in BOOLEAN /\ ret \in Int
  BY DEF IInv, TypeOK, CallsLegal, CallArgs, NoCall, Writers
<1>3. TypeOK'
  <2>1. memory' \in [Address -> Byte]
    BY <1>1, <1>2
  <2>2. i' \in 0..Size
    BY <1>2, StringsAssumption
  <2> QED
    BY <1>1, <1>2, <2>1, <2>2 DEF TypeOK
<1>4. CallsLegal'
  <2>1. Plain(call)'
    BY <1>1, <1>2 DEF Plain
  <2>2. Legal(call)'
    BY <1>1, <1>2 DEF Legal, Writers
  <2> QED
    BY <1>1, <1>2, <2>1, <2>2 DEF CallsLegal, NoCall, Writers
<1>5. WritesSoFar'
  <2>1. ASSUME NEW x \in Address
        PROVE  memory'[x] = IF x \in Written' THEN Due(x)' ELSE before'[x]
    <3>1. memory[x] = IF x \in Written THEN Due(x) ELSE before[x]
      BY DEF IInv, WritesSoFar
    <3>2. Due(x)' = Due(x)
      BY <1>1 DEF Due, ToByte
    <3>3. memory'[x] = IF x = at THEN value ELSE memory[x]
      BY <1>1, <1>2
    <3> QED
      BY <1>1, <3>1, <3>2, <3>3
  <2>2. i' <= call.count /\ running'
    BY <1>1, <1>2, StringsAssumption
  <2> QED
    BY <1>1, <2>1, <2>2 DEF WritesSoFar
<1>6. ReadsSoFar' /\ ComparesExactly'
  BY <1>1 DEF ReadsSoFar, ComparesExactly, Returned, Readers, Writers
<1> QED
  BY <1>3, <1>4, <1>5, <1>6 DEF IInv

(* A function that writes returns once everything has been written.         *)
LEMMA WriterReturns ==
  ASSUME IInv, running, call.fn \in Writers, Return(0),
         i = IF Upward(call) THEN call.count ELSE 0
  PROVE  IInv'
<1>1. /\ memory' = memory /\ before' = before /\ call' = call /\ i' = i
      /\ ret' = 0 /\ running' = FALSE
  BY DEF Return
<1>2. TypeOK'
  <2>1. running' \in BOOLEAN
    BY <1>1
  <2> QED
    BY <1>1, <2>1 DEF IInv, TypeOK
<1>3. CallsLegal'
  <2>1. Legal(call)' <=> Legal(call)
    BY <1>1 DEF Legal, Writers
  <2> QED
    BY <1>1, <2>1 DEF IInv, CallsLegal, Plain
<1>4. WritesSoFar'
  <2>1. Upward(call)' = Upward(call) /\ Written' = Written
    BY <1>1 DEF Written, Upward
  <2>2. \A x \in Address : Due(x)' = Due(x)
    BY <1>1 DEF Due, ToByte
  <2> QED
    BY <1>1, <2>1, <2>2 DEF IInv, WritesSoFar
<1>5. ReadsSoFar' /\ ComparesExactly'
  BY <1>1 DEF ReadsSoFar, ComparesExactly, Returned, Readers, Writers
<1> QED
  BY <1>2, <1>3, <1>4, <1>5 DEF IInv

(* One more byte from the front.                                            *)
LEMMA WrittenUp ==
  ASSUME call.a \in Address, call.count \in 0..Size, i \in 0..Size,
         Upward(call), NEW value, Store(call.a + i, value), i' = i + 1, i < call.count
  PROVE  Written' = Written \cup {call.a + i} /\ i' \in 0..call.count
<1>1. call' = call
  BY DEF Store
<1>2. Upward(call)'
  BY <1>1 DEF Upward
<1>3. Written = call.a..(call.a + i - 1) /\ Written' = call.a..(call.a + (i + 1) - 1)
  BY <1>1, <1>2 DEF Written
<1>4. call.a \in Nat /\ call.count \in Nat /\ i \in Nat
  BY StringsAssumption DEF Address
<1>5. call.a..(call.a + (i + 1) - 1) = call.a..(call.a + i - 1) \cup {call.a + i}
  BY <1>4
<1> QED
  BY <1>3, <1>4, <1>5

(* memmove and memcpy, from the front: a byte they are still to read is not *)
(* among those they have written.                                           *)
LEMMA CopyUpKeeps ==
  ASSUME IInv, CopyUp
  PROVE  IInv'
<1>1. /\ running /\ call.fn \in {"memmove", "memcpy"} /\ Upward(call)
      /\ IF i < call.count
           THEN Store(call.a + i, memory[call.b + i]) /\ i' = i + 1
           ELSE Return(0)
  BY DEF CopyUp, Running
<1>2. /\ call \in CallArgs /\ Legal(call)
      /\ call.a \in Address /\ call.b \in Address /\ call.count \in 0..Size
      /\ i \in 0..Size /\ i <= call.count
      /\ memory \in [Address -> Byte]
  BY <1>1 DEF IInv, TypeOK, CallsLegal, CallArgs, NoCall, WritesSoFar, Writers
<1>3. /\ call.a + call.count <= Size /\ call.b + call.count <= Size
      /\ call.a < call.b \/ call.a + call.count <= call.b \/ call.b + call.count <= call.a
  BY <1>1, <1>2, Zenon DEF Legal, Upward
<1>4. CASE i < call.count
  <2>1. call.a + i \in Address /\ call.b + i \in Address /\ call.b + i \notin Written
    <3>1. Written = call.a..(call.a + i - 1)
      BY <1>1 DEF Written
    <3>2. /\ call.a \in Nat /\ call.b \in Nat /\ call.count \in Nat /\ i \in Nat
          /\ Size \in Nat
      BY <1>2, StringsAssumption DEF Address
    <3>3. call.b + i \notin call.a..(call.a + i - 1)
      BY <1>3, <1>4, <3>2
    <3> QED
      BY <1>3, <1>4, <3>1, <3>2, <3>3 DEF Address
  <2>2. memory[call.b + i] = before[call.b + i] /\ memory[call.b + i] \in Byte
    BY <1>1, <1>2, <2>1 DEF IInv, WritesSoFar, Writers
  <2>3. Due(call.a + i) = before[call.b + i]
    BY <1>1, <1>2, StringsAssumption DEF Due, Address
  <2>4. Written' = Written \cup {call.a + i} /\ i' \in 0..call.count
    BY <1>1, <1>2, <1>4, WrittenUp
  <2> QED
    BY <1>1, <1>4, <2>1, <2>2, <2>3, <2>4, StoreKeeps DEF Writers
<1>5. CASE ~(i < call.count)
  <2>1. i = call.count
    BY <1>2, <1>5, StringsAssumption
  <2> QED
    BY <1>1, <1>5, <2>1, WriterReturns DEF Writers
<1> QED
  BY <1>4, <1>5

(* memmove from the back.                                                   *)
LEMMA CopyDownKeeps ==
  ASSUME IInv, CopyDown
  PROVE  IInv'
<1>1. /\ running /\ call.fn = "memmove" /\ ~Upward(call)
      /\ IF i # 0
           THEN Store(call.a + i - 1, memory[call.b + i - 1]) /\ i' = i - 1
           ELSE Return(0)
  BY DEF CopyDown, Running
<1>2. /\ call \in CallArgs /\ Legal(call)
      /\ call.a \in Address /\ call.b \in Address /\ call.count \in 0..Size
      /\ i \in 0..Size /\ i <= call.count
      /\ memory \in [Address -> Byte]
  BY <1>1 DEF IInv, TypeOK, CallsLegal, CallArgs, NoCall, WritesSoFar, Writers
<1>3. /\ call.a + call.count <= Size /\ call.b + call.count <= Size
      /\ ~(call.a < call.b)
  BY <1>1, <1>2, Zenon DEF Legal, Upward
<1>4. CASE i # 0
  <2>1. /\ call.a + i - 1 \in Address /\ call.b + i - 1 \in Address
        /\ call.b + i - 1 \notin Written
    <3>1. /\ call.a \in Nat /\ call.b \in Nat /\ call.count \in Nat /\ i \in Nat
          /\ Size \in Nat /\ i >= 1 /\ call.b <= call.a
      BY <1>2, <1>3, <1>4, StringsAssumption DEF Address
    <3> DEFINE from == call.b + i - 1
               rest == (call.a + i)..(call.a + call.count - 1)
    <3>2. call.a + i - 1 \in Address /\ from \in Address
      BY <1>2, <1>3, <3>1 DEF Address
    <3>3. from \notin rest
      BY <3>1
    <3>4. Written = rest
      BY <1>1 DEF Written
    <3> QED
      BY <3>2, <3>3, <3>4
  <2>2. /\ memory[call.b + i - 1] = before[call.b + i - 1]
        /\ memory[call.b + i - 1] \in Byte
    BY <1>1, <1>2, <2>1 DEF IInv, WritesSoFar, Writers
  <2>3. Due(call.a + i - 1) = before[call.b + i - 1]
    <3>1. call.b + ((call.a + i - 1) - call.a) = call.b + i - 1
      BY <1>2, StringsAssumption DEF Address
    <3>2. Due(call.a + i - 1) = before[call.b + ((call.a + i - 1) - call.a)]
      <4>1. call.fn # "memset"
        BY <1>1
      <4> QED
        BY <4>1, Zenon DEF Due
    <3> QED
      BY <3>1, <3>2
  <2>4. Written' = Written \cup {call.a + i - 1} /\ i' \in 0..call.count
    <3>1. Written = (call.a + i)..(call.a + call.count - 1)
      BY <1>1 DEF Written
    <3>2. call' = call /\ i' = i - 1
      BY <1>1, <1>4 DEF Store
    <3>3. ~Upward(call)'
      BY <1>1, <3>2 DEF Upward
    <3>4. Written' = (call.a + (i - 1))..(call.a + call.count - 1)
      BY <3>2, <3>3 DEF Written
    <3>5. /\ call.a \in Nat /\ call.count \in Nat /\ i \in Nat /\ i # 0
          /\ i <= call.count
      BY <1>2, <1>4, StringsAssumption DEF Address
    <3>6. (call.a + (i - 1))..(call.a + call.count - 1)
            = (call.a + i)..(call.a + call.count - 1) \cup {call.a + i - 1}
      BY <3>5
    <3> QED
      BY <3>1, <3>2, <3>4, <3>5, <3>6
  <2> QED
    BY <1>1, <1>4, <2>1, <2>2, <2>3, <2>4, StoreKeeps DEF Writers
<1>5. CASE i = 0
  BY <1>1, <1>5, WriterReturns DEF Writers
<1> QED
  BY <1>4, <1>5

(* memset.                                                                  *)
LEMMA SetByteKeeps ==
  ASSUME IInv, SetByte
  PROVE  IInv'
<1>1. /\ running /\ call.fn = "memset" /\ Upward(call)
      /\ IF i < call.count
           THEN Store(call.a + i, ToByte(call.ch)) /\ i' = i + 1
           ELSE Return(0)
  BY DEF SetByte, Running, Upward
<1>2. /\ call \in CallArgs /\ Legal(call) /\ call.ch \in Ints
      /\ call.a \in Address /\ call.count \in 0..Size
      /\ i \in 0..Size /\ i <= call.count
  BY <1>1 DEF IInv, TypeOK, CallsLegal, CallArgs, NoCall, WritesSoFar, Writers
<1>3. call.a + call.count <= Size
  BY <1>1, <1>2, Zenon DEF Legal
<1>4. CASE i < call.count
  <2>1. call.a + i \in Address
    BY <1>2, <1>3, <1>4, StringsAssumption DEF Address
  <2>2. ToByte(call.ch) \in Byte /\ ToByte(call.ch) = Due(call.a + i)
    BY <1>1, <1>2, ToByteIsByte DEF Due
  <2>3. Written' = Written \cup {call.a + i} /\ i' \in 0..call.count
    BY <1>1, <1>2, <1>4, WrittenUp
  <2> QED
    BY <1>1, <1>4, <2>1, <2>2, <2>3, StoreKeeps DEF Writers
<1>5. CASE ~(i < call.count)
  <2>1. i = call.count
    BY <1>2, <1>5, StringsAssumption
  <2> QED
    BY <1>1, <1>5, <2>1, WriterReturns DEF Writers
<1> QED
  BY <1>4, <1>5

------------------------------------------------------------------------------
(* The functions that read.                                                 *)

(* What the invariant says of a function that reads, while it runs.         *)
LEMMA Reading ==
  ASSUME IInv, running, call.fn \in Readers
  PROVE  /\ memory = before /\ before \in [Address -> Byte]
         /\ call \in CallArgs /\ Plain(call) /\ Legal(call)
         /\ call.a \in Address /\ call.b \in Address /\ call.count \in 0..Size
         /\ i \in 0..Size
BY DEF IInv, TypeOK, CallsLegal, CallArgs, NoCall, ReadsSoFar, Readers

(* One more byte has been compared or measured.                             *)
LEMMA AdvanceKeeps ==
  ASSUME IInv, running, call.fn \in Readers, Advance, i + 1 <= Size,
         call.fn \in {"memcmp", "strncmp"} => i + 1 <= call.count,
         call.fn # "strlen" => before[call.a + i] = before[call.b + i],
         call.fn \in {"strlen", "strcmp"} => before[call.a + i] # 0,
         call.fn = "strncmp" => before[call.a] # 0
  PROVE  IInv'
<1>1. /\ memory' = memory /\ before' = before /\ call' = call /\ i' = i + 1
      /\ ret' = ret /\ running' = running
  BY DEF Advance, NextIndex
<1>2. i \in 0..Size
  BY DEF IInv, TypeOK
<1>3. TypeOK'
  <2>1. i' \in 0..Size
    BY <1>1, <1>2, StringsAssumption
  <2>2. running' \in BOOLEAN
    BY <1>1
  <2> QED
    BY <1>1, <2>1, <2>2 DEF IInv, TypeOK
<1>4. CallsLegal'
  <2>1. Legal(call)' <=> Legal(call)
    BY <1>1, Zenon DEF Legal, Terminated, Ends
  <2> QED
    BY <1>1, <2>1 DEF IInv, CallsLegal, Plain
<1>5. ReadsSoFar'
  <2>1. \A k \in 0..(i' - 1) : k \in 0..(i - 1) \/ k = i
    BY <1>1, <1>2
  <2> QED
    BY <1>1, <1>2, <2>1 DEF IInv, ReadsSoFar
<1>6. WritesSoFar'
  BY <1>1 DEF WritesSoFar, Readers, Writers
<1>7. ComparesExactly'
  BY <1>1, Zenon DEF ComparesExactly, Returned
<1> QED
  BY <1>3, <1>4, <1>5, <1>6, <1>7 DEF IInv

(* The right answer, which the three comparisons and strlen owe.            *)
LEMMA AnswerKeeps ==
  ASSUME IInv, running, call.fn \in Readers, NEW value \in Int, Return(value),
         call.fn = "memcmp" => value = Order(0..(call.count - 1)),
         call.fn = "strlen" => value = EndOf(call.a),
         call.fn = "strcmp" => Sign(value) = Order(StringRange),
         call.fn = "strncmp" =>
           EndsEarly \/ Sign(value) = Order({k \in StringRange : k < call.count})
  PROVE  IInv'
<1>1. /\ memory' = memory /\ before' = before /\ call' = call /\ i' = i
      /\ ret' = value /\ running' = FALSE
  BY DEF Return
<1>2. TypeOK'
  <2>1. running' \in BOOLEAN
    BY <1>1
  <2> QED
    BY <1>1, <2>1 DEF IInv, TypeOK
<1>3. CallsLegal'
  <2>1. Legal(call)' <=> Legal(call)
    BY <1>1, Zenon DEF Legal, Terminated, Ends
  <2> QED
    BY <1>1, <2>1 DEF IInv, CallsLegal, Plain
<1>4. ReadsSoFar' /\ WritesSoFar'
  BY <1>1 DEF IInv, ReadsSoFar, WritesSoFar, Readers, Writers
<1>5. ComparesExactly'
  <2>1. EndOf(call.a)' = EndOf(call.a) /\ StringRange' = StringRange
    BY <1>1, Zenon DEF EndOf, StringRange
  <2>2. \A range : Order(range)' = Order(range)
    BY <1>1, Zenon DEF Order, Differences
  <2>3. EndsEarly => EndsEarly'
    BY <1>1, <2>1, Zenon DEF EndsEarly, Differences
  <2>4. memory' = before'
    BY <1>1, Reading
  <2>5. ~EndsEarly' =>
          CASE call'.fn = "memcmp" -> ret' = Order(0..(call.count - 1))'
            [] call'.fn = "strlen" -> ret' = EndOf(call.a)'
            [] call'.fn = "strcmp" -> Sign(ret') = Order(StringRange)'
            [] call'.fn = "strncmp" ->
                 Sign(ret') = Order({k \in StringRange : k < call.count})'
    <3>1. CASE call.fn = "memcmp"
      <4>1. call'.fn = "memcmp" /\ ret' = Order(0..(call.count - 1))'
        BY <1>1, <2>2, <3>1
      <4> QED
        BY <4>1
    <3>2. CASE call.fn = "strlen"
      <4>1. call'.fn = "strlen" /\ ret' = EndOf(call.a)'
        BY <1>1, <2>1, <3>2
      <4> QED
        BY <4>1
    <3>3. CASE call.fn = "strcmp"
      <4>1. call'.fn = "strcmp" /\ Sign(ret') = Order(StringRange)'
        BY <1>1, <2>1, <2>2, <3>3
      <4> QED
        BY <4>1
    <3>4. CASE call.fn = "strncmp" /\ ~EndsEarly'
      <4>1. /\ call'.fn = "strncmp"
            /\ Sign(ret') = Order({k \in StringRange : k < call.count})'
        BY <1>1, <2>1, <2>2, <2>3, <3>4
      <4> QED
        BY <4>1
    <3> QED
      BY <3>1, <3>2, <3>3, <3>4 DEF Readers
  <2> QED
    BY <2>4, <2>5, Zenon DEF ComparesExactly
<1> QED
  BY <1>2, <1>3, <1>4, <1>5 DEF IInv

(* memcmp.                                                                  *)
LEMMA CompareBytesKeeps ==
  ASSUME IInv, CompareBytes
  PROVE  IInv'
<1> DEFINE x == memory[call.a + i]
           y == memory[call.b + i]
<1>1. /\ running /\ call.fn = "memcmp" /\ call.fn \in Readers
      /\ CASE i >= call.count          -> Return(0)
           [] i < call.count /\ x < y -> Return(-1)
           [] i < call.count /\ x > y -> Return(1)
           [] OTHER                   -> Advance
  BY DEF CompareBytes, Running, Readers
<1>2. /\ memory = before /\ before \in [Address -> Byte] /\ Legal(call)
      /\ call.a \in Nat /\ call.b \in Nat /\ call.count \in 0..Size /\ i \in Nat
      /\ Size \in Nat
  BY <1>1, Reading, StringsAssumption DEF Address
<1>3. call.a + call.count <= Size /\ call.b + call.count <= Size
  BY <1>1, <1>2, Zenon DEF Legal
<1>4. /\ i <= call.count
      /\ \A k \in 0..(i - 1) : before[call.a + k] = before[call.b + k]
  BY <1>1 DEF IInv, ReadsSoFar
<1>5. CASE i >= call.count
  <2>1. Return(0)
    BY <1>1, <1>2, <1>5
  <2>2. Order(0..(call.count - 1)) = 0
    BY <1>2, <1>4, <1>5, OrderOfFirst
  <2> QED
    BY <1>1, <2>1, <2>2, AnswerKeeps
<1>6. CASE i < call.count
  <2>1. x \in Nat /\ y \in Nat /\ x = before[call.a + i] /\ y = before[call.b + i]
    <3>1. call.a + i \in Address /\ call.b + i \in Address
      BY <1>2, <1>3, <1>6 DEF Address
    <3>2. x \in Byte /\ y \in Byte
      BY <1>2, <3>1
    <3> QED
      BY <1>2, <3>2, StringsAssumption DEF Byte
  <2>2. x # y => Order(0..(call.count - 1)) = Sign(x - y)
    <3>1. i \in 0..(call.count - 1) /\ 0..(call.count - 1) \in SUBSET Nat
      BY <1>2, <1>6
    <3>2. \A k \in 0..(call.count - 1) :
            k < i => before[call.a + k] = before[call.b + k]
      BY <1>2, <1>4
    <3> QED
      BY <2>1, <3>1, <3>2, OrderOfFirst, Zenon
  <2> HIDE DEF x, y
  <2>3. CASE x < y
    <3>1. Return(-1) /\ Sign(x - y) = -1
      BY <1>1, <1>2, <1>6, <2>1, <2>3 DEF Sign
    <3> QED
      BY <1>1, <2>1, <2>2, <2>3, <3>1, AnswerKeeps
  <2>4. CASE x > y
    <3>1. Return(1) /\ Sign(x - y) = 1
      BY <1>1, <1>2, <1>6, <2>1, <2>4 DEF Sign
    <3> QED
      BY <1>1, <2>1, <2>2, <2>4, <3>1, AnswerKeeps
  <2>5. CASE x = y
    <3>1. Advance
      BY <1>1, <1>2, <1>6, <2>1, <2>5
    <3>2. i + 1 <= Size /\ i + 1 <= call.count
      BY <1>2, <1>6
    <3> QED
      BY <1>1, <2>1, <2>5, <3>1, <3>2, AdvanceKeeps
  <2> QED
    BY <2>1, <2>3, <2>4, <2>5
<1> QED
  BY <1>2, <1>5, <1>6

(* A string that is legal to pass ends in memory, where it is read so far   *)
(* or later.                                                                *)
LEMMA StillInside ==
  ASSUME memory = before, before \in [Address -> Byte],
         NEW at \in Address, Terminated(at), i \in 0..Size,
         \A k \in 0..(i - 1) : before[at + k] # 0
  PROVE  /\ at + i \in Address /\ memory[at + i] \in Byte
         /\ i <= EndOf(at)
         /\ memory[at + i] # 0 => i < EndOf(at) /\ i + 1 <= Size
         /\ memory[at + i] = 0 => i = EndOf(at)
<1>1. PICK e \in 0..(Size - 1 - at) : before[at + e] = 0
  BY DEF Terminated, Ends
<1>2. at \in Nat /\ Size \in Nat /\ i \in Nat /\ e \in Nat /\ at + e < Size
  BY StringsAssumption DEF Address
<1>3. i <= e
  BY <1>1, <1>2
<1>4. at + i \in Address
  BY <1>2, <1>3 DEF Address
<1>5. /\ EndOf(at) \in 0..(Size - at)
      /\ \A k \in 0..(Size - 1 - at) : k < EndOf(at) => before[at + k] # 0
      /\ EndOf(at) < Size - at => before[at + EndOf(at)] = 0
  BY EndOfIsFirst, Zenon
<1>6. EndOf(at) <= e /\ EndOf(at) \in Nat
  BY <1>1, <1>2, <1>5
<1>7. before[at + EndOf(at)] = 0
  BY <1>2, <1>5, <1>6
<1>8. i <= EndOf(at)
  BY <1>2, <1>6, <1>7
<1>9. memory[at + i] = 0 => ~(i < EndOf(at))
  BY <1>2, <1>5, <1>6, <1>8
<1> QED
  BY <1>2, <1>4, <1>6, <1>7, <1>8, <1>9

(* strlen.                                                                  *)
LEMMA MeasureStringKeeps ==
  ASSUME IInv, MeasureString
  PROVE  IInv'
<1>1. /\ running /\ call.fn = "strlen" /\ call.fn \in Readers
      /\ IF memory[call.a + i] # 0 THEN Advance ELSE Return(i)
  BY DEF MeasureString, Running, Readers
<1>2. /\ memory = before /\ before \in [Address -> Byte] /\ Legal(call)
      /\ call.a \in Address /\ i \in 0..Size
  BY <1>1, Reading
<1>3. Terminated(call.a)
  BY <1>1, <1>2, Zenon DEF Legal
<1>4. \A k \in 0..(i - 1) : before[call.a + k] # 0
  BY <1>1 DEF IInv, ReadsSoFar
<1>5. /\ memory[call.a + i] # 0 => i < EndOf(call.a) /\ i + 1 <= Size
      /\ memory[call.a + i] = 0 => i = EndOf(call.a)
  BY <1>2, <1>3, <1>4, StillInside
<1>6. CASE memory[call.a + i] # 0
  BY <1>1, <1>2, <1>5, <1>6, AdvanceKeeps
<1>7. CASE memory[call.a + i] = 0
  <2>1. i \in Int
    BY <1>2, StringsAssumption
  <2> QED
    BY <1>1, <1>5, <1>7, <2>1, AnswerKeeps
<1> QED
  BY <1>6, <1>7

(* strcmp.                                                                  *)
LEMMA CompareStringsKeeps ==
  ASSUME IInv, CompareStrings
  PROVE  IInv'
<1> DEFINE x == memory[call.a + i]
           y == memory[call.b + i]
<1>1. /\ running /\ call.fn = "strcmp" /\ call.fn \in Readers
      /\ CASE x # y                      -> Return(x - y)
           [] x = y /\ x = 0             -> Return(0)
           [] OTHER                      -> Advance
  BY DEF CompareStrings, Running, Readers, Difference, AtEnd
<1>2. /\ memory = before /\ before \in [Address -> Byte] /\ Legal(call)
      /\ call.a \in Address /\ call.b \in Address /\ i \in 0..Size
  BY <1>1, Reading
<1>3. Terminated(call.a) /\ Terminated(call.b)
  BY <1>1, <1>2, Zenon DEF Legal
<1>4. /\ \A k \in 0..(i - 1) : before[call.a + k] = before[call.b + k]
      /\ \A k \in 0..(i - 1) : before[call.a + k] # 0
      /\ \A k \in 0..(i - 1) : before[call.b + k] # 0
  BY <1>1 DEF IInv, ReadsSoFar
<1>5. /\ x = before[call.a + i] /\ y = before[call.b + i]
      /\ x \in Byte /\ y \in Byte
      /\ i <= EndOf(call.a) /\ i <= EndOf(call.b)
      /\ x # 0 => i + 1 <= Size
      /\ x = 0 => i = EndOf(call.a)
  BY <1>2, <1>3, <1>4, StillInside
<1>6. x \in Nat /\ y \in Nat
  BY <1>5, StringsAssumption DEF Byte
<1>7. /\ StringRange \in SUBSET Nat /\ i \in StringRange
      /\ \A k \in StringRange : k < i => before[call.a + k] = before[call.b + k]
      /\ x = 0 => \A k \in StringRange : k <= i
  <2>1. /\ StringRange \in SUBSET Nat /\ i \in Nat
        /\ \A k \in Nat : k \in StringRange <=>
             k <= EndOf(call.a) /\ k <= EndOf(call.b)
    BY <1>2, RangeEnds, StringsAssumption
  <2>2. i \in StringRange
    BY <1>5, <2>1
  <2>3. \A k \in StringRange : k < i => before[call.a + k] = before[call.b + k]
    BY <1>4, <2>1
  <2>4. x = 0 => \A k \in StringRange : k <= i
    BY <1>5, <2>1
  <2> QED
    BY <2>1, <2>2, <2>3, <2>4
<1> HIDE DEF x, y
<1>8. CASE x # y
  <2>1. Order(StringRange) = Sign(x - y)
    BY <1>5, <1>7, <1>8, OrderOfFirst
  <2>2. Return(x - y) /\ x - y \in Int
    BY <1>1, <1>6, <1>8
  <2> QED
    BY <1>1, <2>1, <2>2, AnswerKeeps
<1>9. CASE x = y /\ x = 0
  <2>1. Return(0) /\ Sign(0) = 0
    BY <1>1, <1>9 DEF Sign
  <2>2. \A k \in StringRange : before[call.a + k] = before[call.b + k]
    <3>1. ASSUME NEW k \in StringRange
          PROVE  before[call.a + k] = before[call.b + k]
      <4>1. k = i \/ k < i
        BY <1>2, <1>7, <1>9, StringsAssumption
      <4> QED
        BY <1>5, <1>7, <1>9, <4>1
    <3> QED
      BY <3>1
  <2>3. Order(StringRange) = 0
    BY <1>7, <2>2, OrderOfFirst
  <2> QED
    BY <1>1, <2>1, <2>3, AnswerKeeps
<1>10. CASE x = y /\ x # 0
  <2>1. Advance
    BY <1>1, <1>10
  <2> QED
    BY <1>1, <1>5, <1>10, <2>1, AdvanceKeeps
<1> QED
  BY <1>8, <1>9, <1>10

(* Equal so far, and further than a string reaches: the strings are equal   *)
(* and end early.                                                           *)
LEMMA PastAnEnd ==
  ASSUME before \in [Address -> Byte], call.fn = "strncmp",
         call.a \in Address, call.b \in Address, call.count \in 0..Size,
         call.a + call.count <= Size, call.b + call.count <= Size,
         i \in Nat, i < call.count, i > 0 => before[call.a] # 0,
         \A k \in 0..(i - 1) : before[call.a + k] = before[call.b + k],
         i > EndOf(call.a) \/ i > EndOf(call.b)
  PROVE  EndsEarly
<1>1. call.a \in Nat /\ call.b \in Nat /\ call.count \in Nat /\ Size \in Nat
  BY StringsAssumption DEF Address
<1>2. /\ EndOf(call.a) \in 0..(Size - call.a)
      /\ \A k \in 0..(Size - 1 - call.a) :
           k < EndOf(call.a) => before[call.a + k] # 0
      /\ EndOf(call.a) < Size - call.a => before[call.a + EndOf(call.a)] = 0
  BY EndOfIsFirst, Zenon
<1>3. /\ EndOf(call.b) \in 0..(Size - call.b)
      /\ EndOf(call.b) < Size - call.b => before[call.b + EndOf(call.b)] = 0
  BY EndOfIsFirst, Zenon
<1>4. EndOf(call.a) < i
  <2>1. CASE i > EndOf(call.b)
    <3>1. /\ EndOf(call.b) \in 0..(i - 1)
          /\ EndOf(call.b) \in 0..(Size - 1 - call.a)
          /\ EndOf(call.b) < Size - call.b
      BY <1>1, <1>3, <2>1
    <3>2. before[call.a + EndOf(call.b)] = 0
      BY <1>3, <3>1
    <3>3. ~(EndOf(call.b) < EndOf(call.a))
      BY <1>2, <3>1, <3>2
    <3> QED
      BY <1>1, <1>2, <1>3, <2>1, <3>3
  <2> QED
    BY <1>1, <1>2, <2>1
<1>5. 0 < EndOf(call.a)
  <2> SUFFICES ASSUME EndOf(call.a) = 0 PROVE FALSE
    BY <1>1, <1>2
  <2>1. before[call.a + 0] = 0
    BY <1>1, <1>2, <1>4
  <2>2. call.a + 0 = call.a /\ i > 0
    BY <1>1, <1>4
  <2> QED
    BY <2>1, <2>2
<1>6. EndOf(call.a) < call.count - 1
  BY <1>1, <1>2, <1>4
<1>7. Differences(StringRange) = {}
  <2>1. \A k \in StringRange : k \in 0..(i - 1)
    BY <1>1, <1>2, <1>4, RangeEnds
  <2> QED
    BY <2>1 DEF Differences
<1> QED
  BY <1>5, <1>6, <1>7 DEF EndsEarly

(* strncmp: what it answers wrongly is no more than what EndsEarly says.    *)
LEMMA CompareCountedKeeps ==
  ASSUME IInv, CompareCounted
  PROVE  IInv'
<1> DEFINE x == memory[call.a + i]
           y == memory[call.b + i]
           range == {k \in StringRange : k < call.count}
<1>1. /\ running /\ call.fn = "strncmp" /\ call.fn \in Readers
      /\ CASE i >= call.count                                -> Return(0)
           [] i < call.count /\ x # y                        -> Return(x - y)
           [] i < call.count /\ x = y /\ memory[call.a] = 0  -> Return(0)
           [] OTHER                                          -> Advance
  BY DEF CompareCounted, Running, Readers, Difference, AtEnd
<1>2. /\ memory = before /\ before \in [Address -> Byte] /\ Legal(call)
      /\ call.a \in Address /\ call.b \in Address /\ call.count \in 0..Size
      /\ i \in 0..Size
  BY <1>1, Reading
<1>3. call.a + call.count <= Size /\ call.b + call.count <= Size
  BY <1>1, <1>2, Zenon DEF Legal
<1>4. /\ i <= call.count
      /\ \A k \in 0..(i - 1) : before[call.a + k] = before[call.b + k]
      /\ i > 0 => before[call.a] # 0
  BY <1>1 DEF IInv, ReadsSoFar
<1>5. /\ call.a \in Nat /\ call.b \in Nat /\ call.count \in Nat /\ i \in Nat
      /\ Size \in Nat
  BY <1>2, StringsAssumption DEF Address
<1>6. /\ StringRange \in SUBSET Nat
      /\ \A k \in Nat : k \in StringRange <=> k <= EndOf(call.a) /\ k <= EndOf(call.b)
      /\ range \in SUBSET Nat
  BY <1>2, RangeEnds
<1>7. CASE i >= call.count
  <2>1. Return(0) /\ Sign(0) = 0
    BY <1>1, <1>5, <1>7 DEF Sign
  <2>2. \A k \in range : before[call.a + k] = before[call.b + k]
    BY <1>4, <1>5, <1>6, <1>7
  <2>3. Order(range) = 0
    BY <1>6, <2>2, OrderOfFirst
  <2> QED
    BY <1>1, <2>1, <2>3, AnswerKeeps
<1>8. CASE i < call.count
  <2>1. call.a + i \in Address /\ call.b + i \in Address
    BY <1>3, <1>5, <1>8 DEF Address
  <2>2. /\ x = before[call.a + i] /\ y = before[call.b + i]
        /\ x \in Byte /\ y \in Byte
    BY <1>2, <2>1
  <2>3. x \in Nat /\ y \in Nat
    BY <2>2, StringsAssumption DEF Byte
  <2> HIDE DEF x, y
  <2>4. CASE x # y
    <3>1. Return(x - y) /\ x - y \in Int
      BY <1>1, <1>5, <1>8, <2>3, <2>4
    <3>2. CASE i \in StringRange
      <4>1. /\ i \in range
            /\ \A k \in range : k < i => before[call.a + k] = before[call.b + k]
        BY <1>4, <1>5, <1>6, <1>8, <3>2
      <4> HIDE DEF range
      <4>2. Order(range) = Sign(x - y)
        BY <1>6, <2>2, <2>4, <4>1, OrderOfFirst
      <4> QED
        BY <1>1, <3>1, <4>2, AnswerKeeps DEF range
    <3>3. CASE i \notin StringRange
      <4>1. EndOf(call.a) \in Nat /\ EndOf(call.b) \in Nat
        BY <1>2, EndOfIsFirst, StringsAssumption DEF Address
      <4>2. i > EndOf(call.a) \/ i > EndOf(call.b)
        BY <1>5, <1>6, <3>3, <4>1
      <4>3. EndsEarly
        BY <1>1, <1>2, <1>3, <1>4, <1>5, <1>8, <4>2, PastAnEnd
      <4> QED
        BY <1>1, <3>1, <4>3, AnswerKeeps
    <3> QED
      BY <3>2, <3>3
  <2>5. CASE x = y /\ memory[call.a] = 0
    <3>1. Return(0) /\ Sign(0) = 0
      BY <1>1, <1>5, <1>8, <2>5 DEF Sign
    <3>2. i = 0 /\ before[call.a + 0] = 0
      BY <1>2, <1>4, <1>5, <2>5
    <3>3. EndOf(call.a) = 0
      <4>1. /\ EndOf(call.a) \in 0..(Size - call.a)
            /\ \A k \in 0..(Size - 1 - call.a) :
                 k < EndOf(call.a) => before[call.a + k] # 0
        BY <1>2, EndOfIsFirst, Zenon
      <4>2. 0 \in 0..(Size - 1 - call.a)
        BY <1>2, <1>5 DEF Address
      <4> QED
        BY <1>5, <3>2, <4>1, <4>2
    <3>4. \A k \in range : before[call.a + k] = before[call.b + k]
      <4>1. \A k \in range : k = i
        BY <1>6, <3>2, <3>3
      <4> HIDE DEF range
      <4> QED
        BY <2>2, <2>5, <4>1
    <3>5. Order(range) = 0
      BY <1>6, <3>4, OrderOfFirst
    <3> QED
      BY <1>1, <3>1, <3>5, AnswerKeeps
  <2>6. CASE x = y /\ memory[call.a] # 0
    <3>1. Advance
      BY <1>1, <1>5, <1>8, <2>6
    <3>2. i + 1 <= Size /\ i + 1 <= call.count
      BY <1>3, <1>5, <1>8
    <3> QED
      BY <1>1, <1>2, <2>2, <2>6, <3>1, <3>2, AdvanceKeeps
  <2> QED
    BY <2>4, <2>5, <2>6
<1> QED
  BY <1>5, <1>7, <1>8

------------------------------------------------------------------------------
(* The theorems.                                                            *)

LEMMA StepKeeps == IInv /\ [Next]_vars => IInv'
<1> SUFFICES ASSUME IInv, [Next]_vars PROVE IInv'
  OBVIOUS
<1>1. CASE Step
  BY <1>1, CopyUpKeeps, CopyDownKeeps, SetByteKeeps, CompareBytesKeeps,
     MeasureStringKeeps, CompareStringsKeeps, CompareCountedKeeps, Zenon DEF Step
<1>2. CASE UNCHANGED vars
  <2>1. /\ memory' = memory /\ before' = before /\ call' = call /\ i' = i
        /\ ret' = ret /\ running' = running
    BY <1>2 DEF vars
  <2>2. TypeOK' <=> TypeOK
    BY <2>1, Zenon DEF TypeOK
  <2>3. CallsLegal' <=> CallsLegal
    BY <2>1, Zenon DEF CallsLegal, Plain, Legal, Terminated, Ends
  <2>4. WritesSoFar' <=> WritesSoFar
    BY <2>1, Zenon DEF WritesSoFar, Written, Due, ToByte, Upward
  <2>5. ReadsSoFar' <=> ReadsSoFar
    BY <2>1, Zenon DEF ReadsSoFar
  <2>6. EndsEarly' <=> EndsEarly
    BY <2>1, Zenon DEF EndsEarly, EndOf, Differences, StringRange
  <2>7. ComparesExactly' <=> ComparesExactly
    <3>1. EndOf(call.a)' = EndOf(call.a) /\ StringRange' = StringRange
      BY <2>1, Zenon DEF EndOf, StringRange
    <3>2. \A range : Order(range)' = Order(range)
      BY <2>1, Zenon DEF Order, Differences
    <3>3. Order({k \in StringRange : k < call.count})'
            = Order({k \in StringRange : k < call.count})
      BY <2>1, <3>1, <3>2, Zenon
    <3>4. Order(0..(call.count - 1))' = Order(0..(call.count - 1))
      BY <2>1, <3>2, Zenon
    <3>5. Order(StringRange)' = Order(StringRange)
      BY <3>1, <3>2, Zenon
    <3> QED
      BY <2>1, <2>6, <3>1, <3>3, <3>4, <3>5, Zenon DEF ComparesExactly, Returned
  <2> QED
    BY <2>2, <2>3, <2>4, <2>5, <2>7 DEF IInv
<1> QED
  BY <1>1, <1>2, CallKeeps, GoOnKeeps DEF Next

LEMMA IInvWrites == IInv => WritesExactly
<1> SUFFICES ASSUME IInv, ~running, call.fn \in Writers
             PROVE  memory = [x \in Address |->
                      IF x \notin call.a..(call.a + call.count - 1) THEN before[x]
                      ELSE IF call.fn = "memset" THEN call.ch % ByteSpan
                      ELSE before[call.b + (x - call.a)]]
  BY DEF WritesExactly, Returned
<1>1. /\ memory \in [Address -> Byte] /\ call \in CallArgs
      /\ call.a \in Nat /\ call.count \in Nat
  BY StringsAssumption
     DEF IInv, TypeOK, CallsLegal, CallArgs, NoCall, Writers, Address
<1>2. i = IF Upward(call) THEN call.count ELSE 0
  BY DEF IInv, WritesSoFar
<1>3. Written = call.a..(call.a + call.count - 1)
  <2>1. CASE Upward(call)
    BY <1>2, <2>1 DEF Written
  <2>2. CASE ~Upward(call)
    BY <1>1, <1>2, <2>2 DEF Written
  <2> QED
    BY <2>1, <2>2
<1>4. \A x \in Address : memory[x] = IF x \in Written THEN Due(x) ELSE before[x]
  BY DEF IInv, WritesSoFar
<1> QED
  BY <1>1, <1>3, <1>4 DEF Due, ToByte

LEMMA IInvReads == IInv => ReadsInside
<1> SUFFICES ASSUME IInv, running PROVE ReadsInside
  BY DEF ReadsInside
<1>1. call.fn \in Writers \cup Readers
  BY DEF IInv, CallsLegal, CallArgs
<1>2. CASE call.fn \in {"strlen", "strcmp"}
  <2>1. call.fn \in Readers
    BY <1>2 DEF Readers
  <2>2. /\ memory = before /\ before \in [Address -> Byte] /\ Legal(call)
        /\ call.a \in Address /\ call.b \in Address /\ i \in 0..Size
    BY <2>1, Reading
  <2>3. Terminated(call.a) /\ (call.fn = "strcmp" => Terminated(call.b))
    BY <1>2, <2>2, Zenon DEF Legal
  <2>4. /\ \A k \in 0..(i - 1) : before[call.a + k] # 0
        /\ call.fn = "strcmp" => \A k \in 0..(i - 1) : before[call.b + k] # 0
    BY <1>2, <2>1 DEF IInv, ReadsSoFar
  <2>5. i <= EndOf(call.a) /\ (call.fn = "strcmp" => i <= EndOf(call.b))
    BY <2>2, <2>3, <2>4, StillInside
  <2> QED
    BY <1>2, <2>5 DEF ReadsInside
<1>3. CASE call.fn \notin {"strlen", "strcmp"}
  <2>1. i <= call.count
    BY <1>1, <1>3 DEF IInv, WritesSoFar, ReadsSoFar, Readers, Writers
  <2> QED
    BY <1>3, <2>1 DEF ReadsInside
<1> QED
  BY <1>2, <1>3

(* The invariant holds of every state the functions reach, for every size   *)
(* of memory.                                                               *)
THEOREM Invariance == Spec => []IInv
BY InitIInv, StepKeeps, PTL DEF Spec

(* No index leaves the memory, whatever is called with whatever is legal.   *)
THEOREM TypeCorrect == Spec => []TypeOK
<1>1. IInv => TypeOK
  BY DEF IInv
<1> QED
  BY <1>1, Invariance, PTL

(* memmove, memcpy and memset leave what they are to leave and nothing else,*)
(* memmove however its arrays overlap.                                      *)
THEOREM WritesAreExact == Spec => []WritesExactly
BY IInvWrites, Invariance, PTL

(* memcmp, strlen and strcmp give the right answer, and so does strncmp but *)
(* for equal strings that end early; none of them writes.                   *)
THEOREM AnswersAreExact == Spec => []ComparesExactly
<1>1. IInv => ComparesExactly
  BY DEF IInv
<1> QED
  BY <1>1, Invariance, PTL

(* No function goes behind the bytes it was given or the end of a string.   *)
THEOREM ReadsStayInside == Spec => []ReadsInside
BY IInvReads, Invariance, PTL
==============================================================================

------------------------------ MODULE Strings ------------------------------
(***************************************************************************)
(* The memory and string functions both programs are linked with           *)
(* (string.c), one byte of a call at a time, on a memory that holds all    *)
(* the arrays of a call.  Pointers are indices into it.                    *)
(***************************************************************************)
EXTENDS Integers, FiniteSetsExt

CONSTANTS
  Size,      \* bytes of memory
  ByteSpan,  \* values of a byte (256)
  Ints       \* the integers passed as the byte to set

ASSUME StringsAssumption ==
  /\ {Size, ByteSpan} \subseteq Nat \ {0}
  /\ Ints \subseteq Int

Byte     == 0..(ByteSpan - 1)
Address  == 0..(Size - 1)
Writers  == {"memmove", "memcpy", "memset"}
Readers  == {"memcmp", "strlen", "strcmp", "strncmp"}
NoCall   == [fn |-> "none"]

\* a is dest, lhs or str; b is src, rhs or the second string.
CallArgs ==
  [fn : Writers \cup Readers, a : Address, b : Address, count : 0..Size, ch : Ints]

VARIABLES
  memory,
  call,     \* the call and its arguments
  running,  \* whether it has not returned yet
  i,        \* the index, or how far the pointers have been advanced
  ret,      \* what it returned, if a number
  before    \* the memory when it was called

vars == <<memory, call, running, i, ret, before>>

Init ==
  /\ memory \in [Address -> Byte]
  /\ call = NoCall
  /\ running = FALSE
  /\ i = 0
  /\ ret = 0
  /\ before = memory

------------------------------------------------------------------------------
(* What a caller has to see to.                                             *)

Ends(at)      == {k \in 0..(Size - 1 - at) : memory[at + k] = 0}
Terminated(at) == Ends(at) # {}

\* Arrays hold count bytes, memcpy's do not overlap (they are restrict), and
\* strings have an end.
Legal(c) ==
  CASE c.fn \in {"memmove", "memcmp", "strncmp"} ->
         c.a + c.count <= Size /\ c.b + c.count <= Size
    [] c.fn = "memcpy" ->
         /\ c.a + c.count <= Size /\ c.b + c.count <= Size
         /\ c.a + c.count <= c.b \/ c.b + c.count <= c.a
    [] c.fn = "memset" -> c.a + c.count <= Size
    [] c.fn = "strlen" -> Terminated(c.a)
    [] c.fn = "strcmp" -> Terminated(c.a) /\ Terminated(c.b)

\* An argument a function does not have is 0.
Plain(c) ==
  /\ c.fn \in {"memset", "strlen"} => c.b = 0
  /\ c.fn \in {"strlen", "strcmp"} => c.count = 0
  /\ c.fn # "memset" => c.ch = 0

\* memmove copies towards higher addresses whatever the order of the arrays.
MistakenUpward(c) == TRUE

Upward(c) == c.fn # "memmove" \/ c.a < c.b

Call ==
  /\ call = NoCall
  /\ \E c \in {x \in CallArgs : Plain(x) /\ Legal(x)} :
       /\ call' = c
       /\ i' = IF Upward(c) THEN 0 ELSE c.count
  /\ running' = TRUE
  /\ before' = memory
  /\ UNCHANGED <<memory, ret>>

------------------------------------------------------------------------------
Running(fn) == running /\ call.fn = fn

Return(value) ==
  /\ running' = FALSE
  /\ ret' = value
  /\ UNCHANGED <<memory, call, i, before>>

\* A pointer that is not advanced.
MistakenNextIndex(k) == k

NextIndex(k) == k + 1

Advance ==
  /\ i' = NextIndex(i)
  /\ UNCHANGED <<memory, call, running, ret, before>>

Store(at, value) ==
  /\ memory' = [memory EXCEPT ![at] = value]
  /\ UNCHANGED <<call, running, ret, before>>

\* memmove's first loop, and memcpy's.
CopyUp ==
  /\ Running("memmove") \/ Running("memcpy")
  /\ Upward(call)
  /\ IF i < call.count
       THEN Store(call.a + i, memory[call.b + i]) /\ i' = i + 1
       ELSE Return(0)

\* memmove's second loop.
CopyDown ==
  /\ Running("memmove")
  /\ ~Upward(call)
  /\ IF i # 0
       THEN Store(call.a + i - 1, memory[call.b + i - 1]) /\ i' = i - 1
       ELSE Return(0)

\* The int is stored as it is.
MistakenToByte(ch) == ch

ToByte(ch) == ch % ByteSpan

SetByte ==
  /\ Running("memset")
  /\ IF i < call.count
       THEN Store(call.a + i, ToByte(call.ch)) /\ i' = i + 1
       ELSE Return(0)

CompareBytes ==
  LET x == memory[call.a + i]
      y == memory[call.b + i]
  IN  /\ Running("memcmp")
      /\ CASE i >= call.count                -> Return(0)
           [] i < call.count /\ x < y       -> Return(-1)
           [] i < call.count /\ x > y       -> Return(1)
           [] OTHER                         -> Advance

MeasureString ==
  /\ Running("strlen")
  /\ IF memory[call.a + i] # 0 THEN Advance ELSE Return(i)

\* Bytes are compared as plain, signed, chars.
MistakenDifference(x, y) ==
  LET char(z) == IF 2 * z > ByteSpan THEN z - ByteSpan ELSE z
  IN  char(x) - char(y)

Difference(x, y) == x - y

\* The end of the strings is not looked for.
MistakenAtEnd(at) == FALSE

AtEnd(at) == memory[at] = 0

CompareStrings ==
  LET x == memory[call.a + i]
      y == memory[call.b + i]
  IN  /\ Running("strcmp")
      /\ CASE x # y                            -> Return(Difference(x, y))
           [] x = y /\ AtEnd(call.a + i)       -> Return(0)
           [] OTHER                            -> Advance

\* The end is looked for in the first byte of the string, not in byte i.
CompareCounted ==
  LET x == memory[call.a + i]
      y == memory[call.b + i]
  IN  /\ Running("strncmp")
      /\ CASE i >= call.count                              -> Return(0)
           [] i < call.count /\ x # y                      -> Return(Difference(x, y))
           [] i < call.count /\ x = y /\ AtEnd(call.a)     -> Return(0)
           [] OTHER                                        -> Advance

\* The caller has taken the result and goes on.
GoOn ==
  /\ ~running
  /\ call # NoCall
  /\ call' = NoCall
  /\ i' = 0
  /\ ret' = 0
  /\ before' = memory
  /\ UNCHANGED <<memory, running>>

Step ==
  \/ CopyUp
  \/ CopyDown
  \/ SetByte
  \/ CompareBytes
  \/ MeasureString
  \/ CompareStrings
  \/ CompareCounted

Next == Call \/ Step \/ GoOn

\* A function that is called runs.
Spec == Init /\ [][Next]_vars /\ WF_vars(Step)

------------------------------------------------------------------------------
(* What the functions promise, of the memory they were called with.         *)

Returned(fns) == ~running /\ call.fn \in fns

\* Where the strings or arrays differ within a range of indices.
Differences(range) == {k \in range : before[call.a + k] # before[call.b + k]}

Sign(n) == IF n < 0 THEN -1 ELSE IF n > 0 THEN 1 ELSE 0

\* -1, 0 or 1: the order of the first bytes that differ.
Order(range) ==
  IF Differences(range) = {} THEN 0
  ELSE LET k == Min(Differences(range))
       IN  Sign(before[call.a + k] - before[call.b + k])

EndOf(at) == Min({Size - at} \cup {k \in 0..(Size - 1 - at) : before[at + k] = 0})

\* The indices two strings are compared at: up to the first end.
StringRange == 0..Min({EndOf(call.a), EndOf(call.b)})

\* Equal strings that end within count bytes, other than empty ones: the case
\* strncmp gets wrong (string.c:103).
EndsEarly ==
  /\ call.fn = "strncmp"
  /\ 0 < EndOf(call.a) /\ EndOf(call.a) < call.count - 1
  /\ Differences(StringRange) = {}

\* Every variable has its type, and no index leaves the memory.
TypeOK ==
  /\ {memory, before} \subseteq [Address -> Byte]
  /\ call \in CallArgs \cup {NoCall}
  /\ running \in BOOLEAN
  /\ i \in 0..Size
  /\ ret \in Int

\* A write leaves exactly its bytes: the destination holds what the source held
\* before the call, however the two overlap, and nothing else has changed
\* (string.c:9-22, 32-35, 45-48).
WritesExactly ==
  Returned(Writers) =>
    memory = [x \in Address |->
      IF x \notin call.a..(call.a + call.count - 1) THEN before[x]
      ELSE IF call.fn = "memset" THEN call.ch % ByteSpan
      ELSE before[call.b + (x - call.a)]]

\* A comparison orders its arguments by the first bytes that differ, an end of
\* string being the lowest, and a length counts the bytes before the end; and
\* neither changes memory (string.c:53-115).
ComparesExactly ==
  Returned(Readers) /\ ~EndsEarly =>
    /\ memory = before
    /\ CASE call.fn = "memcmp" -> ret = Order(0..(call.count - 1))
         [] call.fn = "strlen" -> ret = EndOf(call.a)
         [] call.fn = "strcmp" -> Sign(ret) = Order(StringRange)
         [] call.fn = "strncmp" ->
              Sign(ret) = Order({k \in StringRange : k < call.count})

\* Nothing behind the end of a string is read, nor behind the bytes of an array
\* (string.c:59, 78, 85-91).
ReadsInside ==
  running =>
    /\ call.fn \in {"strlen", "strcmp"} => i <= EndOf(call.a)
    /\ call.fn = "strcmp" => i <= EndOf(call.b)
    /\ call.fn \notin {"strlen", "strcmp"} => i <= call.count

\* Every call returns (string.c:11, 18, 78, 85).
Returns == running ~> ~running
==============================================================================

---------------------------- MODULE ConsoleProofs ----------------------------
(***************************************************************************)
(* Proofs about Console, for every size of an int and of the controller's  *)
(* buffers and everything the callers may print: how serial_init leaves    *)
(* the controller, where the self-test's byte ends up, and what reaches    *)
(* the line.                                                               *)
(***************************************************************************)
EXTENDS Console, LoopProofs, SequenceTheorems

Clean     == Byte \ {TestByte}
Printable == Char \ {TestByte}
Leftovers == {<<>>, <<Leftover>>}

Conversions == {CH_s, CH_c, CH_x, CH_d, CH_u}

\* A piece its conversion is made for: numbers in the range of their types, in
\* an unsigned decimal one that is an int as well, strings of characters that
\* are not the test byte, and plain text without the conversions' mark.
LegalPiece(piece) ==
  CASE piece.as = "text" -> piece.value \in Seq(Printable \ {PERCENT})
    [] piece.as = "s"    -> piece.value \in Seq(Printable)
    [] piece.as = "odd"  ->
         \/ piece.value = <<PERCENT>>
         \/ \E c \in Char \ (Conversions \cup {PERCENT}) : piece.value = <<PERCENT, c>>
    [] piece.as = "c"    -> piece.value \in Printable
    [] piece.as = "x"    -> piece.value \in 0..(WordSpan - 1)
    [] piece.as = "xx"   -> piece.value \in 0..(WordSpan * WordSpan - 1)
    [] piece.as = "d"    -> piece.value \in -(WordSpan \div 2)..(WordSpan \div 2 - 1)
    [] piece.as = "u"    -> piece.value \in 0..(WordSpan \div 2 - 1)
    [] OTHER             -> TRUE

\* A lone mark is the format's last character, or it would swallow the next.
LegalPieces(pieces) ==
  \A n \in DOMAIN pieces :
    /\ LegalPiece(pieces[n])
    /\ pieces[n].as = "odd" /\ pieces[n].value = <<PERCENT>> => n = Len(pieces)

LegalCall(call) ==
  \/ call.fn = "printf" /\ LegalPieces(call.pieces)
  \/ /\ call.fn = "write"
     /\ Len(call.pieces) = 1
     /\ call.pieces[1].as = "text" /\ call.pieces[1].value \in Seq(Printable)

\* What Kickstart's calls, and their strings, are like.
ASSUME ConsoleProofAssumption ==
  \A calls \in Scripts : \A n \in DOMAIN calls : LegalCall(calls[n])

------------------------------------------------------------------------------
(***************************************************************************)
(* The controller, write by write.                                         *)
(***************************************************************************)

Uart ==
  [dlab : BOOLEAN, divisor : [low : Byte, high : Byte], mode : Byte,
   loop : BOOLEAN, tx : Seq(Byte), shift : Seq(Byte), rx : Seq(Byte), line : Seq(Byte)]

Fits == Len(uart.tx) <= FifoSize /\ Len(uart.rx) <= FifoSize /\ Len(uart.shift) <= 1

Steps == {"init", "selftest", "normal", "ready", "halted"}

\* What serial_init has set after its first k - 1 writes.
SetSoFar ==
  /\ step \in Steps
  /\ k \in 1..10
  /\ step = "init" <=> k < 10
  /\ k \in 3..5 => uart.dlab
  /\ k >= 4 => uart.divisor.low = 3
  /\ k >= 5 => uart.divisor.high = 0
  /\ k >= 6 => ~uart.dlab /\ uart.mode = 3
  /\ k = 9 \/ step \in {"selftest", "normal", "halted"} => uart.loop
  /\ step = "ready" => ~uart.loop

\* What the boot loader has left is in one place at most, until the buffer is
\* cleared or the byte comes back in loopback mode.
OnlyLeftover ==
  /\ {uart.tx, uart.shift} \subseteq Leftovers
  /\ uart.tx = <<>> \/ uart.shift = <<>>
  /\ uart.line = <<>> \/ (uart.tx = <<>> /\ uart.shift = <<>>)
  /\ k >= 7 => uart.tx = <<>>
  /\ uart.rx \in Seq(Clean)

\* The test byte follows all other bytes through the controller, unless a full
\* buffer has lost it.
TestByteLast ==
  \/ uart.tx = <<TestByte>> /\ uart.shift \in Seq(Clean) /\ uart.rx \in Seq(Clean)
  \/ uart.tx = <<>> /\ uart.shift = <<TestByte>> /\ uart.rx \in Seq(Clean)
  \/ /\ uart.tx = <<>> /\ uart.shift = <<>>
     /\ \E before \in Seq(Clean) : uart.rx \in {before, Append(before, TestByte)}

Received ==
  /\ step = "init" => OnlyLeftover
  /\ step = "selftest" => TestByteLast
  /\ step = "normal" => uart.tx = <<>> /\ uart.shift = <<>> /\ uart.rx = <<>>
  /\ step = "ready" => uart.rx \in Seq(Clean)
  /\ step # "ready" => uart.line \in Leftovers

PortInv == uart \in Uart /\ Fits /\ SetSoFar /\ Received

LEMMA PushKeeps ==
  ASSUME NEW S, NEW buffer \in Seq(S), NEW byte \in S, Len(buffer) <= FifoSize
  PROVE  /\ Push(buffer, byte) \in Seq(S) /\ Len(Push(buffer, byte)) <= FifoSize
         /\ Push(buffer, byte) \in {buffer, Append(buffer, byte)}
         /\ buffer = <<>> => Push(buffer, byte) = <<byte>>
<1>1. FifoSize \in Nat /\ 0 < FifoSize
  BY ConsoleAssumption
<1>2. /\ Append(buffer, byte) \in Seq(S)
      /\ Len(Append(buffer, byte)) = Len(buffer) + 1
  BY AppendProperties
<1>3. Push(buffer, byte) = IF Len(buffer) < FifoSize THEN Append(buffer, byte) ELSE buffer
  BY DEF Push
<1>4. Len(buffer) \in Nat
  OBVIOUS
<1>5. buffer = <<>> => Push(buffer, byte) = <<byte>>
  <2>1. Append(<<>>, byte) = <<byte>> /\ Len(<<>>) = 0
    OBVIOUS
  <2> QED
    BY <1>1, <1>3, <2>1
<1>6. Len(Push(buffer, byte)) <= FifoSize
  BY <1>1, <1>2, <1>3, <1>4
<1> QED
  BY <1>2, <1>3, <1>5, <1>6

\* What a write to a port makes of the controller, register by register.
Effect(u, port, val, v) ==
  /\ v \in Uart
  /\ v.dlab = IF port = 3 THEN Bit(val, 7) ELSE u.dlab
  /\ v.mode = IF port = 3 THEN val % 128 ELSE u.mode
  /\ v.loop = IF port = 4 THEN Bit(val, 4) ELSE u.loop
  /\ v.divisor.low = IF port = 0 /\ u.dlab THEN val ELSE u.divisor.low
  /\ v.divisor.high = IF port = 1 /\ u.dlab THEN val ELSE u.divisor.high
  /\ v.tx = IF port = 0 /\ ~u.dlab THEN Push(u.tx, val)
            ELSE IF port = 2 /\ Bit(val, 2) THEN <<>> ELSE u.tx
  /\ v.rx = IF port = 2 /\ Bit(val, 1) THEN <<>> ELSE u.rx
  /\ v.shift = u.shift /\ v.line = u.line

LEMMA OutbEffect ==
  ASSUME NEW u \in Uart, NEW port \in 0..4, NEW val \in Byte, Len(u.tx) <= FifoSize
  PROVE  Effect(u, port, val, outb(u, port, val))
<1> DEFINE v == outb(u, port, val)
<1>1. Push(u.tx, val) \in Seq(Byte)
  BY PushKeeps DEF Uart
<1>2. Bit(val, 7) \in BOOLEAN /\ Bit(val, 4) \in BOOLEAN /\ val % 128 \in Byte
  BY DEF Bit, Byte
<1> HIDE DEF v
<1>3. ASSUME port = 0 PROVE Effect(u, port, val, v)
  <2>1. CASE u.dlab
    <3>1. v = [u EXCEPT !.divisor.low = val]
      BY <1>3, <2>1 DEF v, outb
    <3>2. /\ v.tx = u.tx /\ v.rx = u.rx
          /\ v.shift = u.shift /\ v.line = u.line
          /\ v.mode = u.mode
          /\ v.dlab = u.dlab /\ v.loop = u.loop
          /\ v.divisor.low = val /\ v.divisor.high = u.divisor.high
      BY <3>1 DEF Uart
    <3>3. v \in Uart
      BY <3>1 DEF Uart
    <3> QED
      BY <1>3, <2>1, <3>2, <3>3 DEF Effect
  <2>2. CASE ~u.dlab
    <3>1. v = [u EXCEPT !.tx = Push(u.tx, val)]
      BY <1>3, <2>2 DEF v, outb, Uart
    <3>2. /\ v.tx = Push(u.tx, val) /\ v.rx = u.rx
          /\ v.shift = u.shift /\ v.line = u.line
          /\ v.mode = u.mode /\ v.divisor = u.divisor
          /\ v.dlab = u.dlab /\ v.loop = u.loop
      BY <3>1 DEF Uart
    <3>3. v \in Uart
      BY <1>1, <3>1 DEF Uart
    <3> QED
      BY <1>3, <2>2, <3>2, <3>3 DEF Effect
  <2> QED
    BY <2>1, <2>2
<1>4. ASSUME port = 1 PROVE Effect(u, port, val, v)
  <2>1. CASE u.dlab
    <3>1. v = [u EXCEPT !.divisor.high = val]
      BY <1>4, <2>1 DEF v, outb
    <3>2. /\ v.tx = u.tx /\ v.rx = u.rx
          /\ v.shift = u.shift /\ v.line = u.line
          /\ v.mode = u.mode
          /\ v.dlab = u.dlab /\ v.loop = u.loop
          /\ v.divisor.high = val /\ v.divisor.low = u.divisor.low
      BY <3>1 DEF Uart
    <3>3. v \in Uart
      BY <3>1 DEF Uart
    <3> QED
      BY <1>4, <2>1, <3>2, <3>3 DEF Effect
  <2>2. CASE ~u.dlab
    BY <1>4, <2>2 DEF v, outb, Effect
  <2> QED
    BY <2>1, <2>2
<1>5. ASSUME port = 2 PROVE Effect(u, port, val, v)
  <2> DEFINE rx == IF Bit(val, 1) THEN <<>> ELSE u.rx
             tx == IF Bit(val, 2) THEN <<>> ELSE u.tx
  <2>1. v = [u EXCEPT !.rx = rx, !.tx = tx]
    BY <1>5 DEF v, outb, Uart
  <2>2. rx \in Seq(Byte) /\ tx \in Seq(Byte)
    BY DEF Uart
  <2> HIDE DEF rx, tx
  <2>3. /\ v.tx = tx /\ v.rx = rx
        /\ v.shift = u.shift /\ v.line = u.line
        /\ v.mode = u.mode /\ v.divisor = u.divisor
        /\ v.dlab = u.dlab /\ v.loop = u.loop
    BY <2>1 DEF Uart
  <2>4. v \in Uart
    BY <2>1, <2>2 DEF Uart
  <2> QED
    BY <1>5, <2>3, <2>4 DEF Effect, rx, tx
<1>6. ASSUME port = 3 PROVE Effect(u, port, val, v)
  <2>1. v = [u EXCEPT !.dlab = Bit(val, 7), !.mode = val % 128]
    BY <1>6 DEF v, outb
  <2>2. /\ v.tx = u.tx /\ v.rx = u.rx
        /\ v.shift = u.shift /\ v.line = u.line
        /\ v.mode = val % 128 /\ v.divisor = u.divisor
        /\ v.dlab = Bit(val, 7) /\ v.loop = u.loop
    BY <2>1 DEF Uart
  <2>3. v \in Uart
    BY <1>2, <2>1 DEF Uart
  <2> QED
    BY <1>6, <2>2, <2>3 DEF Effect
<1>7. ASSUME port = 4 PROVE Effect(u, port, val, v)
  <2>1. v = [u EXCEPT !.loop = Bit(val, 4)]
    BY <1>7 DEF v, outb
  <2>2. /\ v.tx = u.tx /\ v.rx = u.rx
        /\ v.shift = u.shift /\ v.line = u.line
        /\ v.mode = u.mode /\ v.divisor = u.divisor
        /\ v.dlab = u.dlab /\ v.loop = Bit(val, 4)
    BY <2>1 DEF Uart
  <2>3. v \in Uart
    BY <1>2, <2>1 DEF Uart
  <2> QED
    BY <1>7, <2>2, <2>3 DEF Effect
<1>8. port \in {0, 1, 2, 3, 4}
  OBVIOUS
<1>9. Effect(u, port, val, v)
  BY <1>3, <1>4, <1>5, <1>6, <1>7, <1>8
<1> QED
  BY <1>9 DEF v

(* Each write of serial_init, and of the character that follows.             *)
LEMMA SetupWrites ==
  /\ Len(Setup) = 9
  /\ Setup[1] = <<1, 0>> /\ Setup[2] = <<3, 128>> /\ Setup[3] = <<0, 3>>
  /\ Setup[4] = <<1, 0>> /\ Setup[5] = <<3, 3>> /\ Setup[6] = <<2, 199>>
  /\ Setup[7] = <<4, 11>> /\ Setup[8] = <<4, 30>> /\ Setup[9] = <<0, TestByte>>
BY DEF Setup

LEMMA Bits ==
  /\ Bit(128, 7) /\ ~Bit(3, 7)
  /\ Bit(199, 1) /\ Bit(199, 2)
  /\ ~Bit(11, 4) /\ Bit(30, 4) /\ ~Bit(15, 4)
BY DEF Bit

LEMMA InitPortInv == Init => PortInv
<1> SUFFICES ASSUME Init PROVE PortInv
  OBVIOUS
<1>1. PICK dlab \in BOOLEAN, loop \in BOOLEAN, tx \in {<<>>, <<Leftover>>},
           rx \in {<<>>, <<Noise>>}, high \in {0, 1} :
        uart = [Unset EXCEPT !.dlab = dlab, !.loop = loop, !.tx = tx, !.rx = rx,
                             !.divisor.high = high]
  BY DEF Init
<1>2. uart = [dlab |-> dlab, divisor |-> [low |-> 0, high |-> high], mode |-> 0,
              loop |-> loop, tx |-> tx, shift |-> <<>>, rx |-> rx, line |-> <<>>]
  BY <1>1 DEF Unset
<1>3. Leftover \in Clean /\ Noise \in Clean /\ FifoSize \in Nat \ {0}
  BY ConsoleAssumption DEF Clean
<1>4. /\ tx \in Seq(Byte) /\ rx \in Seq(Clean) /\ rx \in Seq(Byte)
      /\ Len(tx) <= 1 /\ Len(rx) <= 1
  <2>1. <<Leftover>> \in Seq(Byte) /\ <<Noise>> \in Seq(Clean) /\ <<Noise>> \in Seq(Byte)
    BY <1>3 DEF Clean
  <2>2. Len(<<Leftover>>) = 1 /\ Len(<<Noise>>) = 1 /\ Len(<<>>) = 0
    OBVIOUS
  <2>3. <<>> \in Seq(Byte) /\ <<>> \in Seq(Clean) /\ 0 <= 1 /\ 1 <= 1
    OBVIOUS
  <2> QED
    BY <2>1, <2>2, <2>3, Zenon
<1>5. {0, high} \subseteq Byte
  BY DEF Byte
<1>6. uart \in Uart
  BY <1>2, <1>4, <1>5 DEF Uart
<1>7. Fits
  BY <1>2, <1>3, <1>4 DEF Fits
<1>8. step = "init" /\ k = 1
  BY DEF Init
<1>9. SetSoFar
  BY <1>8 DEF SetSoFar, Steps
<1>10. Received
  BY <1>2, <1>4, <1>8 DEF Received, OnlyLeftover, Leftovers
<1> QED
  BY <1>6, <1>7, <1>9, <1>10 DEF PortInv

LEMMA SetUpKeepsPorts ==
  ASSUME PortInv, SetUp
  PROVE  PortInv'
<1>1. /\ k \in 1..9 /\ step = "init" /\ k' = k + 1
      /\ step' = IF k = 9 THEN "selftest" ELSE "init"
      /\ uart' = outb(uart, Setup[k][1], Setup[k][2])
  BY SetupWrites DEF PortInv, SetSoFar, SetUp
<1>2. uart \in Uart /\ Len(uart.tx) <= FifoSize
  BY DEF PortInv, Fits
<1>3. TestByte \in Byte /\ {0, 128, 3, 199, 11, 30} \subseteq Byte
  BY DEF TestByte, Byte
<1>4. /\ k \in 3..5 => uart.dlab
      /\ k >= 6 => ~uart.dlab
  BY DEF PortInv, SetSoFar
<1> DEFINE \* The controller after the k-th write.
           Registers ==
             /\ uart' \in Uart
             /\ uart'.dlab <=> k = 2 \/ (k # 5 /\ uart.dlab)
             /\ uart'.loop <=> k = 8 \/ (k # 7 /\ uart.loop)
             /\ k \in 6..9 => uart'.mode = uart.mode
             /\ k = 5 => uart'.mode = 3
             /\ uart'.divisor.low = IF k = 3 THEN 3 ELSE uart.divisor.low
             /\ k \in 5..9 => uart'.divisor.high = uart.divisor.high
             /\ k = 4 => uart'.divisor.high = 0
           Buffers ==
             /\ uart'.tx = CASE k = 6 -> <<>>
                             [] k = 9 -> Push(uart.tx, TestByte)
                             [] OTHER -> uart.tx
             /\ uart'.rx = IF k = 6 THEN <<>> ELSE uart.rx
             /\ uart'.shift = uart.shift /\ uart'.line = uart.line
<1>5. /\ k = 1 => Effect(uart, 1, 0, uart')
      /\ k = 2 => Effect(uart, 3, 128, uart')
      /\ k = 3 => Effect(uart, 0, 3, uart')
      /\ k = 4 => Effect(uart, 1, 0, uart')
      /\ k = 5 => Effect(uart, 3, 3, uart')
      /\ k = 6 => Effect(uart, 2, 199, uart')
      /\ k = 7 => Effect(uart, 4, 11, uart')
      /\ k = 8 => Effect(uart, 4, 30, uart')
      /\ k = 9 => Effect(uart, 0, TestByte, uart')
  BY <1>1, <1>2, <1>3, SetupWrites, OutbEffect
<1>6. Registers /\ Buffers
  <2>1. 3 % 128 = 3
    OBVIOUS
  <2>2. k \in {1, 2, 3, 4, 5, 6, 7, 8, 9}
    BY <1>1
  <2>3. CASE k = 1
    <3>1. Effect(uart, 1, 0, uart')
      BY <1>5, <2>3
    <3>2. Registers
      BY <1>4, <2>1, <2>3, <3>1, Bits DEF Effect
    <3> QED
      BY <1>4, <2>3, <3>1, <3>2, Bits DEF Effect
  <2>4. CASE k = 2
    <3>1. Effect(uart, 3, 128, uart')
      BY <1>5, <2>4
    <3>2. Registers
      BY <1>4, <2>1, <2>4, <3>1, Bits DEF Effect
    <3> QED
      BY <1>4, <2>4, <3>1, <3>2, Bits DEF Effect
  <2>5. CASE k = 3
    <3>1. Effect(uart, 0, 3, uart')
      BY <1>5, <2>5
    <3>2. Registers
      BY <1>4, <2>1, <2>5, <3>1, Bits DEF Effect
    <3> QED
      BY <1>4, <2>5, <3>1, <3>2, Bits DEF Effect
  <2>6. CASE k = 4
    <3>1. Effect(uart, 1, 0, uart')
      BY <1>5, <2>6
    <3>2. Registers
      BY <1>4, <2>1, <2>6, <3>1, Bits DEF Effect
    <3> QED
      BY <1>4, <2>6, <3>1, <3>2, Bits DEF Effect
  <2>7. CASE k = 5
    <3>1. Effect(uart, 3, 3, uart')
      BY <1>5, <2>7
    <3>2. Registers
      BY <1>4, <2>1, <2>7, <3>1, Bits DEF Effect
    <3> QED
      BY <1>4, <2>7, <3>1, <3>2, Bits DEF Effect
  <2>8. CASE k = 6
    <3>1. Effect(uart, 2, 199, uart')
      BY <1>5, <2>8
    <3>2. Registers
      BY <1>4, <2>1, <2>8, <3>1, Bits DEF Effect
    <3> QED
      BY <1>4, <2>8, <3>1, <3>2, Bits DEF Effect
  <2>9. CASE k = 7
    <3>1. Effect(uart, 4, 11, uart')
      BY <1>5, <2>9
    <3>2. Registers
      BY <1>4, <2>1, <2>9, <3>1, Bits DEF Effect
    <3> QED
      BY <1>4, <2>9, <3>1, <3>2, Bits DEF Effect
  <2>10. CASE k = 8
    <3>1. Effect(uart, 4, 30, uart')
      BY <1>5, <2>10
    <3>2. Registers
      BY <1>4, <2>1, <2>10, <3>1, Bits DEF Effect
    <3> QED
      BY <1>4, <2>10, <3>1, <3>2, Bits DEF Effect
  <2>11. CASE k = 9
    <3>1. Effect(uart, 0, TestByte, uart')
      BY <1>5, <2>11
    <3>2. Registers
      BY <1>4, <2>1, <2>11, <3>1, Bits DEF Effect
    <3> QED
      BY <1>4, <2>11, <3>1, <3>2, Bits DEF Effect
  <2> QED
    BY <2>2, <2>3, <2>4, <2>5, <2>6, <2>7, <2>8, <2>9, <2>10, <2>11
<1> HIDE DEF Registers, Buffers
<1>7. SetSoFar'
  <2>1. /\ k \in 3..5 => uart.dlab
        /\ k >= 4 => uart.divisor.low = 3
        /\ k >= 5 => uart.divisor.high = 0
        /\ k >= 6 => ~uart.dlab /\ uart.mode = 3
        /\ k = 9 => uart.loop
    BY DEF PortInv, SetSoFar
  <2>2. /\ step' \in Steps /\ k' \in 1..10 /\ (step' = "init" <=> k' < 10)
        /\ step' \notin {"normal", "ready", "halted"}
        /\ step' = "selftest" => k = 9
    BY <1>1 DEF Steps
  <2>3. /\ k' \in 3..5 => uart'.dlab
        /\ k' >= 6 => ~uart'.dlab /\ uart'.mode = 3
    BY <1>1, <1>6, <2>1 DEF Registers
  <2>4. /\ k' >= 4 => uart'.divisor.low = 3
        /\ k' >= 5 => uart'.divisor.high = 0
    BY <1>1, <1>6, <2>1 DEF Registers
  <2>5. k' = 9 \/ k = 9 => uart'.loop
    BY <1>1, <1>6, <2>1 DEF Registers
  <2> QED
    BY <2>2, <2>3, <2>4, <2>5 DEF SetSoFar
<1>8. /\ Len(Push(uart.tx, TestByte)) <= FifoSize
      /\ uart.tx = <<>> => Push(uart.tx, TestByte) = <<TestByte>>
  BY <1>2, <1>3, PushKeeps DEF Uart
<1>9. Fits'
  <2>1. FifoSize \in Nat /\ Len(<<>>) = 0
    BY ConsoleAssumption
  <2> QED
    BY <1>6, <1>8, <2>1 DEF PortInv, Fits, Buffers
<1>10. OnlyLeftover /\ uart.line \in Leftovers
  BY <1>1 DEF PortInv, Received
<1>11. ASSUME k < 9 PROVE Received'
  <2>1. step' = "init" /\ k' = k + 1
    BY <1>1, <1>11
  <2>2. /\ uart'.tx = <<>> \/ uart'.tx = uart.tx
        /\ uart'.rx = <<>> \/ uart'.rx = uart.rx
        /\ k = 6 => uart'.tx = <<>>
        /\ k # 6 => uart'.tx = uart.tx
        /\ uart'.shift = uart.shift /\ uart'.line = uart.line
    BY <1>1, <1>6, <1>11 DEF Buffers
  <2>3. OnlyLeftover'
    <3>1. <<>> \in Seq(Clean) /\ <<>> \in Leftovers
      BY DEF Leftovers
    <3>2. k' >= 7 => k = 6 \/ k >= 7
      BY <1>1, <2>1
    <3> QED
      BY <1>10, <2>2, <3>1, <3>2 DEF OnlyLeftover
  <2> QED
    BY <1>10, <2>1, <2>2, <2>3 DEF Received
<1>12. ASSUME k = 9 PROVE Received'
  <2>1. step' = "selftest"
    BY <1>1, <1>12
  <2>2. uart'.tx = <<TestByte>> /\ uart'.rx = uart.rx /\ uart'.shift = uart.shift
        /\ uart'.line = uart.line
    BY <1>6, <1>8, <1>10, <1>12 DEF Buffers, OnlyLeftover
  <2>3. <<>> \in Seq(Clean) /\ <<Leftover>> \in Seq(Clean)
    BY ConsoleAssumption DEF Clean
  <2>4. uart.rx \in Seq(Clean) /\ uart.shift \in Seq(Clean)
    BY <1>10, <2>3 DEF OnlyLeftover, Leftovers
  <2>5. TestByteLast'
    BY <2>2, <2>4 DEF TestByteLast
  <2> QED
    BY <1>10, <2>1, <2>2, <2>5 DEF Received
<1>13. uart' \in Uart
  BY <1>6 DEF Registers
<1> QED
  BY <1>1, <1>7, <1>9, <1>11, <1>12, <1>13 DEF PortInv

(* The self-test passes only with the test byte alone in the controller.     *)
LEMMA SelfTestKeepsPorts ==
  ASSUME PortInv, SelfTest
  PROVE  PortInv'
<1>1. /\ step = "selftest" /\ k' = k /\ k = 10
      /\ step' = IF Passes(uart.rx) THEN "normal" ELSE "halted"
      /\ uart' = [uart EXCEPT !.rx = IF uart.rx = <<>> THEN uart.rx ELSE Tail(uart.rx)]
  BY DEF PortInv, SetSoFar, SelfTest, Uart
<1> DEFINE rx == IF uart.rx = <<>> THEN uart.rx ELSE Tail(uart.rx)
<1>2. rx \in Seq(Byte) /\ Len(rx) <= Len(uart.rx)
  BY DEF PortInv, Uart
<1>3. uart' = [uart EXCEPT !.rx = rx]
  BY <1>1
<1>4. Passes(uart.rx) => uart.tx = <<>> /\ uart.shift = <<>> /\ rx = <<>>
  <2> SUFFICES ASSUME uart.rx # <<>>, Head(uart.rx) = TestByte
               PROVE  uart.tx = <<>> /\ uart.shift = <<>> /\ Tail(uart.rx) = <<>>
    BY DEF Passes
  <2>1. TestByteLast
    BY <1>1 DEF PortInv, Received
  <2>2. ASSUME NEW s \in Seq(Clean), s # <<>> PROVE Head(s) # TestByte
    BY <2>2 DEF Clean
  <2>3. uart.rx \notin Seq(Clean)
    BY <2>2
  <2>4. PICK before \in Seq(Clean) : uart.rx \in {before, Append(before, TestByte)}
    BY <2>1, <2>3 DEF TestByteLast
  <2>5. uart.rx = Append(before, TestByte)
    BY <2>3, <2>4
  <2>6. before = <<>>
    <3>1. before \in Seq(Clean \cup {TestByte})
      OBVIOUS
    <3>2. before # <<>> => Head(uart.rx) = Head(before)
      BY <2>5, <3>1, HeadTailAppend
    <3> QED
      BY <2>2, <3>2
  <2>7. Tail(uart.rx) = <<>>
    BY <2>5, <2>6
  <2> QED
    BY <2>1, <2>3, <2>7 DEF TestByteLast
<1> HIDE DEF rx
<1>5. /\ uart'.tx = uart.tx /\ uart'.rx = rx /\ uart'.shift = uart.shift
      /\ uart'.line = uart.line /\ uart'.mode = uart.mode /\ uart'.divisor = uart.divisor
      /\ uart'.dlab = uart.dlab /\ uart'.loop = uart.loop
  BY <1>3 DEF PortInv, Uart
<1>6. uart' \in Uart
  BY <1>2, <1>3 DEF PortInv, Uart
<1>7. Fits'
  <2>1. FifoSize \in Nat /\ Len(uart.rx) \in Nat /\ Len(rx) \in Nat
    BY <1>2, ConsoleAssumption DEF PortInv, Uart
  <2> QED
    BY <1>2, <1>5, <2>1 DEF PortInv, Fits
<1>8. SetSoFar'
  BY <1>1, <1>5 DEF PortInv, SetSoFar, Steps
<1>9. Received'
  BY <1>1, <1>4, <1>5 DEF PortInv, Received
<1> QED
  BY <1>6, <1>7, <1>8, <1>9 DEF PortInv

LEMMA NormalModeKeepsPorts ==
  ASSUME PortInv, NormalMode
  PROVE  PortInv'
<1>1. step = "normal" /\ step' = "ready" /\ k' = k /\ uart' = outb(uart, 4, 15)
  BY DEF NormalMode
<1>2. uart \in Uart /\ Len(uart.tx) <= FifoSize /\ 15 \in Byte
  BY DEF PortInv, Fits, Byte
<1>3. Effect(uart, 4, 15, uart')
  BY <1>1, <1>2, OutbEffect
<1>4. uart' \in Uart
  BY <1>3 DEF Effect
<1>5. Fits'
  BY <1>3 DEF PortInv, Fits, Effect
<1>6. SetSoFar'
  BY <1>1, <1>3, Bits DEF PortInv, SetSoFar, Steps, Effect
<1>7. Received'
  <2>1. <<>> \in Seq(Clean)
    OBVIOUS
  <2> QED
    BY <1>1, <1>3, <2>1 DEF PortInv, Received, Effect
<1> QED
  BY <1>4, <1>5, <1>6, <1>7 DEF PortInv

\* A character goes into an empty buffer.
LEMMA PutcharKeepsPorts ==
  ASSUME PortInv, serial_putchar, step = "ready", text \in Seq(Printable)
  PROVE  /\ PortInv'
         /\ uart' = [uart EXCEPT !.tx = <<Head(text)>>] /\ uart.tx = <<>>
<1>1. /\ text # <<>> /\ uart.tx = <<>> /\ uart' = outb(uart, 0, Head(text))
      /\ step' = step /\ k' = k
  BY DEF serial_putchar, is_transmit_empty
<1>2. uart \in Uart /\ Len(uart.tx) <= FifoSize
  BY DEF PortInv, Fits
<1>3. Head(text) \in Byte
  <2>1. Head(text) \in Printable
    BY <1>1
  <2> QED
    BY <2>1 DEF Printable, Char, Byte
<1>4. ~uart.dlab /\ k = 10
  BY DEF PortInv, SetSoFar
<1>5. Effect(uart, 0, Head(text), uart')
  BY <1>1, <1>2, <1>3, OutbEffect
<1>6. /\ Push(uart.tx, Head(text)) = <<Head(text)>>
      /\ Len(Push(uart.tx, Head(text))) <= FifoSize
  <2>1. uart.tx \in Seq(Byte)
    BY <1>2 DEF Uart
  <2> QED
    BY <1>1, <1>2, <1>3, <2>1, PushKeeps
<1>7. uart' = [uart EXCEPT !.tx = <<Head(text)>>]
  BY <1>1, <1>4, <1>6 DEF outb
<1>8. uart' \in Uart
  BY <1>5 DEF Effect
<1>9. Fits'
  BY <1>4, <1>5, <1>6 DEF PortInv, Fits, Effect
<1>10. SetSoFar'
  BY <1>1, <1>4, <1>5 DEF PortInv, SetSoFar, Steps, Effect
<1>11. Received'
  BY <1>1, <1>5 DEF PortInv, Received, Effect
<1> QED
  BY <1>1, <1>7, <1>8, <1>9, <1>10, <1>11 DEF PortInv

(* One byte goes from the buffer into the register it is shifted out of.     *)
LEMMA ShiftKeepsPorts ==
  ASSUME PortInv, Shift, UNCHANGED cpu_vars
  PROVE  PortInv'
<1>1. /\ uart.shift = <<>> /\ uart.tx # <<>>
      /\ uart' = [uart EXCEPT !.shift = <<Head(uart.tx)>>, !.tx = Tail(uart.tx)]
      /\ step' = step /\ k' = k
  BY DEF PortInv, Uart, Shift, cpu_vars
<1>2. uart \in Uart /\ uart.tx \in Seq(Byte)
  BY DEF PortInv, Uart
<1>3. /\ Head(uart.tx) \in Byte /\ Tail(uart.tx) \in Seq(Byte)
      /\ Len(Tail(uart.tx)) <= Len(uart.tx)
  BY <1>1, <1>2
<1>4. /\ uart'.tx = Tail(uart.tx) /\ uart'.shift = <<Head(uart.tx)>>
      /\ uart'.rx = uart.rx /\ uart'.line = uart.line
      /\ uart'.mode = uart.mode /\ uart'.divisor = uart.divisor
      /\ uart'.dlab = uart.dlab /\ uart'.loop = uart.loop
  BY <1>1, <1>2 DEF Uart
<1>5. uart' \in Uart
  <2>1. <<Head(uart.tx)>> \in Seq(Byte)
    BY <1>3
  <2> QED
    BY <1>1, <1>2, <1>3, <2>1 DEF Uart
<1>6. Fits'
  <2>1. FifoSize \in Nat /\ Len(uart.tx) \in Nat /\ Len(Tail(uart.tx)) \in Nat
    BY <1>2, <1>3, ConsoleAssumption
  <2>2. Len(<<Head(uart.tx)>>) = 1
    OBVIOUS
  <2> QED
    BY <1>3, <1>4, <2>1, <2>2 DEF PortInv, Fits
<1>7. SetSoFar'
  BY <1>1, <1>4 DEF PortInv, SetSoFar
<1>8. OnlyLeftover => OnlyLeftover'
  <2> SUFFICES ASSUME OnlyLeftover PROVE OnlyLeftover'
    OBVIOUS
  <2>1. uart.tx = <<Leftover>>
    BY <1>1 DEF OnlyLeftover, Leftovers
  <2>2. Tail(uart.tx) = <<>> /\ <<Head(uart.tx)>> = <<Leftover>>
    BY <2>1
  <2> QED
    BY <1>1, <1>4, <2>1, <2>2 DEF OnlyLeftover, Leftovers
<1>9. TestByteLast => TestByteLast'
  <2> SUFFICES ASSUME TestByteLast PROVE TestByteLast'
    OBVIOUS
  <2>1. uart.tx = <<TestByte>> /\ uart.rx \in Seq(Clean)
    BY <1>1 DEF TestByteLast
  <2>2. Tail(uart.tx) = <<>> /\ <<Head(uart.tx)>> = <<TestByte>>
    BY <2>1
  <2> QED
    BY <1>4, <2>1, <2>2 DEF TestByteLast
<1>10. Received'
  BY <1>1, <1>4, <1>8, <1>9 DEF PortInv, Received
<1> QED
  BY <1>5, <1>6, <1>7, <1>10 DEF PortInv

(* One byte reaches the line or, in loopback mode, comes back.               *)
LEMMA EmitKeepsPorts ==
  ASSUME PortInv, Emit, UNCHANGED cpu_vars
  PROVE  PortInv'
<1> DEFINE rx   == IF uart.loop THEN Push(uart.rx, Head(uart.shift)) ELSE uart.rx
           line == IF uart.loop THEN uart.line ELSE uart.line \o uart.shift
<1>1. /\ uart.shift # <<>> /\ step' = step /\ k' = k
      /\ uart' = [uart EXCEPT !.shift = <<>>, !.rx = rx, !.line = line]
  BY DEF PortInv, Uart, Emit, cpu_vars
<1>2. /\ uart \in Uart /\ uart.shift \in Seq(Byte) /\ uart.rx \in Seq(Byte)
      /\ uart.line \in Seq(Byte) /\ Len(uart.rx) <= FifoSize
  BY DEF PortInv, Uart, Fits
<1>3. Head(uart.shift) \in Byte
  BY <1>1, <1>2
<1>4. rx \in Seq(Byte) /\ Len(rx) <= FifoSize /\ line \in Seq(Byte)
  BY <1>2, <1>3, PushKeeps
<1>5. /\ rx \in {uart.rx, Append(uart.rx, Head(uart.shift))}
      /\ ~uart.loop => rx = uart.rx
      /\ line \in {uart.line, uart.line \o uart.shift}
      /\ uart.loop => line = uart.line
  BY <1>2, <1>3, PushKeeps
<1> HIDE DEF rx, line
<1>6. /\ uart'.tx = uart.tx /\ uart'.shift = <<>>
      /\ uart'.rx = rx /\ uart'.line = line
      /\ uart'.mode = uart.mode /\ uart'.divisor = uart.divisor
      /\ uart'.dlab = uart.dlab /\ uart'.loop = uart.loop
  BY <1>1, <1>2 DEF Uart
<1>7. uart' \in Uart
  <2>1. <<>> \in Seq(Byte)
    OBVIOUS
  <2> QED
    BY <1>1, <1>2, <1>4, <2>1 DEF Uart
<1>8. Fits'
  <2>1. Len(<<>>) = 0
    OBVIOUS
  <2> QED
    BY <1>4, <1>6, <2>1 DEF PortInv, Fits
<1>9. SetSoFar'
  BY <1>1, <1>6 DEF PortInv, SetSoFar
<1>10. ASSUME uart.rx \in Seq(Clean), Head(uart.shift) \in Clean
       PROVE  rx \in Seq(Clean)
  BY <1>5, <1>10
<1>11. ASSUME uart.shift \in Seq(Clean) PROVE Head(uart.shift) \in Clean
  BY <1>1, <1>11
<1>12. <<>> \in Seq(Clean) /\ <<Leftover>> \in Seq(Clean)
  BY ConsoleAssumption DEF Clean
<1>13. ASSUME OnlyLeftover, uart.line \in Leftovers PROVE OnlyLeftover' /\ line \in Leftovers
  <2>1. uart.shift = <<Leftover>> /\ uart.tx = <<>> /\ uart.line = <<>>
    BY <1>1, <1>13 DEF OnlyLeftover, Leftovers
  <2>2. rx \in Seq(Clean)
    BY <1>10, <1>11, <1>12, <1>13, <2>1 DEF OnlyLeftover
  <2>3. <<>> \o <<Leftover>> = <<Leftover>>
    OBVIOUS
  <2>4. line \in Leftovers
    BY <1>5, <2>1, <2>3 DEF Leftovers
  <2>5. OnlyLeftover'
    BY <1>1, <1>6, <2>1, <2>2 DEF OnlyLeftover, Leftovers
  <2> QED
    BY <2>4, <2>5
<1>14. ASSUME TestByteLast PROVE TestByteLast'
  <2>1. CASE uart.tx = <<TestByte>> /\ uart.shift \in Seq(Clean) /\ uart.rx \in Seq(Clean)
    <3>1. rx \in Seq(Clean)
      BY <1>10, <1>11, <2>1
    <3> QED
      BY <1>6, <1>12, <2>1, <3>1 DEF TestByteLast
  <2>2. CASE uart.tx = <<>> /\ uart.shift = <<TestByte>> /\ uart.rx \in Seq(Clean)
    <3>1. Head(uart.shift) = TestByte
      BY <2>2
    <3>2. rx \in {uart.rx, Append(uart.rx, TestByte)}
      BY <1>5, <3>1
    <3> QED
      BY <1>6, <2>2, <3>2 DEF TestByteLast
  <2> QED
    BY <1>1, <1>14, <2>1, <2>2 DEF TestByteLast
<1>15. step = "selftest" => uart.loop
  BY DEF PortInv, SetSoFar
<1>16. step \in {"normal", "halted"} => uart.loop
  BY DEF PortInv, SetSoFar
<1>17. step = "ready" => ~uart.loop
  BY DEF PortInv, SetSoFar
<1>18. Received
  BY DEF PortInv
<1>19. step \in Steps
  BY DEF PortInv, SetSoFar
<1>20. ASSUME step = "init" PROVE Received'
  BY <1>1, <1>6, <1>13, <1>18, <1>20 DEF Received
<1>21. ASSUME step = "selftest" PROVE Received'
  BY <1>1, <1>5, <1>6, <1>14, <1>15, <1>18, <1>21 DEF Received
<1>22. ASSUME step \in {"normal", "halted"} PROVE Received'
  BY <1>1, <1>5, <1>6, <1>16, <1>18, <1>22 DEF Received
<1>23. ASSUME step = "ready" PROVE Received'
  BY <1>1, <1>5, <1>6, <1>17, <1>18, <1>23 DEF Received
<1>24. Received'
  BY <1>19, <1>20, <1>21, <1>22, <1>23 DEF Steps
<1> QED
  BY <1>7, <1>8, <1>9, <1>24 DEF PortInv

LEMMA ReceiveKeepsPorts ==
  ASSUME PortInv, Receive
  PROVE  PortInv' /\ uart' = [uart EXCEPT !.rx = Push(uart.rx, Noise)]
<1> DEFINE rx == Push(uart.rx, Noise)
<1>1. /\ uart' = [uart EXCEPT !.rx = rx] /\ ~uart.loop
      /\ step' = step /\ k' = k
  BY DEF PortInv, Uart, Receive, cpu_vars
<1>2. uart \in Uart /\ uart.rx \in Seq(Byte) /\ Len(uart.rx) <= FifoSize
  BY DEF PortInv, Uart, Fits
<1>3. Noise \in Byte /\ Noise \in Clean
  BY ConsoleAssumption DEF Clean
<1>4. /\ rx \in Seq(Byte) /\ Len(rx) <= FifoSize
      /\ uart.rx \in Seq(Clean) => rx \in Seq(Clean)
  BY <1>2, <1>3, PushKeeps
<1> HIDE DEF rx
<1>5. /\ uart'.tx = uart.tx /\ uart'.rx = rx
      /\ uart'.shift = uart.shift /\ uart'.line = uart.line
      /\ uart'.mode = uart.mode /\ uart'.divisor = uart.divisor
      /\ uart'.dlab = uart.dlab /\ uart'.loop = uart.loop
  BY <1>1, <1>2 DEF Uart
<1>6. uart' \in Uart
  BY <1>1, <1>2, <1>4 DEF Uart
<1>7. Fits'
  BY <1>4, <1>5 DEF PortInv, Fits
<1>8. SetSoFar'
  BY <1>1, <1>5 DEF PortInv, SetSoFar
<1>9. Received'
  <2>1. step \in {"init", "ready"}
    BY <1>1 DEF PortInv, SetSoFar, Steps
  <2>2. OnlyLeftover => OnlyLeftover'
    BY <1>1, <1>4, <1>5 DEF OnlyLeftover
  <2> QED
    BY <1>1, <1>4, <1>5, <2>1, <2>2 DEF PortInv, Received
<1> QED
  BY <1>1, <1>6, <1>7, <1>8, <1>9 DEF PortInv, rx

------------------------------------------------------------------------------
(***************************************************************************)
(* Numerals.  What itoa has left after n digits is the number divided by   *)
(* the base n times, so its digits are the places of the number's numeral. *)
(***************************************************************************)

(* Two decimal places hold more than a hexadecimal one.                      *)
LEMMA DecimalLonger ==
  ASSUME NEW n \in Nat
  PROVE  Power(16, n) <= Power(10, 2 * n)
<1> DEFINE P == {j \in 0..n : Power(16, j) <= Power(10, 2 * j)}
<1>1. 0 \in P
  <2>1. Power(16, 0) = 1 /\ Power(10, 0) = 1 /\ 2 * 0 = 0
    BY PowerSteps
  <2> QED
    BY <2>1
<1>2. ASSUME NEW j \in (0 + 1)..n, j - 1 \in P PROVE j \in P
  <2> DEFINE h == Power(16, j - 1)
             d == Power(10, 2 * (j - 1))
  <2>1. /\ j - 1 \in Nat /\ 2 * (j - 1) \in Nat /\ 2 * (j - 1) + 1 \in Nat
        /\ (j - 1) + 1 = j /\ (2 * (j - 1) + 1) + 1 = 2 * j
        /\ 10 \in Nat \ {0} /\ 16 \in Nat \ {0}
    OBVIOUS
  <2>2. h \in Nat /\ d \in Nat
    <3>1. h \in Nat \ {0} /\ d \in Nat \ {0}
      BY <2>1, PowerSteps, Zenon
    <3> QED
      BY <3>1
  <2>3. Power(16, j) = 16 * h
    BY <2>1, PowerSteps
  <2>4. Power(10, 2 * j) = 10 * (10 * d)
    BY <2>1, PowerSteps
  <2>5. h <= d
    BY <1>2
  <2> HIDE DEF h, d
  <2>6. Power(16, j) <= Power(10, 2 * j)
    BY <2>2, <2>3, <2>4, <2>5
  <2> QED
    BY <2>6
<1>3. \A j \in 0..n : j \in P
  <2> HIDE DEF P
  <2>1. P \in SUBSET (0..n)
    BY DEF P
  <2>2. 0 \in Nat /\ 0 <= n
    OBVIOUS
  <2> QED
    BY <1>1, <1>2, <2>1, <2>2, LoopInvariant, Zenon
<1> QED
  BY <1>3

LEMMA MaxDigitsIs == HexDigits \in Nat \ {0} /\ MaxDigits \in Nat \ {0} /\ HexDigits <= MaxDigits
BY ConsoleAssumption DEF MaxDigits

\* Where the loop is to end: after eight digits, or the first time nothing is left.
EndsAfter(base, v, length) ==
  /\ length \in 1..MaxDigits
  /\ base = 16 => length = HexDigits
  /\ base = 10 => v < Power(10, length) /\ \A m \in 1..(length - 1) : ~(v < Power(10, m))

LEMMA ItoaIsNumeral ==
  ASSUME NEW base \in {10, 16}, NEW num \in Int, NEW v \in Nat, NEW length,
         v = IF base = 10 /\ num < 0 THEN -num ELSE num % WordSpan,
         EndsAfter(base, v, length)
  PROVE  itoa(base, num) =
           IF base = 10 /\ num < 0 THEN <<MINUS>> \o Numeral(v, base, length)
           ELSE Numeral(v, base, length)
<1> DEFINE negative == base = 10 /\ num < 0
           M == MaxDigits
           left == CHOOSE f : f = [n \in 0..M |->
                     CASE n > 0               -> f[n - 1] \div base
                       [] n = 0 /\ negative   -> -num
                       [] OTHER               -> num % WordSpan]
           Quits(n) == ShouldQuit(base, left[n], n)
           printed  == CHOOSE n \in 1..M : Quits(n) /\ \A m \in 1..(n - 1) : ~Quits(m)
           digits   == [p \in 1..printed |-> Digit(left[printed - p] % base)]
<1>1. itoa(base, num) = IF negative THEN <<MINUS>> \o digits ELSE digits
  BY Zenon DEF itoa
<1>2. M \in Nat \ {0} /\ base \in Nat \ {0} /\ length \in 1..M
  BY MaxDigitsIs DEF EndsAfter
<1> DEFINE B == [j \in 1..M |-> [x \in Nat |-> x \div base]]
<1>3. \E f : f = [n \in 0..M |->
                     CASE n > 0               -> f[n - 1] \div base
                       [] n = 0 /\ negative   -> -num
                       [] OTHER               -> num % WordSpan]
  <2>1. v \in Nat /\ 0 \in Nat /\ 0 <= M /\ B \in [(0 + 1)..M -> [Nat -> Nat]]
    BY <1>2, Divide
  <2>2. PICK f \in [0..M -> Nat] : RunOf(f, 0, M, v, B)
    <3> HIDE DEF B, M
    <3> QED
      BY <1>2, <2>1, LoopRuns
  <2>3. \A j \in 0..M : j # 0 => B[j][f[j - 1]] = f[j - 1] \div base
    <3> HIDE DEF M
    <3> QED
      BY <1>2, <2>2
  <2>4. f = [n \in 0..M |->
               CASE n > 0               -> f[n - 1] \div base
                 [] n = 0 /\ negative   -> -num
                 [] OTHER               -> num % WordSpan]
    <3>1. f = [n \in 0..M |-> IF n = 0 THEN v ELSE f[n - 1] \div base]
      <4> HIDE DEF B, M
      <4> QED
        BY <2>2, <2>3 DEF RunOf
    <3> HIDE DEF M
    <3> QED
      BY <1>2, <3>1
  <2> QED
    BY <2>4
<1>4. left = [n \in 0..M |->
                CASE n > 0               -> left[n - 1] \div base
                  [] n = 0 /\ negative   -> -num
                  [] OTHER               -> num % WordSpan]
  BY <1>3, Zenon
<1> HIDE DEF left, M
<1>5. /\ left[0] = v
      /\ \A n \in 1..M : left[n] = left[n - 1] \div base
  BY <1>2, <1>4
<1>6. \A n \in 0..M : left[n] = v \div Power(base, n)
  <2> DEFINE P == {n \in 0..M : left[n] = v \div Power(base, n)}
  <2>1. 0 \in P
    <3>1. 0 \in Nat
      OBVIOUS
    <3>2. Power(base, 0) = 1
      BY <1>2, <3>1, PowerSteps, Zenon
    <3>3. v \div 1 = v
      OBVIOUS
    <3> QED
      BY <1>2, <1>5, <3>2, <3>3
  <2>2. ASSUME NEW j \in (0 + 1)..M, j - 1 \in P PROVE j \in P
    <3>1. j - 1 \in Nat /\ (j - 1) + 1 = j /\ j \in 1..M /\ j \in 0..M
      BY <1>2
    <3>2. /\ Power(base, j - 1) \in Nat \ {0}
          /\ Power(base, (j - 1) + 1) = base * Power(base, j - 1)
      BY <1>2, <3>1, PowerSteps, Zenon
    <3>3. left[j] = (v \div Power(base, j - 1)) \div base
      BY <1>5, <2>2, <3>1
    <3>4. (v \div Power(base, j - 1)) \div base = v \div (Power(base, j - 1) * base)
      <4> DEFINE d == Power(base, j - 1)
      <4>1. d \in Nat \ {0}
        BY <3>2
      <4> HIDE DEF d
      <4>2. (v \div d) \div base = v \div (d * base)
        <5>1. v \in Nat /\ base \in Nat \ {0}
          BY <1>2
        <5> QED
          BY <4>1, <5>1, DivideTwice, Zenon
      <4> QED
        BY <4>2 DEF d
    <3>5. Power(base, j - 1) * base = base * Power(base, j - 1)
      <4>1. \A a, b \in Nat : a * b = b * a
        OBVIOUS
      <4>2. Power(base, j - 1) \in Nat /\ base \in Nat
        BY <1>2, <3>2
      <4> QED
        BY <4>1, <4>2, Zenon
    <3> QED
      BY <3>1, <3>2, <3>3, <3>4, <3>5
  <2> HIDE DEF P
  <2>3. P \in SUBSET (0..M) /\ 0 \in Nat /\ M \in Nat /\ 0 <= M
    BY <1>2 DEF P
  <2>4. \A n \in 0..M : n \in P
    BY <2>1, <2>2, <2>3, LoopInvariant, Zenon
  <2> QED
    BY <2>4 DEF P
<1>7. ASSUME NEW n \in 1..M
      PROVE  /\ Power(base, n) \in Nat \ {0}
             /\ base = 10 => (Quits(n) <=> v < Power(10, n))
             /\ base = 16 => (Quits(n) <=> n = HexDigits)
  <2>1. n \in Nat /\ n \in 0..M
    BY <1>2
  <2>2. Power(base, n) \in Nat \ {0}
    BY <1>2, <2>1, PowerSteps, Zenon
  <2>3. left[n] = 0 <=> v < Power(base, n)
    BY <1>6, <2>1, <2>2, DivideSmall
  <2> QED
    BY <2>2, <2>3 DEF ShouldQuit
<1>8. ASSUME NEW n \in 1..M
      PROVE  Quits(n) /\ (\A m \in 1..(n - 1) : ~Quits(m)) <=> n = length
  <2>1. \A m \in 1..(n - 1) : m \in 1..M
    BY <1>2
  <2>2. CASE base = 16
    BY <1>2, <1>7, <2>1, <2>2 DEF EndsAfter
  <2>3. CASE base = 10
    <3>1. /\ v < Power(10, length) /\ \A m \in 1..(length - 1) : ~(v < Power(10, m))
      BY <2>3 DEF EndsAfter
    <3>2. \A m \in 1..M : Quits(m) <=> v < Power(10, m)
      BY <1>7, <2>3
    <3> HIDE DEF Quits
    <3>3. n < length \/ n = length \/ length < n
      BY <1>2
    <3>4. length < n => length \in 1..(n - 1)
      BY <1>2
    <3>5. n < length => n \in 1..(length - 1)
      BY <1>2
    <3> QED
      BY <1>2, <2>1, <3>1, <3>2, <3>3, <3>4, <3>5
  <2> QED
    BY <2>2, <2>3
<1>9. printed = length
  <2> HIDE DEF Quits
  <2> QED
    BY <1>2, <1>8
<1>10. digits = Numeral(v, base, length)
  <2> DEFINE characters == <<48, 49, 50, 51, 52, 53, 54, 55, 56, 57, 97, 98, 99, 100, 101, 102>>
  <2>1. ASSUME NEW x \in Nat PROVE Digit(x % base) = characters[1 + (x % base)]
    <3>1. x % base \in 0..15
      BY <1>2
    <3> DEFINE d == x % base
    <3>2. d \in {0, 1, 2, 3, 4, 5, 6, 7, 8, 9, 10, 11, 12, 13, 14, 15}
      BY <3>1
    <3> HIDE DEF d
    <3>3. Digit(d) = characters[1 + d]
      BY <3>2 DEF Digit
    <3> QED
      BY <3>3 DEF d
  <2> HIDE DEF characters
  <2>2. ASSUME NEW p \in 1..length
        PROVE  Digit(left[length - p] % base)
                 = characters[1 + ((v \div Power(base, length - p)) % base)]
    <3>1. length - p \in 0..M /\ length - p \in Nat
      BY <1>2
    <3>2. left[length - p] = v \div Power(base, length - p) /\ left[length - p] \in Nat
      <4>1. Power(base, length - p) \in Nat \ {0}
        BY <1>2, <3>1, PowerSteps
      <4>2. left[length - p] = v \div Power(base, length - p)
        BY <1>6, <3>1
      <4> QED
        BY <4>1, <4>2, Divide
    <3> QED
      BY <2>1, <3>2
  <2>3. Numeral(v, base, length)
          = [p \in 1..length |-> characters[1 + ((v \div Power(base, length - p)) % base)]]
    BY DEF Numeral, characters
  <2> HIDE DEF printed
  <2> QED
    BY <1>9, <2>2, <2>3
<1> QED
  BY <1>1, <1>10

LEMMA WordSpanIs == WordSpan \in Nat \ {0} /\ WordSpan \div 2 \in Nat /\ WordSpan \div 2 < WordSpan
<1>1. HexDigits \in Nat /\ 16 \in Nat \ {0}
  BY MaxDigitsIs
<1>2. WordSpan \in Nat \ {0}
  BY <1>1, PowerSteps, Zenon DEF WordSpan
<1> QED
  BY <1>2

LEMMA HexIsNumeral ==
  ASSUME NEW v \in 0..(WordSpan - 1)
  PROVE  itoa(16, AsInt(v)) = Numeral(v, 16, HexDigits)
<1> DEFINE W == WordSpan
<1>1. W \in Nat \ {0}
  BY WordSpanIs
<1>2. v \in Nat /\ v < W
  BY <1>1
<1> HIDE DEF W
<1>3. v % W = v /\ (v - W) % W = v
  BY <1>1, <1>2
<1>4. AsInt(v) \in {v, v - W}
  BY DEF AsInt, W
<1>5. AsInt(v) \in Int /\ AsInt(v) % WordSpan = v
  <2>1. AsInt(v) % W = v
    BY <1>3, <1>4
  <2> QED
    BY <1>1, <1>2, <1>4, <2>1 DEF W
<1>6. EndsAfter(16, v, HexDigits)
  BY MaxDigitsIs DEF EndsAfter
<1>7. 16 \in {10, 16} /\ ~(16 = 10 /\ AsInt(v) < 0)
  OBVIOUS
<1>8. v = IF 16 = 10 /\ AsInt(v) < 0 THEN -AsInt(v) ELSE AsInt(v) % WordSpan
  BY <1>5, <1>7
<1> HIDE DEF W
<1>9. itoa(16, AsInt(v)) =
        IF 16 = 10 /\ AsInt(v) < 0 THEN <<MINUS>> \o Numeral(v, 16, HexDigits)
        ELSE Numeral(v, 16, HexDigits)
  BY <1>2, <1>5, <1>6, <1>7, <1>8, ItoaIsNumeral, Zenon
<1> QED
  BY <1>7, <1>9

(* The shortest numeral that holds a number of a word.                       *)
LEMMA DecimalIs ==
  ASSUME NEW v \in Nat, v < WordSpan
  PROVE  \E length : EndsAfter(10, v, length) /\ Decimal(v) = Numeral(v, 10, length)
<1> DEFINE fits == {length \in 1..MaxDigits : v < Power(10, length)}
           length == CHOOSE length \in fits : \A l \in fits : length <= l
<1>1. MaxDigits \in Nat \ {0} /\ MaxDigits = 2 * HexDigits /\ HexDigits \in Nat
  BY MaxDigitsIs DEF MaxDigits
<1>2. MaxDigits \in fits
  <2>1. WordSpan <= Power(10, MaxDigits)
    BY <1>1, DecimalLonger DEF WordSpan
  <2>2. Power(10, MaxDigits) \in Nat \ {0}
    <3>1. 10 \in Nat \ {0} /\ MaxDigits \in Nat
      BY <1>1
    <3> QED
      BY <3>1, PowerSteps, Zenon
  <2> QED
    BY <1>1, <2>1, <2>2, WordSpanIs
<1>3. fits \in SUBSET Nat /\ fits # {}
  BY <1>2
<1>4. length \in fits /\ \A l \in fits : length <= l
  <2> HIDE DEF fits
  <2>1. \E x \in fits : \A l \in fits : x <= l
    BY <1>3, LeastElement
  <2> QED
    BY <2>1
<1>5. Decimal(v) = Numeral(v, 10, length)
  BY DEF Decimal
<1> HIDE DEF length
<1>6. EndsAfter(10, v, length)
  <2>1. length \in 1..MaxDigits /\ v < Power(10, length)
    BY <1>4
  <2>2. ASSUME NEW m \in 1..(length - 1) PROVE ~(v < Power(10, m))
    <3>1. m \in 1..MaxDigits /\ ~(length <= m)
      BY <1>1, <2>1
    <3> QED
      BY <1>4, <3>1
  <2> QED
    BY <2>1, <2>2 DEF EndsAfter
<1> QED
  BY <1>5, <1>6

LEMMA DecimalIsNumeral ==
  ASSUME NEW num \in Int, -WordSpan < num, num < WordSpan
  PROVE  itoa(10, num) = IF num < 0 THEN <<MINUS>> \o Decimal(-num) ELSE Decimal(num)
<1> DEFINE v == IF num < 0 THEN -num ELSE num
           W == WordSpan
<1>1. W \in Nat \ {0}
  BY WordSpanIs
<1>2. v \in Nat /\ v < WordSpan
  BY <1>1
<1>3. num >= 0 => num % WordSpan = num
  <2>1. num < W
    OBVIOUS
  <2> HIDE DEF W
  <2>2. num >= 0 => num % W = num
    BY <1>1, <2>1
  <2> QED
    BY <2>2 DEF W
<1>4. v = IF 10 = 10 /\ num < 0 THEN -num ELSE num % WordSpan
  BY <1>3
<1>5. PICK length : EndsAfter(10, v, length) /\ Decimal(v) = Numeral(v, 10, length)
  <2> HIDE DEF v
  <2> QED
    BY <1>2, DecimalIs
<1>6. itoa(10, num) =
        IF 10 = 10 /\ num < 0 THEN <<MINUS>> \o Numeral(v, 10, length)
        ELSE Numeral(v, 10, length)
  <2> HIDE DEF v
  <2>1. 10 \in {10, 16}
    OBVIOUS
  <2> QED
    BY <1>2, <1>4, <1>5, <2>1, ItoaIsNumeral, Zenon
<1> QED
  BY <1>5, <1>6

LEMMA NumeralType ==
  ASSUME NEW v \in Nat, NEW base \in {10, 16}, NEW length \in Nat
  PROVE  /\ Numeral(v, base, length) \in Seq(Printable)
         /\ Len(Numeral(v, base, length)) = length
<1> DEFINE characters == <<48, 49, 50, 51, 52, 53, 54, 55, 56, 57, 97, 98, 99, 100, 101, 102>>
           n == [p \in 1..length |-> characters[1 + ((v \div Power(base, length - p)) % base)]]
<1>1. ASSUME NEW d \in 0..15 PROVE characters[1 + d] \in Printable
  <2>1. characters[1 + d] \in {48, 49, 50, 51, 52, 53, 54, 55, 56, 57, 97, 98, 99, 100, 101, 102}
    <3>1. d \in {0, 1, 2, 3, 4, 5, 6, 7, 8, 9, 10, 11, 12, 13, 14, 15}
      OBVIOUS
    <3> QED
      BY <3>1
  <2> QED
    BY <2>1 DEF Printable, Char, TestByte
<1>2. ASSUME NEW p \in 1..length
      PROVE  (v \div Power(base, length - p)) % base \in 0..15
  <2> DEFINE q == v \div Power(base, length - p)
  <2>1. length - p \in Nat /\ base \in Nat \ {0}
    OBVIOUS
  <2>2. Power(base, length - p) \in Nat \ {0}
    BY <2>1, PowerSteps, Zenon
  <2>3. q \in Nat
    BY <2>2, Divide
  <2> HIDE DEF q
  <2>4. q % base \in 0..15
    BY <2>3
  <2> QED
    BY <2>4 DEF q
<1>3. Numeral(v, base, length) = n
  BY DEF Numeral
<1> HIDE DEF characters
<1>4. n \in [1..length -> Printable]
  BY <1>1, <1>2
<1>5. n \in Seq(Printable) /\ Len(n) = length
  <2> HIDE DEF n
  <2> QED
    BY <1>4
<1> QED
  BY <1>3, <1>5

(* A number of two words is its high word's numeral and its low word's.      *)
LEMMA TwoWords ==
  ASSUME NEW v \in 0..(WordSpan * WordSpan - 1)
  PROVE  /\ v \div WordSpan \in 0..(WordSpan - 1) /\ v % WordSpan \in 0..(WordSpan - 1)
         /\ Numeral(v, 16, 2 * HexDigits) =
              Numeral(v \div WordSpan, 16, HexDigits) \o Numeral(v % WordSpan, 16, HexDigits)
<1> DEFINE W == WordSpan
           H == HexDigits
           q == v \div W
           r == v % W
<1>1. W \in Nat \ {0} /\ H \in Nat \ {0} /\ 16 \in Nat \ {0}
  BY WordSpanIs, MaxDigitsIs
<1>2. W = Power(16, H)
  BY DEF WordSpan
<1>3. v \in Nat /\ v < W * W
  BY <1>1
<1> HIDE DEF W, H
<1>4. q \in Nat /\ r \in 0..(W - 1) /\ r \in Nat /\ v = W * q + r
  <2>1. q \in Nat /\ r \in 0..(W - 1) /\ v = W * q + r
    BY <1>1, <1>3, Divide, Zenon
  <2> HIDE DEF q, r
  <2>2. r \in Nat
    BY <1>1, <2>1
  <2> QED
    BY <2>1, <2>2
<1> HIDE DEF q, r
<1>5. q < W
  <2> SUFFICES ASSUME W <= q PROVE FALSE
    BY <1>1, <1>4
  <2>1. W * W <= W * q
    BY <1>1, <1>4
  <2>2. W * q \in Nat /\ W * W \in Nat
    BY <1>1, <1>4
  <2> QED
    BY <1>3, <1>4, <2>1, <2>2
<1> DEFINE characters == <<48, 49, 50, 51, 52, 53, 54, 55, 56, 57, 97, 98, 99, 100, 101, 102>>
           whole == Numeral(v, 16, 2 * H)
           high  == Numeral(q, 16, H)
           low   == Numeral(r, 16, H)
<1>6. /\ whole \in Seq(Printable) /\ Len(whole) = 2 * H
      /\ high \in Seq(Printable) /\ Len(high) = H
      /\ low \in Seq(Printable) /\ Len(low) = H
  <2>1. 2 * H \in Nat /\ H \in Nat /\ 16 \in {10, 16}
    BY <1>1
  <2> QED
    BY <1>3, <1>4, <2>1, NumeralType
<1>7. /\ \A p \in 1..(2 * H) : whole[p] = characters[1 + ((v \div Power(16, 2 * H - p)) % 16)]
      /\ \A p \in 1..H : high[p] = characters[1 + ((q \div Power(16, H - p)) % 16)]
      /\ \A p \in 1..H : low[p] = characters[1 + ((r \div Power(16, H - p)) % 16)]
  <2> HIDE DEF characters
  <2> QED
    BY DEF Numeral, characters
<1> HIDE DEF characters, whole, high, low
<1>8. ASSUME NEW p \in 1..H PROVE whole[p] = high[p]
  <2> DEFINE d == Power(16, H - p)
  <2>1. H - p \in Nat /\ 2 * H - p = H + (H - p) /\ p \in 1..(2 * H)
    BY <1>1
  <2>2. d \in Nat \ {0}
    BY <1>1, <2>1, PowerSteps, Zenon
  <2>3. Power(16, 2 * H - p) = W * d
    <3>1. H \in Nat
      BY <1>1
    <3> QED
      BY <1>1, <1>2, <2>1, <3>1, PowerSum
  <2> HIDE DEF d
  <2>4. (v \div W) \div d = v \div (W * d)
    <3>1. v \in Nat /\ W \in Nat \ {0}
      BY <1>1, <1>3
    <3> QED
      BY <2>2, <3>1, DivideTwice, Zenon
  <2>5. q \div d = v \div Power(16, 2 * H - p)
    BY <2>3, <2>4 DEF q
  <2> QED
    BY <1>7, <2>1, <2>5 DEF d
<1>9. ASSUME NEW p \in 1..H PROVE whole[H + p] = low[p]
  <2> DEFINE d == Power(16, H - p)
             m == Power(16, p - 1)
  <2>1. /\ H - p \in Nat /\ p - 1 \in Nat /\ 2 * H - (H + p) = H - p
        /\ H + p \in 1..(2 * H) /\ ((H - p) + (p - 1)) + 1 = H /\ (H - p) + (p - 1) \in Nat
    BY <1>1
  <2>2. d \in Nat \ {0} /\ m \in Nat \ {0}
    BY <1>1, <2>1, PowerSteps, Zenon
  <2>3. W = 16 * (d * m)
    <3>1. Power(16, (H - p) + (p - 1)) = d * m
      BY <1>1, <2>1, PowerSum
    <3>2. Power(16, ((H - p) + (p - 1)) + 1) = 16 * Power(16, (H - p) + (p - 1))
      BY <1>1, <2>1, PowerSteps, Zenon
    <3> QED
      BY <1>2, <2>1, <3>1, <3>2
  <2> HIDE DEF d, m
  <2> DEFINE l == r \div d
             o == r % d
  <2>4. l \in Nat /\ o \in 0..(d - 1) /\ r = d * l + o
    BY <1>4, <2>2, Divide
  <2> HIDE DEF l, o
  <2>5. v = d * ((16 * m) * q + l) + o
    BY <1>4, <2>2, <2>3, <2>4
  <2>6. (16 * m) * q + l \in Nat
    BY <1>4, <2>2, <2>4
  <2>7. v \div d = (16 * m) * q + l
    BY <2>2, <2>4, <2>5, <2>6, Quotient
  <2>8. ((16 * m) * q + l) % 16 = l % 16
    <3> DEFINE mq == m * q
    <3>1. mq \in Nat /\ (16 * m) * q = 16 * mq
      BY <1>4, <2>2
    <3> HIDE DEF mq
    <3>2. (16 * mq + l) % 16 = l % 16
      BY <2>4, <3>1
    <3> QED
      BY <3>1, <3>2
  <2>9. (v \div Power(16, 2 * H - (H + p))) % 16 = (r \div Power(16, H - p)) % 16
    BY <2>1, <2>7, <2>8 DEF l, d
  <2> QED
    BY <1>7, <2>1, <2>9
<1>10. whole = high \o low
  <2>1. /\ high \o low \in Seq(Printable) /\ Len(high \o low) = 2 * H
        /\ \A i \in 1..(2 * H) : (high \o low)[i] = IF i <= H THEN high[i] ELSE low[i - H]
    <3>1. H + H = 2 * H
      BY <1>1
    <3>2. /\ high \o low \in Seq(Printable) /\ Len(high \o low) = Len(high) + Len(low)
          /\ \A i \in 1..(Len(high) + Len(low)) :
               (high \o low)[i] = IF i <= Len(high) THEN high[i] ELSE low[i - Len(high)]
      BY <1>6, ConcatProperties, Zenon
    <3> QED
      BY <1>6, <3>1, <3>2
  <2>2. ASSUME NEW i \in 1..(2 * H) PROVE whole[i] = (high \o low)[i]
    <3>1. CASE i <= H
      <4>1. i \in 1..H
        BY <1>1, <3>1
      <4> QED
        BY <1>8, <2>1, <3>1, <4>1
    <3>2. CASE ~(i <= H)
      <4>1. i - H \in 1..H /\ H + (i - H) = i
        BY <1>1, <3>2
      <4> QED
        BY <1>9, <2>1, <3>2, <4>1
    <3> QED
      BY <3>1, <3>2
  <2> QED
    BY <1>6, <2>1, <2>2, SeqEqual
<1> QED
  BY <1>1, <1>4, <1>5, <1>10 DEF W, H, q, r, whole, high, low

------------------------------------------------------------------------------
(***************************************************************************)
(* Sequences put end to end, as pieces are in a format and on the line.    *)
(***************************************************************************)

LEMMA FlattenRun ==
  ASSUME NEW S, NEW s \in Seq(Seq(S)), s # <<>>
  PROVE  \E f \in [1..Len(s) -> Seq(S)] :
           /\ f[1] = s[1]
           /\ \A j \in 2..Len(s) : f[j] = f[j - 1] \o s[j]
           /\ FlattenSeq(s) = f[Len(s)]
<1> DEFINE m == Len(s)
           T == Seq(S)
           B == [j \in (1 + 1)..m |-> [x \in T |-> x \o s[j]]]
           flatten == CHOOSE f : f = [j \in 1..m |-> IF j = 1 THEN s[j] ELSE f[j - 1] \o s[j]]
<1>1. m \in Nat /\ 1 <= m /\ \A j \in 1..m : s[j] \in T
  OBVIOUS
<1>2. FlattenSeq(s) = flatten[m]
  <2>1. Len(s) # 0
    BY <1>1
  <2> QED
    BY <2>1, Zenon DEF FlattenSeq
<1>3. \A x \in T : \A j \in 1..m : x \o s[j] \in T
  BY <1>1
<1> HIDE DEF m, T
<1>4. PICK f \in [1..m -> T] : RunOf(f, 1, m, s[1], B)
  <2>1. s[1] \in T /\ 1 \in Nat /\ B \in [(1 + 1)..m -> [T -> T]]
    BY <1>1, <1>3
  <2> HIDE DEF B
  <2> QED
    BY <1>1, <2>1, LoopRuns
<1>5. f = [j \in 1..m |-> IF j = 1 THEN s[j] ELSE f[j - 1] \o s[j]]
  <2>1. \A j \in 1..m : j # 1 => B[j][f[j - 1]] = f[j - 1] \o s[j]
    <3>1. \A j \in 1..m : j # 1 => j \in (1 + 1)..m /\ f[j - 1] \in T
      BY <1>1, <1>4
    <3> QED
      BY <3>1
  <2> HIDE DEF B
  <2> QED
    BY <1>4, <2>1 DEF RunOf
<1>6. flatten = [j \in 1..m |-> IF j = 1 THEN s[j] ELSE flatten[j - 1] \o s[j]]
  BY <1>5, Zenon
<1> HIDE DEF flatten
<1> DEFINE P == {j \in 1..m : flatten[j] = f[j]}
<1>7. 1 \in P
  BY <1>1, <1>5, <1>6
<1>8. ASSUME NEW j \in (1 + 1)..m, j - 1 \in P PROVE j \in P
  <2>1. j \in 1..m /\ j # 1
    BY <1>1
  <2>2. flatten[j] = flatten[j - 1] \o s[j]
    BY <1>6, <2>1
  <2>3. f[j] = f[j - 1] \o s[j]
    BY <1>5, <2>1
  <2> QED
    BY <1>8, <2>1, <2>2, <2>3
<1>9. \A j \in 1..m : j \in P
  <2> HIDE DEF P
  <2>1. P \in SUBSET (1..m) /\ 1 \in Nat
    BY DEF P
  <2> QED
    BY <1>1, <1>7, <1>8, <2>1, LoopInvariant, Zenon
<1>10. FlattenSeq(s) = f[m]
  <2>1. m \in 1..m
    BY <1>1
  <2>2. flatten[m] = f[m]
    BY <1>9, <2>1
  <2> QED
    BY <1>2, <2>2
<1>11. f[1] = s[1] /\ \A j \in 2..m : f[j] = f[j - 1] \o s[j]
  <2>1. 1 \in 1..m /\ \A j \in 2..m : j \in 1..m /\ j # 1
    BY <1>1
  <2> QED
    BY <1>5, <2>1
<1> QED
  BY <1>4, <1>10, <1>11 DEF m, T

LEMMA FlattenEmpty == FlattenSeq(<<>>) = <<>>
BY DEF FlattenSeq

LEMMA FlattenType ==
  ASSUME NEW S, NEW s \in Seq(Seq(S))
  PROVE  FlattenSeq(s) \in Seq(S)
<1>1. CASE s = <<>>
  <2>1. <<>> \in Seq(S)
    OBVIOUS
  <2> QED
    BY <1>1, <2>1, FlattenEmpty
<1>2. CASE s # <<>>
  <2>1. Len(s) \in 1..Len(s)
    BY <1>2
  <2>2. \E f \in [1..Len(s) -> Seq(S)] : FlattenSeq(s) = f[Len(s)]
    BY <1>2, FlattenRun, Zenon
  <2> QED
    BY <2>1, <2>2
<1> QED
  BY <1>1, <1>2

LEMMA FlattenAppend ==
  ASSUME NEW S, NEW s \in Seq(Seq(S)), NEW e \in Seq(S)
  PROVE  FlattenSeq(Append(s, e)) = FlattenSeq(s) \o e
<1> DEFINE t == Append(s, e)
           n == Len(s)
<1>1. /\ t \in Seq(Seq(S)) /\ t # <<>> /\ Len(t) = n + 1 /\ n \in Nat
      /\ \A j \in 1..n : t[j] = s[j]
      /\ t[n + 1] = e
  BY AppendProperties
<1> HIDE DEF t, n
<1>2. PICK g \in [1..Len(t) -> Seq(S)] :
        /\ g[1] = t[1]
        /\ \A j \in 2..Len(t) : g[j] = g[j - 1] \o t[j]
        /\ FlattenSeq(t) = g[Len(t)]
  BY <1>1, FlattenRun
<1>3. CASE s = <<>>
  <2>1. n = 0
    BY <1>3 DEF n
  <2>2. FlattenSeq(t) = e
    BY <1>1, <1>2, <2>1
  <2>3. FlattenSeq(s) \o e = e
    BY <1>3, FlattenEmpty
  <2> QED
    BY <2>2, <2>3 DEF t
<1>4. CASE s # <<>>
  <2>1. PICK f \in [1..n -> Seq(S)] :
          /\ f[1] = s[1]
          /\ \A j \in 2..n : f[j] = f[j - 1] \o s[j]
          /\ FlattenSeq(s) = f[n]
    BY <1>4, FlattenRun DEF n
  <2>2. n >= 1
    BY <1>1, <1>4 DEF n
  <2> DEFINE P == {j \in 1..n : f[j] = g[j]}
  <2>3. 1 \in P
    BY <1>1, <1>2, <2>1, <2>2
  <2>4. ASSUME NEW j \in (1 + 1)..n, j - 1 \in P PROVE j \in P
    <3>1. j \in 1..n /\ j \in 2..n /\ j \in 2..Len(t)
      BY <1>1, <2>2
    <3>2. f[j] = f[j - 1] \o s[j] /\ g[j] = g[j - 1] \o t[j] /\ t[j] = s[j]
      BY <1>1, <1>2, <2>1, <3>1
    <3> QED
      BY <2>4, <3>1, <3>2
  <2>5. \A j \in 1..n : j \in P
    <3> HIDE DEF P
    <3>1. P \in SUBSET (1..n) /\ 1 \in Nat /\ 1 <= n
      BY <2>2 DEF P
    <3> QED
      BY <1>1, <2>3, <2>4, <3>1, LoopInvariant, Zenon
  <2>6. f[n] = g[n]
    BY <1>1, <2>2, <2>5
  <2>7. g[n + 1] = g[n] \o t[n + 1]
    <3>1. n + 1 \in 2..Len(t) /\ (n + 1) - 1 = n
      BY <1>1, <2>2
    <3> QED
      BY <1>2, <3>1
  <2> QED
    BY <1>1, <1>2, <2>1, <2>6, <2>7 DEF t
<1> QED
  BY <1>3, <1>4

LEMMA FlattenConcat ==
  ASSUME NEW S, NEW s \in Seq(Seq(S)), NEW t \in Seq(Seq(S))
  PROVE  FlattenSeq(s \o t) = FlattenSeq(s) \o FlattenSeq(t)
<1>0. \A x, y, z \in Seq(S) : (x \o y) \o z = x \o (y \o z)
  BY ConcatAssociative
<1> DEFINE T == Seq(S)
           m == Len(t)
           front(n) == SubSeq(t, 1, n)
           P == {n \in 0..m : FlattenSeq(s \o front(n)) = FlattenSeq(s) \o FlattenSeq(front(n))}
<1>1. m \in Nat /\ \A j \in 1..m : t[j] \in T
  OBVIOUS
<1>2. \A n \in 0..m : front(n) \in Seq(T)
  BY <1>1
<1>3. 0 \in P
  <2>1. front(0) = <<>> /\ s \o <<>> = s
    OBVIOUS
  <2>2. FlattenSeq(s) \o <<>> = FlattenSeq(s)
    <3> DEFINE a == FlattenSeq(s)
    <3>1. a \in Seq(S)
      BY FlattenType
    <3> HIDE DEF a
    <3>2. a \o <<>> = a
      BY <3>1
    <3> QED
      BY <3>2 DEF a
  <2> HIDE DEF front
  <2>3. FlattenSeq(s \o front(0)) = FlattenSeq(s) /\ FlattenSeq(front(0)) = <<>>
    BY <2>1, FlattenEmpty, Zenon
  <2>4. FlattenSeq(s \o front(0)) = FlattenSeq(s) \o FlattenSeq(front(0))
    BY <2>2, <2>3, Zenon
  <2>5. 0 \in 0..m
    BY <1>1
  <2> QED
    BY <2>4, <2>5, Zenon
<1>4. ASSUME NEW n \in (0 + 1)..m, n - 1 \in P PROVE n \in P
  <2> DEFINE x == front(n - 1)
             e == t[n]
  <2>1. n \in 0..m /\ n - 1 \in 0..m /\ n \in 1..m
    BY <1>1
  <2>2. x \in Seq(T) /\ e \in T
    BY <1>1, <1>2, <2>1
  <2>3. front(n) = Append(x, e)
    <3>1. SubSeq(t, 1, n) = SubSeq(t, 1, n - 1) \o <<t[n]>>
      <4>1. 1 \in 1..Len(t) /\ n \in 1..Len(t)
        BY <1>1, <2>1
      <4> QED
        BY <4>1, SubSeqRecursiveSecond
    <3> HIDE DEF x, e
    <3>2. x \o <<e>> = Append(x, e)
      BY <2>2, AppendIsConcat
    <3> QED
      BY <3>1, <3>2 DEF x, e
  <2>4. FlattenSeq(s \o x) = FlattenSeq(s) \o FlattenSeq(x)
    BY <1>4
  <2> HIDE DEF front, x, e
  <2>5. s \o Append(x, e) = Append(s \o x, e) /\ s \o x \in Seq(T)
    <3>1. s \o x \in Seq(T) /\ <<e>> \in Seq(T)
      BY <2>2, ConcatProperties
    <3>2. Append(x, e) = x \o <<e>> /\ Append(s \o x, e) = (s \o x) \o <<e>>
      BY <2>2, <3>1, AppendIsConcat
    <3>3. \A p, q, r \in Seq(T) : (p \o q) \o r = p \o (q \o r)
      <4> HIDE DEF T
      <4> QED
        OBVIOUS
    <3>4. (s \o x) \o <<e>> = s \o (x \o <<e>>)
      BY <2>2, <3>1, <3>3
    <3> QED
      BY <3>1, <3>2, <3>4
  <2> DEFINE a == FlattenSeq(s)
             b == FlattenSeq(x)
  <2>6. a \in Seq(S) /\ b \in Seq(S)
    BY <2>2, FlattenType
  <2>7. FlattenSeq(Append(s \o x, e)) = FlattenSeq(s \o x) \o e
    BY <2>2, <2>5, FlattenAppend
  <2>8. FlattenSeq(Append(x, e)) = b \o e
    BY <2>2, FlattenAppend
  <2>9. (a \o b) \o e = a \o (b \o e)
    <3> HIDE DEF a, b
    <3>1. e \in Seq(S)
      BY <2>2
    <3> QED
      BY <1>0, <2>6, <3>1, Zenon
  <2>10. FlattenSeq(s \o front(n)) = a \o FlattenSeq(front(n))
    BY <2>3, <2>4, <2>5, <2>7, <2>8, <2>9
  <2> QED
    BY <2>1, <2>10
<1>5. \A n \in 0..m : n \in P
  <2> HIDE DEF P
  <2>1. P \in SUBSET (0..m) /\ 0 \in Nat /\ 0 <= m
    BY <1>1 DEF P
  <2> HIDE DEF m
  <2> QED
    BY <1>1, <1>3, <1>4, <2>1, LoopInvariant, Zenon
<1>6. FlattenSeq(s \o front(m)) = FlattenSeq(s) \o FlattenSeq(front(m))
  BY <1>1, <1>5
<1>7. front(m) = t
  BY SubSeqFull
<1> QED
  BY <1>6, <1>7

Mapped(F, s) == [n \in DOMAIN s |-> F[s[n]]]

InRow(F, s) == FlattenSeq(Mapped(F, s))

Maps(F, L, S) == F \in [L -> S]

LEMMA MapsToSeq ==
  ASSUME NEW S, NEW L, NEW F, Maps(F, L, S), NEW s \in Seq(L)
  PROVE  /\ Mapped(F, s) \in Seq(S) /\ Len(Mapped(F, s)) = Len(s)
         /\ \A n \in 1..Len(s) : Mapped(F, s)[n] = F[s[n]]
<1> DEFINE m == Mapped(F, s)
<1>1. /\ Len(s) \in Nat /\ DOMAIN s = 1..Len(s)
      /\ \A n \in 1..Len(s) : s[n] \in L
  OBVIOUS
<1>2. m \in [1..Len(s) -> S] /\ \A n \in 1..Len(s) : m[n] = F[s[n]]
  BY <1>1 DEF Mapped, Maps
<1> HIDE DEF m
<1>3. m \in Seq(S) /\ Len(m) = Len(s)
  BY <1>1, <1>2
<1> QED
  BY <1>2, <1>3 DEF m

LEMMA InRowType ==
  ASSUME NEW S, NEW L, NEW F, Maps(F, L, Seq(S)), NEW s \in Seq(L)
  PROVE  InRow(F, s) \in Seq(S)
<1>1. Mapped(F, s) \in Seq(Seq(S))
  BY MapsToSeq
<1> QED
  BY <1>1, FlattenType DEF InRow

LEMMA InRowEmpty == ASSUME NEW F PROVE InRow(F, <<>>) = <<>>
<1>1. Mapped(F, <<>>) = <<>>
  BY DEF Mapped
<1> QED
  BY <1>1, FlattenEmpty DEF InRow

LEMMA InRowOne ==
  ASSUME NEW S, NEW L, NEW F, Maps(F, L, Seq(S)), NEW x \in L
  PROVE  InRow(F, <<x>>) = F[x]
<1> DEFINE s == <<x>>
           m == Mapped(F, s)
<1>1. s \in Seq(L) /\ Len(s) = 1 /\ s[1] = x /\ 1 \in 1..1
  OBVIOUS
<1> HIDE DEF s
<1>2. m \in Seq(Seq(S)) /\ Len(m) = Len(s) /\ \A n \in 1..Len(s) : m[n] = F[s[n]]
  BY <1>1, MapsToSeq
<1> HIDE DEF m
<1>3. Len(m) = 1 /\ m[1] = F[x]
  BY <1>1, <1>2
<1>4. m # <<>>
  <2>1. Len(<<>>) = 0 /\ 0 # 1
    OBVIOUS
  <2> QED
    BY <1>3, <2>1, Zenon
<1>5. PICK f \in [1..Len(m) -> Seq(S)] : f[1] = m[1] /\ FlattenSeq(m) = f[Len(m)]
  BY <1>2, <1>4, FlattenRun
<1>6. FlattenSeq(m) = m[1]
  BY <1>3, <1>5
<1> QED
  BY <1>3, <1>6 DEF InRow, m, s

LEMMA InRowConcat ==
  ASSUME NEW S, NEW L, NEW F, Maps(F, L, Seq(S)), NEW a \in Seq(L), NEW b \in Seq(L)
  PROVE  InRow(F, a \o b) = InRow(F, a) \o InRow(F, b)
<1> DEFINE c == a \o b
           ma == Mapped(F, a)
           mb == Mapped(F, b)
           mc == Mapped(F, c)
<1>1. /\ c \in Seq(L) /\ Len(c) = Len(a) + Len(b)
      /\ \A n \in 1..(Len(a) + Len(b)) :
           c[n] = IF n <= Len(a) THEN a[n] ELSE b[n - Len(a)]
  BY ConcatProperties
<1>2. /\ Len(a) \in Nat /\ DOMAIN a = 1..Len(a)
      /\ Len(b) \in Nat /\ DOMAIN b = 1..Len(b)
      /\ DOMAIN c = 1..Len(c)
  BY <1>1
<1> HIDE DEF c
<1>3. \A x \in Seq(L) :
        /\ Mapped(F, x) \in Seq(Seq(S)) /\ Len(Mapped(F, x)) = Len(x)
        /\ \A n \in 1..Len(x) : Mapped(F, x)[n] = F[x[n]]
  BY MapsToSeq
<1>4. /\ ma \in Seq(Seq(S)) /\ Len(ma) = Len(a) /\ \A n \in 1..Len(a) : ma[n] = F[a[n]]
      /\ mb \in Seq(Seq(S)) /\ Len(mb) = Len(b) /\ \A n \in 1..Len(b) : mb[n] = F[b[n]]
      /\ mc \in Seq(Seq(S)) /\ Len(mc) = Len(c) /\ \A n \in 1..Len(c) : mc[n] = F[c[n]]
  BY <1>1, <1>3, Zenon
<1> HIDE DEF ma, mb, mc
<1>5. /\ ma \o mb \in Seq(Seq(S)) /\ Len(ma \o mb) = Len(a) + Len(b)
      /\ \A n \in 1..(Len(a) + Len(b)) :
           (ma \o mb)[n] = IF n <= Len(a) THEN ma[n] ELSE mb[n - Len(a)]
  <2>1. /\ ma \o mb \in Seq(Seq(S)) /\ Len(ma \o mb) = Len(ma) + Len(mb)
        /\ \A n \in 1..(Len(ma) + Len(mb)) :
             (ma \o mb)[n] = IF n <= Len(ma) THEN ma[n] ELSE mb[n - Len(ma)]
    <3> DEFINE T == Seq(S)
    <3>1. ma \in Seq(T) /\ mb \in Seq(T)
      BY <1>4
    <3> HIDE DEF T
    <3>2. \A x, y \in Seq(T) :
            /\ x \o y \in Seq(T) /\ Len(x \o y) = Len(x) + Len(y)
            /\ \A n \in 1..(Len(x) + Len(y)) :
                 (x \o y)[n] = IF n <= Len(x) THEN x[n] ELSE y[n - Len(x)]
      BY ConcatProperties
    <3>3. ma \o mb \in Seq(T)
      BY <3>1, <3>2
    <3> QED
      BY <3>1, <3>2, <3>3 DEF T
  <2> QED
    BY <1>4, <2>1
<1>6. ASSUME NEW n \in 1..(Len(a) + Len(b)) PROVE mc[n] = (ma \o mb)[n]
  <2>1. CASE n <= Len(a)
    <3>1. n \in 1..Len(a)
      BY <1>2, <2>1
    <3>2. c[n] = a[n] /\ (ma \o mb)[n] = ma[n]
      BY <1>1, <1>5, <2>1
    <3>3. mc[n] = F[c[n]] /\ ma[n] = F[a[n]]
      BY <1>1, <1>4, <3>1
    <3> QED
      BY <3>2, <3>3
  <2>2. CASE ~(n <= Len(a))
    <3>1. n - Len(a) \in 1..Len(b)
      BY <1>2, <2>2
    <3>2. c[n] = b[n - Len(a)] /\ (ma \o mb)[n] = mb[n - Len(a)]
      BY <1>1, <1>5, <2>2
    <3>3. mc[n] = F[c[n]] /\ mb[n - Len(a)] = F[b[n - Len(a)]]
      BY <1>1, <1>4, <3>1
    <3> QED
      BY <3>2, <3>3
  <2> QED
    BY <2>1, <2>2
<1>7. mc = ma \o mb
  BY <1>1, <1>4, <1>5, <1>6, SeqEqual
<1>8. FlattenSeq(ma \o mb) = FlattenSeq(ma) \o FlattenSeq(mb)
  BY <1>4, FlattenConcat
<1> QED
  BY <1>7, <1>8 DEF InRow, ma, mb, mc, c

LEMMA InRowFirst ==
  ASSUME NEW S, NEW L, NEW F, Maps(F, L, Seq(S)), NEW s \in Seq(L), s # <<>>
  PROVE  InRow(F, s) = F[Head(s)] \o InRow(F, Tail(s))
<1>1. Head(s) \in L /\ Tail(s) \in Seq(L) /\ <<Head(s)>> \in Seq(L)
  OBVIOUS
<1>2. s = <<Head(s)>> \o Tail(s)
  OBVIOUS
<1> DEFINE x == Head(s)
           one == <<x>>
           t == Tail(s)
<1>3. one \in Seq(L) /\ t \in Seq(L) /\ x \in L
  BY <1>1
<1> HIDE DEF x, t, one
<1>4. InRow(F, one \o t) = InRow(F, one) \o InRow(F, t)
  BY <1>3, InRowConcat
<1>5. InRow(F, one) = F[x]
  BY <1>3, InRowOne DEF one
<1> QED
  BY <1>1, <1>2, <1>4, <1>5 DEF x, t, one

------------------------------------------------------------------------------
(***************************************************************************)
(* What a piece says, and what is left of that when its format has been    *)
(* read in part.                                                           *)
(***************************************************************************)

Argument == Int \cup Seq(Char)

Legal   == {piece \in Piece : LegalPiece(piece)}
Sayable == {piece \in Piece : LegalPiece(piece) \/ (piece.as = "text" /\ piece.value \in Seq(Printable))}

\* The rest f of a piece's format, with the arguments a it takes, prints s.
PartRead(f, a, s) ==
  \/ f \in Seq(Printable \ {PERCENT}) /\ a = <<>> /\ s = f
  \/ f = <<PERCENT>> /\ a = <<>> /\ s = <<>>
  \/ \E c \in Char \ Conversions :
       f = <<PERCENT, c>> /\ a = <<>> /\ s = (IF c = PERCENT THEN <<PERCENT>> ELSE <<>>)
  \/ \E c \in Conversions, x \in Argument :
       f = <<PERCENT, c>> /\ a = <<x>> /\ s = Converted(c, x) /\ s \in Seq(Printable)
  \/ \E x, y \in Argument :
       /\ f = <<PERCENT, CH_x, PERCENT, CH_x>> /\ a = <<x, y>>
       /\ s = Converted(CH_x, x) \o Converted(CH_x, y)
       /\ Converted(CH_x, x) \in Seq(Printable) /\ Converted(CH_x, y) \in Seq(Printable)

LEMMA Characters ==
  /\ Conversions \subseteq Char /\ PERCENT \in Printable /\ MINUS \in Printable
  /\ PERCENT \notin Conversions /\ Printable \subseteq Char
BY DEF Conversions, Char, Printable, TestByte, PERCENT, MINUS, CH_s, CH_c, CH_x, CH_d, CH_u

LEMMA PartReadType ==
  ASSUME NEW f, NEW a, NEW s, PartRead(f, a, s)
  PROVE  f \in Seq(Char) /\ a \in Seq(Argument) /\ s \in Seq(Printable)
<1>1. CASE f \in Seq(Printable \ {PERCENT}) /\ a = <<>> /\ s = f
  BY <1>1, Characters
<1>2. CASE f = <<PERCENT>> /\ a = <<>> /\ s = <<>>
  BY <1>2, Characters
<1>3. ASSUME NEW c \in Char \ Conversions,
             f = <<PERCENT, c>>, a = <<>>, s = (IF c = PERCENT THEN <<PERCENT>> ELSE <<>>)
      PROVE  f \in Seq(Char) /\ a \in Seq(Argument) /\ s \in Seq(Printable)
  BY <1>3, Characters
<1>4. ASSUME NEW c \in Conversions, NEW x \in Argument,
             f = <<PERCENT, c>>, a = <<x>>, s \in Seq(Printable)
      PROVE  f \in Seq(Char) /\ a \in Seq(Argument) /\ s \in Seq(Printable)
  BY <1>4, Characters
<1>5. ASSUME NEW x \in Argument, NEW y \in Argument,
             f = <<PERCENT, CH_x, PERCENT, CH_x>>, a = <<x, y>>,
             s = Converted(CH_x, x) \o Converted(CH_x, y),
             Converted(CH_x, x) \in Seq(Printable), Converted(CH_x, y) \in Seq(Printable)
      PROVE  f \in Seq(Char) /\ a \in Seq(Argument) /\ s \in Seq(Printable)
  <2>1. f \in Seq(Char)
    BY <1>5, Characters DEF Conversions
  <2>2. a \in Seq(Argument)
    BY <1>5
  <2>3. s \in Seq(Printable)
    BY <1>5
  <2> QED
    BY <2>1, <2>2, <2>3
<1> QED
  BY <1>1, <1>2, <1>3, <1>4, <1>5 DEF PartRead

LEMMA HexSays ==
  ASSUME NEW v \in 0..(WordSpan - 1)
  PROVE  /\ Converted(CH_x, v) = Numeral(v, 16, HexDigits)
         /\ Converted(CH_x, v) \in Seq(Printable)
<1>1. Converted(CH_x, v) = itoa(16, AsInt(v))
  BY DEF Converted, CH_s, CH_c, CH_x, CH_d, CH_u
<1>2. v \in Nat /\ 16 \in {10, 16} /\ HexDigits \in Nat
  BY WordSpanIs, MaxDigitsIs
<1> QED
  BY <1>1, <1>2, HexIsNumeral, NumeralType

\* A number as the callers mean it in base 10.
Signed(num) == IF num < 0 THEN <<MINUS>> \o Decimal(-num) ELSE Decimal(num)

LEMMA DecimalSays ==
  ASSUME NEW num \in Int, -WordSpan < num, num < WordSpan
  PROVE  itoa(10, num) = Signed(num) /\ Signed(num) \in Seq(Printable)
<1>1. ASSUME NEW v \in Nat, v < WordSpan PROVE Decimal(v) \in Seq(Printable)
  <2>1. PICK length : EndsAfter(10, v, length) /\ Decimal(v) = Numeral(v, 10, length)
    BY <1>1, DecimalIs
  <2>2. length \in Nat
    BY <2>1, MaxDigitsIs DEF EndsAfter
  <2> QED
    BY <2>1, <2>2, NumeralType
<1>2. CASE num < 0
  <2>1. -num \in Nat /\ -num < WordSpan
    BY <1>2, WordSpanIs
  <2>2. Decimal(-num) \in Seq(Printable)
    BY <1>1, <2>1
  <2>3. <<MINUS>> \in Seq(Printable)
    BY Characters
  <2>4. <<MINUS>> \o Decimal(-num) \in Seq(Printable)
    BY <2>2, <2>3, ConcatProperties
  <2> QED
    BY <1>2, <2>4, DecimalIsNumeral DEF Signed
<1>3. CASE ~(num < 0)
  <2>1. num \in Nat
    BY <1>3
  <2> QED
    BY <1>1, <1>3, <2>1, DecimalIsNumeral DEF Signed
<1> QED
  BY <1>2, <1>3

LEMMA PieceRead ==
  ASSUME NEW p \in Legal
  PROVE  PartRead(FormatOf(p), ArgsOf(p), Says(p))
<1> DEFINE v == p.value
<1>1. /\ p.as \in {"text", "s", "odd", "c", "percent", "x", "d", "u", "xx"}
      /\ p.as \in {"text", "s", "odd"} => v \in Seq(Char)
      /\ p.as \in {"c", "percent", "x", "d", "u", "xx"} => v \in Int
      /\ LegalPiece(p)
  BY DEF Legal, Piece
<1> HIDE DEF v
<1>2. CASE p.as = "text"
  <2>1. v \in Seq(Printable \ {PERCENT})
    BY <1>1, <1>2 DEF LegalPiece, v
  <2>2. FormatOf(p) = v /\ ArgsOf(p) = <<>> /\ Says(p) = v
    BY <1>2 DEF FormatOf, ArgsOf, Says, v
  <2> QED
    BY <2>1, <2>2 DEF PartRead
<1>3. CASE p.as = "odd"
  <2>1. \/ v = <<PERCENT>>
        \/ \E c \in Char \ (Conversions \cup {PERCENT}) : v = <<PERCENT, c>>
    BY <1>1, <1>3 DEF LegalPiece, v
  <2>2. FormatOf(p) = v /\ ArgsOf(p) = <<>> /\ Says(p) = <<>>
    BY <1>3 DEF FormatOf, ArgsOf, Says, v
  <2> QED
    BY <2>1, <2>2 DEF PartRead
<1>4. CASE p.as = "percent"
  <2>1. FormatOf(p) = <<PERCENT, PERCENT>> /\ ArgsOf(p) = <<>> /\ Says(p) = <<PERCENT>>
    BY <1>4 DEF FormatOf, ArgsOf, Says
  <2>2. PERCENT \in Char \ Conversions
    BY Characters
  <2> QED
    BY <2>1, <2>2 DEF PartRead
<1> DEFINE One(c) ==
             /\ c \in Conversions /\ v \in Argument
             /\ FormatOf(p) = <<PERCENT, c>> /\ ArgsOf(p) = <<v>>
             /\ Says(p) = Converted(c, v) /\ Says(p) \in Seq(Printable)
<1>5. ASSUME NEW c, One(c) PROVE PartRead(FormatOf(p), ArgsOf(p), Says(p))
  BY <1>5 DEF PartRead
<1>6. CASE p.as = "s"
  <2>1. v \in Seq(Printable)
    BY <1>1, <1>6 DEF LegalPiece, v
  <2>2. /\ FormatOf(p) = <<PERCENT, CH_s>> /\ ArgsOf(p) = <<v>> /\ Says(p) = v
    BY <1>6 DEF FormatOf, ArgsOf, Says, v
  <2>3. Converted(CH_s, v) = v
    BY DEF Converted, CH_s, CH_c, CH_x, CH_d, CH_u
  <2>4. CH_s \in Conversions /\ v \in Argument
    BY <1>1, <1>6 DEF Conversions, Argument
  <2> QED
    BY <1>5, <2>1, <2>2, <2>3, <2>4
<1>7. CASE p.as = "c"
  <2>1. v \in Printable
    BY <1>1, <1>7 DEF LegalPiece, v
  <2>2. FormatOf(p) = <<PERCENT, CH_c>> /\ ArgsOf(p) = <<v>> /\ Says(p) = <<v>>
    BY <1>7 DEF FormatOf, ArgsOf, Says, v
  <2>3. Converted(CH_c, v) = <<v>>
    BY DEF Converted, CH_s, CH_c, CH_x, CH_d, CH_u
  <2>4. CH_c \in Conversions /\ v \in Argument
    BY <1>1, <1>7 DEF Conversions, Argument
  <2>5. <<v>> \in Seq(Printable)
    BY <2>1
  <2> QED
    BY <1>5, <2>2, <2>3, <2>4, <2>5
<1>8. CASE p.as = "x"
  <2>1. v \in 0..(WordSpan - 1)
    BY <1>1, <1>8 DEF LegalPiece, v
  <2>2. /\ FormatOf(p) = <<PERCENT, CH_x>> /\ ArgsOf(p) = <<v>>
        /\ Says(p) = Numeral(v, 16, HexDigits)
    BY <1>8 DEF FormatOf, ArgsOf, Says, v
  <2>3. CH_x \in Conversions /\ v \in Argument
    BY <1>1, <1>8 DEF Conversions, Argument
  <2>4. Converted(CH_x, v) = Numeral(v, 16, HexDigits) /\ Converted(CH_x, v) \in Seq(Printable)
    BY <2>1, HexSays
  <2> QED
    BY <1>5, <2>2, <2>3, <2>4
<1> DEFINE W == WordSpan
<1>9. W \in Nat \ {0} /\ W \div 2 \in Nat /\ W \div 2 < W
  BY WordSpanIs
<1>10. CASE p.as = "d"
  <2>1. v \in -(W \div 2)..(W \div 2 - 1)
    BY <1>1, <1>10 DEF LegalPiece, v
  <2>2. FormatOf(p) = <<PERCENT, CH_d>> /\ ArgsOf(p) = <<v>> /\ Says(p) = Signed(v)
    BY <1>10 DEF FormatOf, ArgsOf, Says, Signed, v
  <2>3. Converted(CH_d, v) = itoa(10, v)
    BY DEF Converted, CH_s, CH_c, CH_x, CH_d, CH_u
  <2>4. CH_d \in Conversions /\ v \in Argument /\ v \in Int
    BY <1>1, <1>10 DEF Conversions, Argument
  <2>5. -W < v /\ v < W
    <3> HIDE DEF W
    <3> QED
      BY <1>9, <2>1
  <2>6. itoa(10, v) = Signed(v) /\ Signed(v) \in Seq(Printable)
    BY <2>4, <2>5, DecimalSays
  <2> QED
    BY <1>5, <2>2, <2>3, <2>4, <2>6
<1>11. CASE p.as = "u"
  <2>1. v \in 0..(W \div 2 - 1)
    BY <1>1, <1>11 DEF LegalPiece, v
  <2>2. FormatOf(p) = <<PERCENT, CH_u>> /\ ArgsOf(p) = <<v>> /\ Says(p) = Signed(v)
    BY <1>11 DEF FormatOf, ArgsOf, Says, Signed, v
  <2>3. Converted(CH_u, v) = itoa(10, AsInt(v))
    BY DEF Converted, CH_s, CH_c, CH_x, CH_d, CH_u
  <2>4. CH_u \in Conversions /\ v \in Argument /\ v \in Int
    BY <1>1, <1>11 DEF Conversions, Argument
  <2>5. -W < v /\ v < W /\ v < W \div 2
    <3> HIDE DEF W
    <3> QED
      BY <1>9, <2>1
  <2>6. AsInt(v) = v
    BY <2>5 DEF AsInt
  <2>7. itoa(10, v) = Signed(v) /\ Signed(v) \in Seq(Printable)
    BY <2>4, <2>5, DecimalSays
  <2> QED
    BY <1>5, <2>2, <2>3, <2>4, <2>6, <2>7
<1>12. CASE p.as = "xx"
  <2> DEFINE x == v \div W
             y == v % W
  <2>1. v \in 0..(WordSpan * WordSpan - 1)
    BY <1>1, <1>12 DEF LegalPiece, v
  <2>2. /\ FormatOf(p) = <<PERCENT, CH_x, PERCENT, CH_x>> /\ ArgsOf(p) = <<x, y>>
        /\ Says(p) = Numeral(v, 16, 2 * HexDigits)
    BY <1>12 DEF FormatOf, ArgsOf, Says, v
  <2>3. /\ x \in 0..(WordSpan - 1) /\ y \in 0..(WordSpan - 1)
        /\ Says(p) = Numeral(x, 16, HexDigits) \o Numeral(y, 16, HexDigits)
    BY <2>1, <2>2, TwoWords
  <2> HIDE DEF x, y
  <2>4. /\ Converted(CH_x, x) = Numeral(x, 16, HexDigits)
        /\ Converted(CH_x, y) = Numeral(y, 16, HexDigits)
        /\ Converted(CH_x, x) \in Seq(Printable) /\ Converted(CH_x, y) \in Seq(Printable)
    BY <2>3, HexSays
  <2>5. x \in Argument /\ y \in Argument
    BY <2>3 DEF Argument
  <2>6. Says(p) = Converted(CH_x, x) \o Converted(CH_x, y)
    BY <2>3, <2>4
  <2> QED
    BY <2>2, <2>4, <2>5, <2>6 DEF PartRead
<1> QED
  BY <1>1, <1>2, <1>3, <1>4, <1>6, <1>7, <1>8, <1>10, <1>11, <1>12

------------------------------------------------------------------------------
(***************************************************************************)
(* Pieces and calls in a row.                                              *)
(***************************************************************************)

FormatF == [piece \in Legal |-> FormatOf(piece)]
ArgsF   == [piece \in Legal |-> ArgsOf(piece)]
SaysF   == [piece \in Sayable |-> Says(piece)]

LegalCalls == {call \in Calls : LegalCall(call)}
PiecesF    == [call \in LegalCalls |-> call.pieces]

\* What pieces say, and calls not begun yet.
Saying(pieces) == InRow(SaysF, pieces)
Ahead(calls)   == Saying(InRow(PiecesF, calls))

LEMMA PieceMaps ==
  /\ Maps(FormatF, Legal, Seq(Char)) /\ Maps(ArgsF, Legal, Seq(Argument))
  /\ Maps(SaysF, Sayable, Seq(Printable))
  /\ Legal \subseteq Sayable
<1>1. Legal \subseteq Sayable
  BY DEF Legal, Sayable
<1>2. ASSUME NEW p \in Legal
      PROVE  FormatOf(p) \in Seq(Char) /\ ArgsOf(p) \in Seq(Argument) /\ Says(p) \in Seq(Printable)
  BY PieceRead, PartReadType
<1>3. ASSUME NEW p \in Sayable PROVE Says(p) \in Seq(Printable)
  <2>1. CASE p \in Legal
    BY <1>2, <2>1
  <2>2. CASE p \notin Legal
    BY <2>2 DEF Legal, Sayable, Says
  <2> QED
    BY <2>1, <2>2
<1>4. /\ FormatF \in [Legal -> Seq(Char)] /\ ArgsF \in [Legal -> Seq(Argument)]
      /\ SaysF \in [Sayable -> Seq(Printable)]
  BY <1>2, <1>3 DEF FormatF, ArgsF, SaysF
<1> QED
  BY <1>1, <1>4 DEF Maps

LEMMA JoinedInRow ==
  /\ \A ps \in Seq(Legal) : /\ Joined(FormatOf, ps) = InRow(FormatF, ps)
                            /\ Joined(ArgsOf, ps) = InRow(ArgsF, ps)
  /\ \A ps \in Seq(Sayable) : Joined(Says, ps) = Saying(ps)
<1>1. ASSUME NEW ps \in Seq(Legal)
      PROVE  Joined(FormatOf, ps) = InRow(FormatF, ps) /\ Joined(ArgsOf, ps) = InRow(ArgsF, ps)
  <2>1. \A n \in DOMAIN ps : ps[n] \in Legal
    OBVIOUS
  <2>2. /\ Mapped(FormatF, ps) = [n \in DOMAIN ps |-> FormatOf(ps[n])]
        /\ Mapped(ArgsF, ps) = [n \in DOMAIN ps |-> ArgsOf(ps[n])]
    BY <2>1 DEF Mapped, FormatF, ArgsF
  <2> QED
    BY <2>2 DEF Joined, InRow
<1>2. ASSUME NEW ps \in Seq(Sayable)
      PROVE  Joined(Says, ps) = Saying(ps)
  <2>1. \A n \in DOMAIN ps : ps[n] \in Sayable
    OBVIOUS
  <2>2. Mapped(SaysF, ps) = [n \in DOMAIN ps |-> Says(ps[n])]
    BY <2>1 DEF Mapped, SaysF
  <2> QED
    BY <2>2 DEF Joined, InRow, Saying
<1> QED
  BY <1>1, <1>2

LEMMA SayingConcat ==
  ASSUME NEW ps \in Seq(Sayable), NEW qs \in Seq(Sayable)
  PROVE  /\ Saying(ps) \in Seq(Printable)
         /\ Saying(ps \o qs) = Saying(ps) \o Saying(qs)
BY PieceMaps, InRowConcat, InRowType DEF Saying

LEMMA SayingFirst ==
  ASSUME NEW ps \in Seq(Legal), ps # <<>>
  PROVE  /\ Head(ps) \in Legal /\ Tail(ps) \in Seq(Legal)
         /\ InRow(FormatF, ps) = FormatOf(Head(ps)) \o InRow(FormatF, Tail(ps))
         /\ InRow(ArgsF, ps) = ArgsOf(Head(ps)) \o InRow(ArgsF, Tail(ps))
         /\ Saying(ps) = Says(Head(ps)) \o Saying(Tail(ps))
<1>1. ps \in Seq(Sayable)
  BY PieceMaps
<1>2. /\ Maps(FormatF, Legal, Seq(Char)) /\ Maps(ArgsF, Legal, Seq(Argument))
      /\ Maps(SaysF, Sayable, Seq(Printable))
  BY PieceMaps
<1>3. Head(ps) \in Legal /\ Tail(ps) \in Seq(Legal)
  OBVIOUS
<1>4. InRow(FormatF, ps) = FormatF[Head(ps)] \o InRow(FormatF, Tail(ps))
  BY <1>2, InRowFirst
<1>5. InRow(ArgsF, ps) = ArgsF[Head(ps)] \o InRow(ArgsF, Tail(ps))
  BY <1>2, InRowFirst
<1>6. Saying(ps) = SaysF[Head(ps)] \o Saying(Tail(ps))
  BY <1>1, <1>2, InRowFirst DEF Saying
<1>7. /\ FormatF[Head(ps)] = FormatOf(Head(ps)) /\ ArgsF[Head(ps)] = ArgsOf(Head(ps))
      /\ SaysF[Head(ps)] = Says(Head(ps))
  BY <1>3, PieceMaps DEF FormatF, ArgsF, SaysF
<1> QED
  BY <1>3, <1>4, <1>5, <1>6, <1>7

LEMMA CallSays ==
  ASSUME NEW call \in LegalCalls
  PROVE  /\ call.pieces \in Seq(Sayable)
         /\ call.fn = "printf" => call.pieces \in Seq(Legal) /\ LegalPieces(call.pieces)
         /\ call.fn = "write" =>
              /\ call.pieces[1].value \in Seq(Printable)
              /\ Saying(call.pieces) = call.pieces[1].value
<1>1. call \in Calls /\ LegalCall(call) /\ call.pieces \in Seq(Piece)
  BY DEF LegalCalls, Calls
<1>2. CASE call.fn = "printf"
  <2>1. LegalPieces(call.pieces)
    BY <1>1, <1>2 DEF LegalCall
  <2>2. call.pieces \in Seq(Legal)
    BY <1>1, <2>1 DEF LegalPieces, Legal
  <2> QED
    BY <1>2, <2>1, <2>2, PieceMaps
<1>3. CASE call.fn # "printf"
  <2> DEFINE p == call.pieces[1]
  <2>1. Len(call.pieces) = 1 /\ p.as = "text" /\ p.value \in Seq(Printable)
    BY <1>1, <1>3 DEF LegalCall
  <2>2. p \in Sayable
    <3>1. p \in Piece
      BY <1>1, <2>1
    <3> QED
      BY <2>1, <3>1 DEF Sayable
  <2>3. Says(p) = p.value
    BY <2>1 DEF Says
  <2>4. call.pieces = <<p>>
    BY <1>1, <2>1
  <2> HIDE DEF p
  <2>5. Saying(<<p>>) = SaysF[p]
    BY <2>2, PieceMaps, InRowOne DEF Saying
  <2>6. SaysF[p] = p.value
    BY <2>2, <2>3 DEF SaysF
  <2>7. call.pieces \in Seq(Sayable)
    BY <2>2, <2>4
  <2> QED
    BY <1>3, <2>1, <2>4, <2>5, <2>6, <2>7 DEF p
<1> QED
  BY <1>2, <1>3

LEMMA AheadFirst ==
  /\ Ahead(<<>>) = <<>>
  /\ \A calls \in Seq(LegalCalls) :
       /\ Ahead(calls) \in Seq(Printable)
       /\ calls # <<>> =>
            /\ Head(calls) \in LegalCalls /\ Tail(calls) \in Seq(LegalCalls)
            /\ Ahead(calls) = Saying(Head(calls).pieces) \o Ahead(Tail(calls))
<1>1. Ahead(<<>>) = <<>>
  BY InRowEmpty DEF Ahead, Saying
<1>2. Maps(PiecesF, LegalCalls, Seq(Sayable))
  BY CallSays DEF Maps, PiecesF
<1>3. ASSUME NEW calls \in Seq(LegalCalls)
      PROVE  Ahead(calls) \in Seq(Printable)
  BY <1>2, InRowType, SayingConcat DEF Ahead
<1>4. ASSUME NEW calls \in Seq(LegalCalls), calls # <<>>
      PROVE  /\ Head(calls) \in LegalCalls /\ Tail(calls) \in Seq(LegalCalls)
             /\ Ahead(calls) = Saying(Head(calls).pieces) \o Ahead(Tail(calls))
  <2>1. /\ Head(calls) \in LegalCalls /\ Tail(calls) \in Seq(LegalCalls)
        /\ InRow(PiecesF, calls) = PiecesF[Head(calls)] \o InRow(PiecesF, Tail(calls))
    <3>1. Head(calls) \in LegalCalls /\ Tail(calls) \in Seq(LegalCalls)
      BY <1>4
    <3>2. InRow(PiecesF, calls) = PiecesF[Head(calls)] \o InRow(PiecesF, Tail(calls))
      BY <1>2, <1>4, InRowFirst
    <3> QED
      BY <3>1, <3>2
  <2>2. PiecesF[Head(calls)] = Head(calls).pieces /\ Head(calls).pieces \in Seq(Sayable)
    BY <2>1, CallSays DEF PiecesF
  <2>3. InRow(PiecesF, Tail(calls)) \in Seq(Sayable)
    BY <1>2, <2>1, InRowType
  <2> QED
    BY <2>1, <2>2, <2>3, SayingConcat DEF Ahead
<1> QED
  BY <1>1, <1>3, <1>4

------------------------------------------------------------------------------
(***************************************************************************)
(* Reading a format.                                                       *)
(***************************************************************************)

\* What is still to be read of a format and its arguments, and the calls after
\* it, print rest: the remainder of one piece, then the pieces ps.
Unread(f, a, s, ps, fmt, ar, calls, rest) ==
  /\ PartRead(f, a, s)
  /\ ps \in Seq(Legal) /\ LegalPieces(ps)
  /\ f = <<PERCENT>> => ps = <<>>
  /\ fmt = f \o InRow(FormatF, ps)
  /\ ar = a \o InRow(ArgsF, ps)
  /\ rest = s \o (Saying(ps) \o Ahead(calls))

LEMMA RestOfPieces ==
  ASSUME NEW ps \in Seq(Legal), LegalPieces(ps), ps # <<>>
  PROVE  LegalPieces(Tail(ps)) /\ (FormatOf(Head(ps)) = <<PERCENT>> => Tail(ps) = <<>>)
<1>1. /\ Len(ps) \in Nat \ {0} /\ Tail(ps) \in Seq(Legal) /\ Len(Tail(ps)) = Len(ps) - 1
      /\ \A n \in 1..(Len(ps) - 1) : Tail(ps)[n] = ps[n + 1]
      /\ Head(ps) = ps[1] /\ ps[1] \in Legal
  OBVIOUS
<1>2. LegalPieces(Tail(ps))
  <2>1. ASSUME NEW n \in DOMAIN Tail(ps)
        PROVE  /\ Tail(ps)[n] = ps[n + 1] /\ n + 1 \in DOMAIN ps
               /\ n + 1 = Len(ps) => n = Len(Tail(ps))
    BY <1>1
  <2> QED
    BY <2>1 DEF LegalPieces
<1>3. ASSUME FormatOf(Head(ps)) = <<PERCENT>> PROVE Tail(ps) = <<>>
  <2> DEFINE p == ps[1]
  <2>1. LegalPiece(p) /\ p.as \in {"text", "s", "odd", "c", "percent", "x", "d", "u", "xx"}
    BY <1>1 DEF Legal, Piece
  <2> HIDE DEF p
  <2>2. p.as \in {"text", "odd"} /\ p.value = <<PERCENT>>
    <3>1. Len(FormatOf(p)) = 1
      BY <1>1, <1>3 DEF p
    <3>2. p.as \in {"text", "odd"}
      BY <2>1, <3>1 DEF FormatOf
    <3> QED
      BY <1>1, <1>3, <3>2 DEF FormatOf, p
  <2>3. p.as # "text"
    <3>1. <<PERCENT>> \notin Seq(Printable \ {PERCENT})
      <4>1. <<PERCENT>>[1] = PERCENT /\ Len(<<PERCENT>>) = 1
        OBVIOUS
      <4> QED
        BY <4>1, ElementOfSeq
    <3> QED
      BY <2>1, <2>2, <3>1 DEF LegalPiece
  <2>4. Len(ps) = 1
    <3>1. 1 \in DOMAIN ps
      BY <1>1
    <3> QED
      BY <2>2, <2>3, <3>1 DEF LegalPieces, p
  <2>5. Len(Tail(ps)) = 0
    BY <1>1, <2>4
  <2>6. \A x \in Seq(Legal) : Len(x) = 0 => x = <<>>
    OBVIOUS
  <2> QED
    BY <1>1, <2>5, <2>6, Zenon
<1> QED
  BY <1>2, <1>3

LEMMA Associative ==
  ASSUME NEW x \in Seq(Printable), NEW y \in Seq(Printable), NEW z \in Seq(Printable)
  PROVE  (x \o y) \o z = x \o (y \o z)
BY ConcatAssociative

LEMMA CharactersAssociative ==
  ASSUME NEW x \in Seq(Char), NEW y \in Seq(Char), NEW z \in Seq(Char)
  PROVE  (x \o y) \o z = x \o (y \o z)
BY ConcatAssociative

LEMMA Unit == ASSUME NEW S, NEW s \in Seq(S) PROVE <<>> \o s = s /\ s \o <<>> = s
OBVIOUS

\* A piece that is read up to its end gives way to the next.
LEMMA NextPiece ==
  ASSUME NEW f, NEW a, NEW s, NEW ps, NEW fmt, NEW ar, NEW calls \in Seq(LegalCalls), NEW rest,
         Unread(f, a, s, ps, fmt, ar, calls, rest), f = <<>>, ps # <<>>
  PROVE  Unread(FormatOf(Head(ps)), ArgsOf(Head(ps)), Says(Head(ps)), Tail(ps), fmt, ar, calls, rest)
<1> DEFINE h == Head(ps)
           t == Tail(ps)
<1>1. ps \in Seq(Legal) /\ LegalPieces(ps)
  BY DEF Unread
<1>2. h \in Legal /\ t \in Seq(Legal)
  BY <1>1, SayingFirst
<1>3. LegalPieces(t) /\ (FormatOf(h) = <<PERCENT>> => t = <<>>)
  BY <1>1, RestOfPieces
<1>4. /\ InRow(FormatF, ps) = FormatOf(h) \o InRow(FormatF, t)
      /\ InRow(ArgsF, ps) = ArgsOf(h) \o InRow(ArgsF, t)
      /\ Saying(ps) = Says(h) \o Saying(t)
  BY <1>1, SayingFirst
<1>5. a = <<>> /\ s = <<>>
  <2>1. Len(f) = 0
    OBVIOUS
  <2> QED
    BY <2>1 DEF Unread, PartRead
<1>6. /\ InRow(FormatF, ps) \in Seq(Char) /\ InRow(ArgsF, ps) \in Seq(Argument)
      /\ Saying(ps) \in Seq(Printable) /\ Saying(t) \in Seq(Printable)
      /\ Ahead(calls) \in Seq(Printable)
  <2>1. InRow(FormatF, ps) \in Seq(Char) /\ InRow(ArgsF, ps) \in Seq(Argument)
    BY <1>1, PieceMaps, InRowType
  <2>2. ps \in Seq(Sayable) /\ t \in Seq(Sayable)
    BY <1>1, <1>2, PieceMaps
  <2>3. Saying(ps) \in Seq(Printable) /\ Saying(t) \in Seq(Printable)
    BY <2>2, SayingConcat
  <2> QED
    BY <2>1, <2>3, AheadFirst
<1>7. PartRead(FormatOf(h), ArgsOf(h), Says(h)) /\ Says(h) \in Seq(Printable)
  BY <1>2, PieceRead, PartReadType
<1> HIDE DEF h, t
<1>8. fmt = InRow(FormatF, ps) /\ ar = InRow(ArgsF, ps)
  BY <1>5, <1>6, Unit DEF Unread
<1>9. rest = Saying(ps) \o Ahead(calls)
  <2>1. Saying(ps) \o Ahead(calls) \in Seq(Printable)
    BY <1>6, ConcatProperties
  <2> QED
    BY <1>5, <2>1, Unit DEF Unread
<1>10. rest = Says(h) \o (Saying(t) \o Ahead(calls))
  <2>1. /\ Says(h) \in Seq(Printable) /\ Saying(t) \in Seq(Printable)
        /\ Ahead(calls) \in Seq(Printable)
    BY <1>6, <1>7
  <2>2. (Says(h) \o Saying(t)) \o Ahead(calls) = Says(h) \o (Saying(t) \o Ahead(calls))
    BY <2>1, Associative
  <2> QED
    BY <1>4, <1>9, <2>2
<1> QED
  BY <1>2, <1>3, <1>4, <1>7, <1>8, <1>10 DEF Unread, h, t

Pending(fmt, ar, calls, rest) == \E f, a, s, ps : Unread(f, a, s, ps, fmt, ar, calls, rest)

LEMMA PendingType ==
  ASSUME NEW f, NEW a, NEW s, NEW ps, NEW fmt, NEW ar, NEW calls \in Seq(LegalCalls), NEW rest,
         Unread(f, a, s, ps, fmt, ar, calls, rest)
  PROVE  /\ f \in Seq(Char) /\ a \in Seq(Argument) /\ s \in Seq(Printable) /\ ps \in Seq(Legal)
         /\ InRow(FormatF, ps) \in Seq(Char) /\ InRow(ArgsF, ps) \in Seq(Argument)
         /\ Saying(ps) \o Ahead(calls) \in Seq(Printable)
         /\ fmt \in Seq(Char) /\ ar \in Seq(Argument) /\ rest \in Seq(Printable)
<1>1. f \in Seq(Char) /\ a \in Seq(Argument) /\ s \in Seq(Printable) /\ ps \in Seq(Legal)
  BY PartReadType DEF Unread
<1>2. InRow(FormatF, ps) \in Seq(Char) /\ InRow(ArgsF, ps) \in Seq(Argument)
  BY <1>1, PieceMaps, InRowType
<1>3. Saying(ps) \o Ahead(calls) \in Seq(Printable)
  <2>1. ps \in Seq(Sayable)
    BY <1>1, PieceMaps
  <2>2. Saying(ps) \in Seq(Printable) /\ Ahead(calls) \in Seq(Printable)
    BY <2>1, SayingConcat, AheadFirst
  <2> QED
    BY <2>2, ConcatProperties
<1>4. fmt \in Seq(Char)
  BY <1>1, <1>2, ConcatProperties DEF Unread
<1>5. ar \in Seq(Argument)
  BY <1>1, <1>2, ConcatProperties DEF Unread
<1>6. rest \in Seq(Printable)
  BY <1>1, <1>3, ConcatProperties DEF Unread
<1> QED
  BY <1>1, <1>2, <1>3, <1>4, <1>5, <1>6

\* Pieces without a format are passed over.
LEMMA ToNextPiece ==
  ASSUME NEW fmt, NEW ar, NEW calls \in Seq(LegalCalls), NEW rest,
         Pending(fmt, ar, calls, rest)
  PROVE  \E f, a, s, ps : /\ Unread(f, a, s, ps, fmt, ar, calls, rest)
                          /\ f # <<>> \/ ps = <<>>
<1> DEFINE Has(n) == \E f, a, s, ps : Unread(f, a, s, ps, fmt, ar, calls, rest) /\ Len(ps) = n
           N == {n \in Nat : Has(n)}
<1>1. N \in SUBSET Nat /\ N # {}
  <2>1. PICK f, a, s, ps : Unread(f, a, s, ps, fmt, ar, calls, rest)
    BY DEF Pending
  <2>2. Len(ps) \in Nat
    BY <2>1 DEF Unread
  <2> QED
    BY <2>1, <2>2
<1>2. PICK n \in N : \A l \in N : n <= l
  <2> HIDE DEF N
  <2> QED
    BY <1>1, LeastElement
<1>3. PICK f, a, s, ps : Unread(f, a, s, ps, fmt, ar, calls, rest) /\ Len(ps) = n
  BY <1>2
<1>4. ASSUME f = <<>>, ps # <<>> PROVE FALSE
  <2>1. Unread(FormatOf(Head(ps)), ArgsOf(Head(ps)), Says(Head(ps)), Tail(ps), fmt, ar, calls, rest)
    BY <1>3, <1>4, NextPiece
  <2>2. Len(Tail(ps)) = n - 1 /\ n - 1 \in Nat /\ n \in Nat
    <3>1. ps \in Seq(Legal)
      BY <1>3 DEF Unread
    <3> QED
      BY <1>3, <1>4, <3>1
  <2>3. n - 1 \in N
    BY <2>1, <2>2
  <2>4. n <= n - 1
    BY <1>2, <2>3
  <2> QED
    BY <2>2, <2>4
<1> QED
  BY <1>3, <1>4

LEMMA NothingPending ==
  ASSUME NEW calls \in Seq(LegalCalls)
  PROVE  /\ Pending(<<>>, <<>>, calls, Ahead(calls))
         /\ \A ar, rest : Pending(<<>>, ar, calls, rest) => ar = <<>> /\ rest = Ahead(calls)
<1>1. /\ InRow(FormatF, <<>>) = <<>> /\ InRow(ArgsF, <<>>) = <<>> /\ Saying(<<>>) = <<>>
      /\ Ahead(calls) \in Seq(Printable)
  BY InRowEmpty, AheadFirst DEF Saying
<1>2. /\ PartRead(<<>>, <<>>, <<>>) /\ <<>> # <<PERCENT>>
      /\ <<>> \in Seq(Legal) /\ LegalPieces(<<>>)
  BY DEF PartRead, LegalPieces
<1>3. <<>> \o (<<>> \o Ahead(calls)) = Ahead(calls)
  BY <1>1, Unit
<1>4. Pending(<<>>, <<>>, calls, Ahead(calls))
  <2>1. <<>> \o <<>> = <<>>
    OBVIOUS
  <2>2. Unread(<<>>, <<>>, <<>>, <<>>, <<>>, <<>>, calls, Ahead(calls))
    BY <1>1, <1>2, <1>3, <2>1 DEF Unread
  <2> QED
    BY <2>2 DEF Pending
<1>5. ASSUME NEW ar, NEW rest, Pending(<<>>, ar, calls, rest)
      PROVE  ar = <<>> /\ rest = Ahead(calls)
  <2>1. PICK f, a, s, ps : Unread(f, a, s, ps, <<>>, ar, calls, rest) /\ (f # <<>> \/ ps = <<>>)
    BY <1>5, ToNextPiece
  <2>2. f \in Seq(Char) /\ InRow(FormatF, ps) \in Seq(Char) /\ <<>> = f \o InRow(FormatF, ps)
    <3>1. f \in Seq(Char) /\ InRow(FormatF, ps) \in Seq(Char)
      BY <2>1, PendingType
    <3> QED
      BY <2>1, <3>1 DEF Unread
  <2>3. f = <<>>
    <3> DEFINE x == InRow(FormatF, ps)
    <3>1. Len(f \o x) = 0 /\ x \in Seq(Char)
      BY <2>2
    <3> HIDE DEF x
    <3>2. Len(f) + Len(x) = 0 /\ Len(f) \in Nat /\ Len(x) \in Nat
      BY <2>2, <3>1
    <3>3. Len(f) = 0
      BY <3>2
    <3> QED
      BY <2>2, <3>3
  <2>4. ps = <<>> /\ a = <<>> /\ s = <<>>
    <3>1. f # <<PERCENT>> /\ Len(f) = 0
      BY <2>3
    <3> QED
      BY <2>1, <2>3, <3>1 DEF Unread, PartRead
  <2>5. ar = <<>> \o <<>> /\ rest = <<>> \o (<<>> \o Ahead(calls))
    BY <1>1, <2>1, <2>4 DEF Unread
  <2> QED
    BY <1>3, <2>5
<1> QED
  BY <1>4, <1>5

LEMMA FirstAhead ==
  ASSUME NEW S, NEW x \in Seq(S), NEW y \in Seq(S), x # <<>>
  PROVE  /\ Head(x \o y) = Head(x) /\ Tail(x \o y) = Tail(x) \o y
         /\ Head(x) \in S /\ Tail(x) \in Seq(S) /\ <<Head(x)>> \o Tail(x) = x
<1>1. Head(x) \in S /\ Tail(x) \in Seq(S) /\ <<Head(x)>> \o Tail(x) = x
  OBVIOUS
<1>2. Head(x \o y) = Head(x)
  OBVIOUS
<1>3. Tail(x \o y) = Tail(x) \o y
  <2> DEFINE z == x \o y
             t == Tail(x)
             u == t \o y
             v == Tail(z)
  <2>1. /\ Len(x) \in Nat /\ Len(y) \in Nat /\ Len(x) >= 1
        /\ z \in Seq(S) /\ Len(z) = Len(x) + Len(y)
        /\ \A n \in 1..Len(z) : z[n] = IF n <= Len(x) THEN x[n] ELSE y[n - Len(x)]
    BY ConcatProperties
  <2>2. t \in Seq(S) /\ Len(t) = Len(x) - 1 /\ \A n \in 1..Len(t) : t[n] = x[n + 1]
    OBVIOUS
  <2> HIDE DEF z, t
  <2>3. /\ u \in Seq(S) /\ Len(u) = Len(t) + Len(y)
        /\ \A n \in 1..Len(u) : u[n] = IF n <= Len(t) THEN t[n] ELSE y[n - Len(t)]
    <3>1. t \in Seq(S) /\ y \in Seq(S)
      BY <2>2
    <3> QED
      BY <3>1, ConcatProperties
  <2>4. v \in Seq(S) /\ Len(v) = Len(z) - 1 /\ \A n \in 1..Len(v) : v[n] = z[n + 1]
    <3>1. z # <<>>
      BY <2>1
    <3> QED
      BY <2>1, <3>1
  <2> HIDE DEF u, v
  <2>5. Len(v) = Len(u)
    BY <2>1, <2>2, <2>3, <2>4
  <2>6. ASSUME NEW n \in 1..Len(v) PROVE v[n] = u[n]
    <3>1. n \in 1..Len(u) /\ n + 1 \in 1..Len(z) /\ v[n] = z[n + 1]
      BY <2>1, <2>4, <2>5
    <3>2. CASE n <= Len(t)
      BY <2>1, <2>2, <2>3, <3>1, <3>2
    <3>3. CASE ~(n <= Len(t))
      <4>1. ~(n + 1 <= Len(x)) /\ n - Len(t) = (n + 1) - Len(x)
        BY <2>1, <2>2, <3>1, <3>3
      <4>2. u[n] = y[n - Len(t)] /\ z[n + 1] = y[(n + 1) - Len(x)]
        BY <2>1, <2>3, <3>1, <3>3, <4>1
      <4> QED
        BY <3>1, <4>1, <4>2
    <3> QED
      BY <3>2, <3>3
  <2>7. v = u
    BY <2>3, <2>4, <2>5, <2>6, SeqEqual
  <2> QED
    BY <2>7 DEF z, t, u, v
<1> QED
  BY <1>1, <1>2, <1>3

LEMMA TwoAhead ==
  ASSUME NEW S, NEW b \in S, NEW c \in S, NEW y \in Seq(S)
  PROVE  /\ Head(<<b, c>> \o y) = b /\ (<<b, c>> \o y)[2] = c
         /\ Len(<<b, c>> \o y) > 1
         /\ SubSeq(<<b, c>> \o y, 3, Len(<<b, c>> \o y)) = y
<1> DEFINE x == <<b, c>>
           z == x \o y
           w == SubSeq(z, 3, Len(z))
<1>1. x \in Seq(S) /\ Len(x) = 2 /\ x[1] = b /\ x[2] = c
  OBVIOUS
<1> HIDE DEF x
<1>2. /\ z \in Seq(S) /\ Len(z) = 2 + Len(y) /\ Len(y) \in Nat
      /\ z[1] = b /\ z[2] = c
      /\ \A n \in 1..Len(y) : z[2 + n] = y[n]
  <2>1. /\ z \in Seq(S) /\ Len(z) = Len(x) + Len(y) /\ Len(y) \in Nat
        /\ \A n \in 1..(Len(x) + Len(y)) : z[n] = IF n <= Len(x) THEN x[n] ELSE y[n - Len(x)]
    <3>1. x \in Seq(S)
      BY <1>1
    <3> QED
      BY <3>1, ConcatProperties
  <2> HIDE DEF z
  <2>2. z[1] = b /\ z[2] = c
    <3>1. 1 \in 1..(Len(x) + Len(y)) /\ 2 \in 1..(Len(x) + Len(y))
      BY <1>1, <2>1
    <3> QED
      BY <1>1, <2>1, <3>1
  <2>3. ASSUME NEW n \in 1..Len(y) PROVE z[2 + n] = y[n]
    <3>1. 2 + n \in 1..(Len(x) + Len(y)) /\ ~(2 + n <= Len(x)) /\ (2 + n) - Len(x) = n
      BY <1>1, <2>1
    <3> QED
      BY <2>1, <3>1
  <2> QED
    BY <1>1, <2>1, <2>2, <2>3
<1> HIDE DEF z
<1>3. w \in Seq(S) /\ Len(w) = Len(y) /\ \A n \in 1..Len(y) : w[n] = z[2 + n]
  <2>1. \A n \in 3..Len(z) : n \in 1..Len(z)
    BY <1>2
  <2> QED
    BY <1>2, <2>1, SubSeqProperties
<1>4. w = y
  <2>1. \A n \in 1..Len(w) : w[n] = y[n]
    BY <1>2, <1>3
  <2> QED
    BY <1>3, <2>1, SeqEqual
<1>5. Head(z) = b
  BY <1>2
<1> QED
  BY <1>2, <1>4, <1>5 DEF x, z

\* out is the beginning of what was pending.
PutsOut(rest, out, fmt, ar, calls) ==
  /\ out \in Seq(Printable)
  /\ \E r \in Seq(Printable) : Pending(fmt, ar, calls, r) /\ rest = out \o r

\* A character that is no mark is read: it is the next to be printed.
LEMMA PlainRead ==
  ASSUME NEW fmt, NEW ar, NEW calls \in Seq(LegalCalls), NEW rest,
         Pending(fmt, ar, calls, rest), fmt # <<>>, Head(fmt) # PERCENT
  PROVE  PutsOut(rest, <<Head(fmt)>>, Tail(fmt), ar, calls)
<1>1. PICK f, a, s, ps : Unread(f, a, s, ps, fmt, ar, calls, rest) /\ (f # <<>> \/ ps = <<>>)
  BY ToNextPiece
<1> DEFINE F == InRow(FormatF, ps)
           R == Saying(ps) \o Ahead(calls)
<1>2. f \in Seq(Char) /\ F \in Seq(Char) /\ R \in Seq(Printable) /\ s \in Seq(Printable)
  BY <1>1, PendingType
<1>3. fmt = f \o F /\ rest = s \o R /\ PartRead(f, a, s)
  BY <1>1 DEF Unread
<1>4. f # <<>>
  <2>1. ASSUME f = <<>> PROVE FALSE
    <3>1. F = <<>>
      BY <1>1, <2>1, InRowEmpty
    <3> QED
      BY <1>3, <2>1, <3>1
  <2> QED
    BY <2>1
<1> HIDE DEF F
<1>5. Head(fmt) = Head(f) /\ Tail(fmt) = Tail(f) \o F /\ <<Head(f)>> \o Tail(f) = f
  <2>1. Head(f \o F) = Head(f) /\ Tail(f \o F) = Tail(f) \o F
    BY <1>2, <1>4
  <2>2. <<Head(f)>> \o Tail(f) = f
    BY <1>2, <1>4, FirstAhead
  <2> QED
    BY <1>3, <2>1, <2>2
<1>6. f \in Seq(Printable \ {PERCENT}) /\ a = <<>> /\ s = f
  <2>1. Head(f) # PERCENT
    BY <1>5
  <2> QED
    BY <1>3, <2>1 DEF PartRead
<1>7. /\ Head(f) \in Printable \ {PERCENT} /\ Tail(f) \in Seq(Printable \ {PERCENT})
      /\ Tail(f) \in Seq(Printable)
  BY <1>4, <1>6
<1>8. Tail(f) # <<PERCENT>>
  <2>1. Tail(f) # <<>> => Head(Tail(f)) # PERCENT
    BY <1>7
  <2>2. <<PERCENT>> # <<>> /\ Head(<<PERCENT>>) = PERCENT
    OBVIOUS
  <2> QED
    BY <2>1, <2>2, Zenon
<1> DEFINE r == Tail(f) \o R
<1>9. Unread(Tail(f), a, Tail(f), ps, Tail(fmt), ar, calls, r)
  <2>1. PartRead(Tail(f), a, Tail(f))
    BY <1>6, <1>7 DEF PartRead
  <2> QED
    BY <1>1, <1>5, <1>8, <2>1 DEF Unread, F
<1> HIDE DEF R
<1>10. r \in Seq(Printable) /\ rest = <<Head(f)>> \o r
  <2>1. <<Head(f)>> \in Seq(Printable)
    BY <1>7
  <2>2. (<<Head(f)>> \o Tail(f)) \o R = <<Head(f)>> \o (Tail(f) \o R)
    BY <1>2, <1>7, <2>1, Associative
  <2>3. rest = (<<Head(f)>> \o Tail(f)) \o R
    BY <1>3, <1>5, <1>6
  <2> QED
    BY <1>2, <1>7, <2>2, <2>3, ConcatProperties
<1>11. Pending(Tail(fmt), ar, calls, r)
  BY <1>9 DEF Pending
<1>12. <<Head(fmt)>> \in Seq(Printable) /\ rest = <<Head(fmt)>> \o r
  BY <1>5, <1>7, <1>10
<1> HIDE DEF r
<1> QED
  BY <1>10, <1>11, <1>12 DEF PutsOut

LEMMA FourOfTwo ==
  ASSUME NEW S, NEW b \in S, NEW c \in S
  PROVE  <<b, c>> \o <<b, c>> = <<b, c, b, c>>
<1> DEFINE x == <<b, c>>
           y == x \o x
           z == <<b, c, b, c>>
<1>1. x \in Seq(S) /\ Len(x) = 2 /\ x[1] = b /\ x[2] = c
  OBVIOUS
<1>2. z \in Seq(S) /\ Len(z) = 4 /\ z[1] = b /\ z[2] = c /\ z[3] = b /\ z[4] = c
  OBVIOUS
<1> HIDE DEF x, z
<1>3. y \in Seq(S) /\ Len(y) = 4 /\ y[1] = b /\ y[2] = c /\ y[3] = b /\ y[4] = c
  <2>1. /\ y \in Seq(S) /\ Len(y) = Len(x) + Len(x)
        /\ \A n \in 1..(Len(x) + Len(x)) : y[n] = IF n <= Len(x) THEN x[n] ELSE x[n - Len(x)]
    <3>1. x \in Seq(S)
      BY <1>1
    <3> QED
      BY <3>1, ConcatProperties
  <2> HIDE DEF y
  <2> QED
    BY <1>1, <2>1
<1> HIDE DEF y
<1>4. \A n \in 1..Len(y) : y[n] = z[n]
  BY <1>2, <1>3
<1> QED
  BY <1>2, <1>3, <1>4, SeqEqual DEF x, y, z

\* What ReadConversion makes of a format and its arguments, and puts out.
Reads(fmt, ar, fmt2, ar2, out) ==
  /\ Len(fmt) = 1 => fmt2 = <<>> /\ ar2 = ar /\ out = <<>>
  /\ Len(fmt) > 1 =>
       /\ fmt2 = SubSeq(fmt, 3, Len(fmt))
       /\ fmt[2] \in Conversions =>
            out = Converted(fmt[2], Head(ar)) /\ ar2 = Tail(ar)
       /\ fmt[2] \notin Conversions =>
            out = (IF fmt[2] = PERCENT THEN <<PERCENT>> ELSE <<>>) /\ ar2 = ar

LEMMA ConversionRead ==
  ASSUME NEW fmt, NEW ar, NEW calls \in Seq(LegalCalls), NEW rest,
         Pending(fmt, ar, calls, rest), fmt # <<>>, Head(fmt) = PERCENT,
         NEW fmt2, NEW ar2, NEW out, Reads(fmt, ar, fmt2, ar2, out)
  PROVE  PutsOut(rest, out, fmt2, ar2, calls)
<1>1. PICK f, a, s, ps : Unread(f, a, s, ps, fmt, ar, calls, rest) /\ (f # <<>> \/ ps = <<>>)
  BY ToNextPiece
<1> DEFINE F == InRow(FormatF, ps)
           A == InRow(ArgsF, ps)
           R == Saying(ps) \o Ahead(calls)
           Goal == PutsOut(rest, out, fmt2, ar2, calls)
<1>2. /\ f \in Seq(Char) /\ a \in Seq(Argument) /\ s \in Seq(Printable)
      /\ F \in Seq(Char) /\ A \in Seq(Argument) /\ R \in Seq(Printable)
  BY <1>1, PendingType
<1>3. fmt = f \o F /\ ar = a \o A /\ rest = s \o R /\ PartRead(f, a, s)
  BY <1>1 DEF Unread
<1>4. f # <<>>
  <2>1. ASSUME f = <<>> PROVE FALSE
    <3>1. F = <<>>
      BY <1>1, <2>1, InRowEmpty
    <3> QED
      BY <1>3, <2>1, <3>1
  <2> QED
    BY <2>1
\* It is enough to say what is left of the piece.
<1>5. ASSUME NEW f2, NEW a2, NEW s2, PartRead(f2, a2, s2), f2 = <<PERCENT>> => ps = <<>>,
             fmt2 = f2 \o F, ar2 = a2 \o A, s = out \o s2, out \in Seq(Printable)
      PROVE  Goal
  <2> DEFINE r == s2 \o R
  <2>1. Unread(f2, a2, s2, ps, fmt2, ar2, calls, r)
    BY <1>1, <1>5 DEF Unread
  <2>2. Pending(fmt2, ar2, calls, r)
    BY <2>1 DEF Pending
  <2>3. s2 \in Seq(Printable)
    BY <1>5, PartReadType
  <2> HIDE DEF R
  <2>4. r \in Seq(Printable)
    BY <1>2, <2>3, ConcatProperties
  <2>5. (out \o s2) \o R = out \o r
    <3>1. out \in Seq(Printable) /\ s2 \in Seq(Printable) /\ R \in Seq(Printable)
      BY <1>2, <1>5, <2>3
    <3> QED
      BY <3>1, Associative
  <2> QED
    BY <1>3, <1>5, <2>2, <2>4, <2>5 DEF PutsOut
<1> HIDE DEF F, A, R, Goal
<1>0. Len(fmt) \in Nat
  BY <1>2, <1>3
<1>6. PartRead(<<>>, <<>>, <<>>) /\ <<>> # <<PERCENT>>
  BY DEF PartRead
<1>7. Head(f) = PERCENT
  BY <1>2, <1>3, <1>4, FirstAhead
<1>8. ASSUME f = <<PERCENT>> PROVE Goal
  <2>1. ps = <<>>
    BY <1>1, <1>8 DEF Unread
  <2>2. F = <<>> /\ Len(f) = 1
    BY <1>8, <2>1, InRowEmpty DEF F
  <2>3. Len(fmt) = 1
    BY <1>2, <1>3, <2>2, Unit
  <2>4. a = <<>> /\ s = <<>>
    <3>1. Len(<<PERCENT>>) = 1 /\ Head(<<PERCENT>>) = PERCENT /\ <<PERCENT>>[1] = PERCENT
      OBVIOUS
    <3>2. f \notin Seq(Printable \ {PERCENT})
      BY <1>8, <3>1, ElementOfSeq
    <3> QED
      BY <1>3, <1>8, <3>2 DEF PartRead
  <2>5. fmt2 = <<>> /\ ar2 = ar /\ out = <<>>
    BY <2>3 DEF Reads
  <2>6. fmt2 = <<>> \o F /\ ar2 = <<>> \o A /\ s = out \o <<>> /\ out \in Seq(Printable)
    <3>1. <<>> \o <<>> = <<>> /\ <<>> \in Seq(Printable)
      OBVIOUS
    <3> QED
      BY <1>3, <2>2, <2>4, <2>5, <3>1
  <2>7. <<>> = <<PERCENT>> => ps = <<>>
    BY <1>6
  <2> QED
    BY <1>5, <1>6, <2>6, <2>7
\* A mark and the character after it.
<1> DEFINE Two(c) == /\ Len(fmt) > 1 /\ fmt[2] = c
                     /\ SubSeq(fmt, 3, Len(fmt)) = F
<1>9. ASSUME NEW c \in Char, f = <<PERCENT, c>> PROVE Two(c)
  <2>1. PERCENT \in Char
    BY Characters
  <2> QED
    BY <1>2, <1>3, <1>9, <2>1, TwoAhead
<1>10. ASSUME NEW c \in Char \ Conversions, f = <<PERCENT, c>>,
              a = <<>>, s = (IF c = PERCENT THEN <<PERCENT>> ELSE <<>>)
       PROVE  Goal
  <2>1. Two(c)
    BY <1>9, <1>10
  <2>2. fmt2 = F /\ ar2 = ar /\ out = s
    BY <1>0, <1>10, <2>1 DEF Reads
  <2>3. fmt2 = <<>> \o F /\ ar2 = <<>> \o A /\ s = out \o <<>> /\ out \in Seq(Printable)
    BY <1>2, <1>3, <1>10, <2>2, Unit
  <2> QED
    BY <1>5, <1>6, <2>3
<1>11. ASSUME NEW c \in Conversions, NEW x \in Argument, f = <<PERCENT, c>>,
              a = <<x>>, s = Converted(c, x), s \in Seq(Printable)
       PROVE  Goal
  <2>1. Two(c)
    BY <1>9, <1>11, Characters
  <2>2. Head(ar) = x /\ Tail(ar) = A
    <3>1. Head(<<x>>) = x /\ Tail(<<x>>) = <<>> /\ <<x>> # <<>> /\ <<x>> \in Seq(Argument)
      BY <1>11
    <3>2. Head(ar) = Head(a) /\ Tail(ar) = Tail(a) \o A
      BY <1>2, <1>3, <1>11, <3>1, FirstAhead
    <3> QED
      BY <1>2, <1>11, <3>1, <3>2, Unit
  <2>3. fmt2 = F /\ ar2 = A /\ out = s
    BY <1>0, <1>11, <2>1, <2>2 DEF Reads
  <2>4. fmt2 = <<>> \o F /\ ar2 = <<>> \o A /\ s = out \o <<>> /\ out \in Seq(Printable)
    BY <1>2, <2>3, Unit
  <2> QED
    BY <1>5, <1>6, <2>4
<1>12. ASSUME NEW x \in Argument, NEW y \in Argument,
              f = <<PERCENT, CH_x, PERCENT, CH_x>>, a = <<x, y>>,
              s = Converted(CH_x, x) \o Converted(CH_x, y),
              Converted(CH_x, x) \in Seq(Printable), Converted(CH_x, y) \in Seq(Printable)
       PROVE  Goal
  <2> DEFINE half == <<PERCENT, CH_x>>
  <2>1. half \in Seq(Char) /\ CH_x \in Conversions /\ CH_x \in Char /\ PERCENT \in Char
    BY Characters DEF Conversions
  <2>2. half \o half = f
    BY <1>12, <2>1, FourOfTwo
  <2>3. fmt = half \o (half \o F)
    <3>1. (half \o half) \o F = half \o (half \o F)
      BY <1>2, <2>1, CharactersAssociative
    <3> QED
      BY <1>3, <2>2, <3>1
  <2>4. half \o F \in Seq(Char)
    BY <1>2, <2>1, ConcatProperties
  <2>5. Len(fmt) > 1 /\ fmt[2] = CH_x /\ SubSeq(fmt, 3, Len(fmt)) = half \o F
    BY <2>1, <2>3, <2>4, TwoAhead
  <2>6. Head(ar) = x /\ Tail(ar) = <<y>> \o A
    <3>1. Head(<<x, y>>) = x /\ Tail(<<x, y>>) = <<y>> /\ <<x, y>> # <<>>
      OBVIOUS
    <3> QED
      BY <1>2, <1>3, <1>12, <3>1, FirstAhead
  <2>7. fmt2 = half \o F /\ ar2 = <<y>> \o A /\ out = Converted(CH_x, x)
    BY <1>0, <2>1, <2>5, <2>6 DEF Reads
  <2>8. PartRead(half, <<y>>, Converted(CH_x, y))
    BY <1>12, <2>1 DEF PartRead
  <2>9. half # <<PERCENT>>
    OBVIOUS
  <2> HIDE DEF half
  <2> QED
    BY <1>5, <1>12, <2>7, <2>8, <2>9
<1>13. ASSUME f \in Seq(Printable \ {PERCENT}), a = <<>>, s = f PROVE Goal
  BY <1>4, <1>7, <1>13
<1>14. Goal
  <2>1. PartRead(f, a, s)
    BY <1>3
  <2> QED
    <3>1. CASE \E c \in Char \ Conversions :
                 f = <<PERCENT, c>> /\ a = <<>> /\ s = (IF c = PERCENT THEN <<PERCENT>> ELSE <<>>)
      BY <3>1, <1>10
    <3>2. CASE \E c \in Conversions, x \in Argument :
                 f = <<PERCENT, c>> /\ a = <<x>> /\ s = Converted(c, x) /\ s \in Seq(Printable)
      BY <3>2, <1>11
    <3>3. CASE \E x, y \in Argument :
                 /\ f = <<PERCENT, CH_x, PERCENT, CH_x>> /\ a = <<x, y>>
                 /\ s = Converted(CH_x, x) \o Converted(CH_x, y)
                 /\ Converted(CH_x, x) \in Seq(Printable)
                 /\ Converted(CH_x, y) \in Seq(Printable)
      BY <3>3, <1>12
    <3> QED
      BY <2>1, <1>8, <1>13, <3>1, <3>2, <3>3 DEF PartRead
<1> QED
  BY <1>14 DEF Goal

------------------------------------------------------------------------------
(***************************************************************************)
(* What has been sent, what the controller holds, what serial_write has    *)
(* still to put, what is left of the format, and the calls not begun yet   *)
(* say, one after the other, what is meant.                                *)
(***************************************************************************)

\* sent has gone out behind what the boot loader left, and rest is to be read.
Carried(sent, rest) ==
  /\ Pending(format, args, script, rest)
  /\ \E left \in Leftovers : uart.line = left \o sent
  /\ sent \o (uart.shift \o (uart.tx \o (text \o rest))) = Meant

Carrying ==
  /\ uart.shift \in Seq(Printable) /\ uart.tx \in Seq(Printable)
  /\ \E sent, rest \in Seq(Printable) : Carried(sent, rest)

TextInv ==
  /\ script \in Seq(LegalCalls)
  /\ text \in Seq(Printable)
  /\ step # "ready" => /\ text = <<>> /\ format = <<>> /\ args = <<>>
                       /\ Meant = Ahead(script)
  /\ step = "ready" => Carrying

Inv == PortInv /\ TextInv

LEMMA MeantStays == said' = said => Meant' = Meant
BY DEF Meant

LEMMA InitTextInv == Init => TextInv
<1> SUFFICES ASSUME Init PROVE TextInv
  OBVIOUS
<1>1. /\ script \in Scripts /\ step = "init"
      /\ text = <<>> /\ format = <<>> /\ args = <<>>
      /\ said = FlattenSeq([n \in DOMAIN script |-> script[n].pieces])
  BY DEF Init
<1>2. script \in Seq(LegalCalls)
  <2>1. script \in Seq(Calls)
    BY <1>1, ConsoleAssumption
  <2>2. \A n \in 1..Len(script) : script[n] \in LegalCalls
    BY <1>1, <2>1, ConsoleProofAssumption DEF LegalCalls
  <2> QED
    BY <2>1, <2>2
<1>3. said = InRow(PiecesF, script)
  <2>1. \A n \in DOMAIN script : script[n] \in LegalCalls
    BY <1>2
  <2>2. Mapped(PiecesF, script) = [n \in DOMAIN script |-> script[n].pieces]
    BY <2>1 DEF Mapped, PiecesF
  <2> QED
    BY <1>1, <2>2 DEF InRow
<1>4. said \in Seq(Sayable)
  <2>1. Maps(PiecesF, LegalCalls, Seq(Sayable))
    BY CallSays DEF Maps, PiecesF
  <2> QED
    BY <1>2, <1>3, <2>1, InRowType
<1>5. Meant = Ahead(script)
  BY <1>3, <1>4, JoinedInRow DEF Meant, Ahead
<1>6. text \in Seq(Printable)
  BY <1>1
<1> QED
  BY <1>1, <1>2, <1>5, <1>6 DEF TextInv

(* Until serial_init is through, nothing is printed.                         *)
LEMMA QuietKeepsText ==
  ASSUME TextInv, step # "ready", step' # "ready",
         UNCHANGED <<script, format, args, text, said>>
  PROVE  TextInv'
<1>1. Meant' = Meant
  BY MeantStays
<1> QED
  BY <1>1 DEF TextInv, Ahead

LEMMA NormalModeKeepsText ==
  ASSUME PortInv, TextInv, NormalMode
  PROVE  TextInv'
<1>1. /\ step = "normal" /\ step' = "ready"
      /\ UNCHANGED <<script, format, args, text, said>>
      /\ uart' = outb(uart, 4, 15)
  BY DEF NormalMode
<1>2. /\ uart \in Uart /\ Len(uart.tx) <= FifoSize
      /\ uart.tx = <<>> /\ uart.shift = <<>> /\ uart.line \in Leftovers
  BY <1>1 DEF PortInv, Fits, Received
<1>3. uart'.tx = <<>> /\ uart'.shift = <<>> /\ uart'.line = uart.line
  <2>1. 15 \in Byte /\ 4 \in 0..4
    BY DEF Byte
  <2>2. Effect(uart, 4, 15, uart')
    BY <1>1, <1>2, <2>1, OutbEffect
  <2> QED
    BY <1>2, <2>2 DEF Effect
<1>4. /\ script \in Seq(LegalCalls) /\ text = <<>> /\ format = <<>> /\ args = <<>>
      /\ Meant = Ahead(script)
  BY <1>1 DEF TextInv
<1> PICK rest : rest = Ahead(script)
  OBVIOUS
<1>5. rest \in Seq(Printable) /\ <<>> \in Seq(Printable) /\ Pending(<<>>, <<>>, script, rest)
  BY <1>4, AheadFirst, NothingPending
<1>6. uart.line = uart.line \o <<>>
  BY <1>2 DEF Uart
<1>7. <<>> \o (<<>> \o (<<>> \o (<<>> \o rest))) = rest
  BY <1>5, Unit
<1>8. Meant' = Meant
  BY <1>1, MeantStays
<1>9. Carried(<<>>, rest)'
  <2>1. Pending(format', args', script', rest)
    BY <1>1, <1>4, <1>5
  <2>2. \E left \in Leftovers : uart'.line = left \o <<>>
    BY <1>2, <1>3, <1>6
  <2>3. <<>> \o (uart'.shift \o (uart'.tx \o (text' \o rest))) = Meant'
    BY <1>1, <1>3, <1>4, <1>7, <1>8
  <2> QED
    BY <2>1, <2>2, <2>3 DEF Carried
<1>10. Carrying'
  BY <1>3, <1>5, <1>9 DEF Carrying
<1> QED
  BY <1>1, <1>4, <1>5, <1>10 DEF TextInv

\* Between two calls nothing is left of the one before.
LEMMA BetweenCalls ==
  ASSUME TextInv, step = "ready", text = <<>>, format = <<>>, script # <<>>
  PROVE  /\ uart.shift \in Seq(Printable) /\ uart.tx \in Seq(Printable)
         /\ Head(script) \in LegalCalls /\ Tail(script) \in Seq(LegalCalls)
         /\ args = <<>>
         /\ \E sent \in Seq(Printable) :
              /\ \E left \in Leftovers : uart.line = left \o sent
              /\ sent \o (uart.shift \o (uart.tx \o
                   (Saying(Head(script).pieces) \o Ahead(Tail(script))))) = Meant
<1>1. PICK sent \in Seq(Printable), rest \in Seq(Printable) : Carried(sent, rest)
  BY DEF TextInv, Carrying
<1>2. script \in Seq(LegalCalls) /\ uart.shift \in Seq(Printable) /\ uart.tx \in Seq(Printable)
  BY DEF TextInv, Carrying
<1>3. args = <<>> /\ rest = Ahead(script)
  <2>1. Pending(<<>>, args, script, rest)
    BY <1>1 DEF Carried
  <2> QED
    BY <1>2, <2>1, NothingPending
<1>4. /\ Head(script) \in LegalCalls /\ Tail(script) \in Seq(LegalCalls)
      /\ Ahead(script) = Saying(Head(script).pieces) \o Ahead(Tail(script))
  BY <1>2, AheadFirst
<1>5. text \o rest = rest
  BY <1>1, Unit
<1>6. /\ \E left \in Leftovers : uart.line = left \o sent
      /\ sent \o (uart.shift \o (uart.tx \o rest)) = Meant
  BY <1>1, <1>5 DEF Carried
<1> QED
  BY <1>2, <1>3, <1>4, <1>6

LEMMA WriteKeepsText ==
  ASSUME TextInv, serial_write
  PROVE  TextInv'
<1>1. /\ step = "ready" /\ text = <<>> /\ format = <<>> /\ script # <<>>
      /\ Head(script).fn = "write" /\ script' = Tail(script)
      /\ UNCHANGED <<uart, step, said, format, args>>
      /\ text' = Head(script).pieces[1].value
  BY DEF serial_write, NextCall
<1> DEFINE call == Head(script)
<1>2. /\ uart.shift \in Seq(Printable) /\ uart.tx \in Seq(Printable)
      /\ call \in LegalCalls /\ Tail(script) \in Seq(LegalCalls) /\ args = <<>>
  BY <1>1, BetweenCalls
<1>3. PICK sent \in Seq(Printable) :
        /\ \E left \in Leftovers : uart.line = left \o sent
        /\ sent \o (uart.shift \o (uart.tx \o (Saying(call.pieces) \o Ahead(Tail(script))))) = Meant
  BY <1>1, BetweenCalls
<1>4. Saying(call.pieces) = text' /\ text' \in Seq(Printable)
  BY <1>1, <1>2, CallSays
<1>5. PICK rest : rest = Ahead(Tail(script))
  OBVIOUS
<1>6. rest \in Seq(Printable) /\ Pending(<<>>, <<>>, Tail(script), rest)
  BY <1>2, <1>5, AheadFirst, NothingPending
<1>7. Meant' = Meant
  BY <1>1, MeantStays
<1> HIDE DEF call
<1>8. Carried(sent, rest)'
  <2>1. Pending(format', args', script', rest)
    BY <1>1, <1>2, <1>6
  <2>2. sent \o (uart'.shift \o (uart'.tx \o (text' \o rest))) = Meant'
    BY <1>1, <1>3, <1>4, <1>5, <1>7
  <2>3. \E left \in Leftovers : uart'.line = left \o sent
    BY <1>1, <1>3
  <2> QED
    BY <2>1, <2>2, <2>3 DEF Carried
<1>9. Carrying'
  BY <1>1, <1>2, <1>6, <1>8 DEF Carrying
<1> QED
  BY <1>1, <1>2, <1>4, <1>9 DEF TextInv

LEMMA PrintfKeepsText ==
  ASSUME TextInv, serial_printf
  PROVE  TextInv'
<1>1. /\ step = "ready" /\ text = <<>> /\ format = <<>> /\ script # <<>>
      /\ Head(script).fn = "printf" /\ script' = Tail(script)
      /\ UNCHANGED <<uart, step, said, text>>
      /\ format' = Joined(FormatOf, Head(script).pieces)
      /\ args' = Joined(ArgsOf, Head(script).pieces)
  BY DEF serial_printf, NextCall
<1> DEFINE call == Head(script)
           calls == Tail(script)
           ps == call.pieces
<1>2. /\ uart.shift \in Seq(Printable) /\ uart.tx \in Seq(Printable)
      /\ call \in LegalCalls /\ calls \in Seq(LegalCalls) /\ args = <<>>
  BY <1>1, BetweenCalls
<1>3. PICK sent \in Seq(Printable) :
        /\ \E left \in Leftovers : uart.line = left \o sent
        /\ sent \o (uart.shift \o (uart.tx \o (Saying(ps) \o Ahead(calls)))) = Meant
  BY <1>1, BetweenCalls
<1>4. ps \in Seq(Legal) /\ LegalPieces(ps) /\ ps \in Seq(Sayable)
  BY <1>1, <1>2, CallSays
<1>5. format' = InRow(FormatF, ps) /\ args' = InRow(ArgsF, ps)
  BY <1>1, <1>4, JoinedInRow
<1>6. PICK rest : rest = Saying(ps) \o Ahead(calls)
  OBVIOUS
<1> HIDE DEF ps, call, calls
<1>7. rest \in Seq(Printable)
  <2>1. Saying(ps) \in Seq(Printable) /\ Ahead(calls) \in Seq(Printable)
    BY <1>2, <1>4, SayingConcat, AheadFirst
  <2> QED
    BY <1>6, <2>1, ConcatProperties
<1>8. Pending(format', args', calls, rest)
  <2>1. PartRead(<<>>, <<>>, <<>>) /\ <<>> # <<PERCENT>>
    BY DEF PartRead
  <2>2. /\ InRow(FormatF, ps) \in Seq(Char) /\ InRow(ArgsF, ps) \in Seq(Argument)
    BY <1>4, PieceMaps, InRowType
  <2>3. format' = <<>> \o InRow(FormatF, ps) /\ args' = <<>> \o InRow(ArgsF, ps)
    BY <1>5, <2>2, Unit
  <2>4. rest = <<>> \o (Saying(ps) \o Ahead(calls))
    BY <1>6, <1>7, Unit
  <2>5. Unread(<<>>, <<>>, <<>>, ps, format', args', calls, rest)
    BY <1>4, <2>1, <2>3, <2>4 DEF Unread
  <2> QED
    BY <2>5 DEF Pending
<1>9. Meant' = Meant
  BY <1>1, MeantStays
<1>10. text' = <<>> /\ text' \o rest = rest
  BY <1>1, <1>7, Unit
<1>11. Carried(sent, rest)'
  <2>1. Pending(format', args', script', rest)
    BY <1>1, <1>8 DEF calls
  <2>2. sent \o (uart'.shift \o (uart'.tx \o (text' \o rest))) = Meant'
    BY <1>1, <1>3, <1>6, <1>9, <1>10
  <2>3. \E left \in Leftovers : uart'.line = left \o sent
    BY <1>1, <1>3
  <2> QED
    BY <2>1, <2>2, <2>3 DEF Carried
<1>12. Carrying'
  BY <1>1, <1>2, <1>7, <1>11 DEF Carrying
<1>13. script' \in Seq(LegalCalls) /\ text' \in Seq(Printable)
  BY <1>1, <1>2, <1>10 DEF calls
<1> QED
  BY <1>1, <1>12, <1>13 DEF TextInv

\* Reading puts out what it takes from the format.
LEMMA ReadingKeepsText ==
  ASSUME TextInv, step = "ready", text = <<>>,
         UNCHANGED <<uart, step, script, said>>, text' \in Seq(Printable),
         \A rest \in Seq(Printable) :
           Pending(format, args, script, rest) =>
             \E r \in Seq(Printable) : Pending(format', args', script, r) /\ rest = text' \o r
  PROVE  TextInv'
<1>1. PICK sent \in Seq(Printable), rest \in Seq(Printable) : Carried(sent, rest)
  BY DEF TextInv, Carrying
<1>2. PICK r \in Seq(Printable) : Pending(format', args', script, r) /\ rest = text' \o r
  BY <1>1 DEF Carried
<1>3. text \o rest = text' \o r
  <2>1. <<>> \o rest = rest
    BY <1>1, Unit
  <2> QED
    BY <1>2, <2>1
<1>4. Meant' = Meant
  BY MeantStays
<1>5. Carried(sent, r)'
  <2>1. sent \o (uart'.shift \o (uart'.tx \o (text' \o r))) = Meant'
    BY <1>1, <1>3, <1>4 DEF Carried
  <2>2. \E left \in Leftovers : uart'.line = left \o sent
    BY <1>1 DEF Carried
  <2>3. Pending(format', args', script', r)
    BY <1>2
  <2> QED
    BY <2>1, <2>2, <2>3 DEF Carried
<1>6. Carrying'
  BY <1>5 DEF TextInv, Carrying
<1> QED
  BY <1>6 DEF TextInv

LEMMA ReadPlainKeepsText ==
  ASSUME TextInv, ReadPlain
  PROVE  TextInv'
<1>1. /\ step = "ready" /\ text = <<>> /\ format # <<>> /\ Head(format) # PERCENT
      /\ text' = <<Head(format)>> /\ format' = Tail(format)
      /\ UNCHANGED <<uart, step, k, script, args, said>>
  BY DEF ReadPlain, Reading
<1>2. script \in Seq(LegalCalls)
  BY DEF TextInv
<1>3. ASSUME NEW rest \in Seq(Printable), Pending(format, args, script, rest)
      PROVE  PutsOut(rest, text', format', args', script)
  <2>1. format # <<>> /\ Head(format) # PERCENT
    BY <1>1
  <2>2. Pending(format, args, script, rest)
    BY <1>3
  <2>3. PutsOut(rest, <<Head(format)>>, Tail(format), args, script)
    BY <1>2, <2>1, <2>2, PlainRead
  <2> QED
    BY <1>1, <2>3
<1>4. text' \in Seq(Printable)
  <2>1. \E rest \in Seq(Printable) : Pending(format, args, script, rest)
    BY <1>1 DEF TextInv, Carrying, Carried
  <2> QED
    BY <1>3, <2>1 DEF PutsOut
<1>5. \A rest \in Seq(Printable) :
        Pending(format, args, script, rest) =>
          \E r \in Seq(Printable) : Pending(format', args', script, r) /\ rest = text' \o r
  BY <1>1, <1>3 DEF PutsOut
<1>9. UNCHANGED <<uart, step, script, said>>
  BY <1>1
<1> QED
  BY <1>1, <1>4, <1>5, <1>9, ReadingKeepsText

LEMMA ReadConversionKeepsText ==
  ASSUME TextInv, ReadConversion
  PROVE  TextInv'
<1>1. /\ step = "ready" /\ text = <<>> /\ format # <<>> /\ Head(format) = PERCENT
      /\ UNCHANGED <<uart, step, k, script, said>>
  BY DEF ReadConversion, Reading
<1>2. script \in Seq(LegalCalls)
  BY DEF TextInv
<1>3. \E rest \in Seq(Printable) : Pending(format, args, script, rest)
  BY <1>1 DEF TextInv, Carrying, Carried
<1>4. Len(format) \in Nat
  BY <1>2, <1>3, PendingType DEF Pending
<1>5. Reads(format, args, format', args', text')
  <2>1. CASE Len(format) = 1
    BY <1>1, <1>4, <2>1 DEF ReadConversion, Reads
  <2>2. CASE Len(format) > 1 /\ format[2] \in Conversions
    BY <1>1, <1>4, <2>2 DEF ReadConversion, Reads, Conversions
  <2>3. CASE ~(Len(format) = 1) /\ ~(Len(format) > 1 /\ format[2] \in Conversions)
    BY <1>1, <1>4, <2>3 DEF ReadConversion, Reads, Conversions
  <2> QED
    BY <2>1, <2>2, <2>3
<1>6. ASSUME NEW rest \in Seq(Printable), Pending(format, args, script, rest)
      PROVE  /\ text' \in Seq(Printable)
             /\ \E r \in Seq(Printable) :
                  Pending(format', args', script, r) /\ rest = text' \o r
  <2>1. format # <<>> /\ Head(format) = PERCENT
    BY <1>1
  <2>2. Pending(format, args, script, rest)
    BY <1>6
  <2> QED
    <3>1. PutsOut(rest, text', format', args', script)
      BY <1>2, <1>5, <2>1, <2>2, ConversionRead
    <3> QED
      BY <3>1 DEF PutsOut
<1>7. text' \in Seq(Printable)
  BY <1>3, <1>6
<1>8. \A rest \in Seq(Printable) :
        Pending(format, args, script, rest) =>
          \E r \in Seq(Printable) : Pending(format', args', script, r) /\ rest = text' \o r
  BY <1>6
<1>9. UNCHANGED <<uart, step, script, said>>
  BY <1>1
<1> QED
  BY <1>1, <1>7, <1>8, <1>9, ReadingKeepsText

(* A character moves on, from the text to the buffer, from there to the      *)
(* register it is shifted out of, and from there to the line.                *)
LEMMA MovingKeepsText ==
  ASSUME TextInv, step = "ready", UNCHANGED <<step, script, format, args, said>>,
         text' \in Seq(Printable), uart'.shift \in Seq(Printable), uart'.tx \in Seq(Printable),
         \A sent, rest \in Seq(Printable) : \E now \in Seq(Printable) :
           /\ \A left \in Leftovers : uart.line = left \o sent => uart'.line = left \o now
           /\ now \o (uart'.shift \o (uart'.tx \o (text' \o rest))) =
                sent \o (uart.shift \o (uart.tx \o (text \o rest)))
  PROVE  TextInv'
<1>1. PICK sent \in Seq(Printable), rest \in Seq(Printable) : Carried(sent, rest)
  BY DEF TextInv, Carrying
<1>2. PICK now \in Seq(Printable) :
        /\ \A left \in Leftovers : uart.line = left \o sent => uart'.line = left \o now
        /\ now \o (uart'.shift \o (uart'.tx \o (text' \o rest))) =
             sent \o (uart.shift \o (uart.tx \o (text \o rest)))
  OBVIOUS
<1>3. Meant' = Meant
  BY MeantStays
<1>4. Carried(now, rest)'
  <2>1. now \o (uart'.shift \o (uart'.tx \o (text' \o rest))) = Meant'
    BY <1>1, <1>2, <1>3 DEF Carried
  <2>2. \E left \in Leftovers : uart'.line = left \o now
    BY <1>1, <1>2 DEF Carried
  <2>3. Pending(format', args', script', rest)
    BY <1>1 DEF Carried
  <2> QED
    BY <2>1, <2>2, <2>3 DEF Carried
<1>5. Carrying'
  BY <1>4 DEF Carrying
<1> QED
  BY <1>5 DEF TextInv

LEMMA PutcharKeepsText ==
  ASSUME PortInv, TextInv, serial_putchar
  PROVE  step = "ready" /\ TextInv'
<1>1. text # <<>> /\ text' = Tail(text) /\ UNCHANGED <<step, k, script, format, args, said>>
  BY DEF serial_putchar
<1>2. step = "ready"
  BY <1>1 DEF TextInv
<1>3. text \in Seq(Printable) /\ uart \in Uart
  BY DEF TextInv, PortInv
<1>4. uart' = [uart EXCEPT !.tx = <<Head(text)>>] /\ uart.tx = <<>>
  BY <1>2, <1>3, PutcharKeepsPorts
<1>5. uart'.tx = <<Head(text)>> /\ uart'.shift = uart.shift /\ uart'.line = uart.line
  BY <1>3, <1>4 DEF Uart
<1>6. /\ Head(text) \in Printable /\ text' \in Seq(Printable) /\ text = <<Head(text)>> \o text'
      /\ uart'.tx \in Seq(Printable) /\ uart'.shift \in Seq(Printable)
  <2>1. Head(text) \in Printable /\ Tail(text) \in Seq(Printable) /\ text = <<Head(text)>> \o Tail(text)
    BY <1>1, <1>3, FirstAhead
  <2>2. uart.shift \in Seq(Printable)
    BY <1>2 DEF TextInv, Carrying
  <2> QED
    BY <1>1, <1>5, <2>1, <2>2
<1>7. ASSUME NEW sent \in Seq(Printable), NEW rest \in Seq(Printable)
      PROVE  sent \o (uart'.shift \o (uart'.tx \o (text' \o rest))) =
               sent \o (uart.shift \o (uart.tx \o (text \o rest)))
  <2>1. text \o rest = uart'.tx \o (text' \o rest)
    <3>1. text = uart'.tx \o text'
      BY <1>5, <1>6
    <3>2. (uart'.tx \o text') \o rest = uart'.tx \o (text' \o rest)
      BY <1>6, Associative
    <3> QED
      BY <3>1, <3>2
  <2>2. uart.tx \o (text \o rest) = text \o rest
    <3>1. text \o rest \in Seq(Printable)
      BY <1>3, ConcatProperties
    <3> QED
      BY <1>4, <3>1, Unit
  <2> QED
    BY <1>5, <2>1, <2>2
<1>8. \A sent, rest \in Seq(Printable) : \E now \in Seq(Printable) :
        /\ \A left \in Leftovers : uart.line = left \o sent => uart'.line = left \o now
        /\ now \o (uart'.shift \o (uart'.tx \o (text' \o rest))) =
             sent \o (uart.shift \o (uart.tx \o (text \o rest)))
  BY <1>5, <1>7
<1>9. UNCHANGED <<step, script, format, args, said>>
  BY <1>1
<1> QED
  BY <1>2, <1>6, <1>8, <1>9, MovingKeepsText

LEMMA ShiftKeepsText ==
  ASSUME PortInv, TextInv, Shift, UNCHANGED cpu_vars
  PROVE  TextInv'
<1>1. /\ uart.shift = <<>> /\ uart.tx # <<>>
      /\ uart' = [uart EXCEPT !.shift = <<Head(uart.tx)>>, !.tx = Tail(uart.tx)]
      /\ UNCHANGED <<step, script, format, args, said>> /\ UNCHANGED text
  BY DEF Shift, cpu_vars
<1>2. uart \in Uart
  BY DEF PortInv
<1>3. /\ uart'.shift = <<Head(uart.tx)>> /\ uart'.tx = Tail(uart.tx)
      /\ uart'.line = uart.line
  BY <1>1, <1>2 DEF Uart
<1>4. CASE step # "ready"
  <2>1. UNCHANGED <<script, format, args, text, said>> /\ step' # "ready"
    BY <1>1, <1>4
  <2> QED
    BY <1>4, <2>1, QuietKeepsText
<1>5. CASE step = "ready"
  <2>1. uart.tx \in Seq(Printable) /\ text \in Seq(Printable)
    BY <1>5 DEF TextInv, Carrying
  <2>2. /\ uart'.shift \in Seq(Printable) /\ uart'.tx \in Seq(Printable)
        /\ uart.tx = uart'.shift \o uart'.tx
    BY <1>1, <1>3, <2>1, FirstAhead
  <2>3. ASSUME NEW sent \in Seq(Printable), NEW rest \in Seq(Printable)
        PROVE  sent \o (uart'.shift \o (uart'.tx \o (text' \o rest))) =
                 sent \o (uart.shift \o (uart.tx \o (text \o rest)))
    <3>1. PICK x : x = text \o rest
      OBVIOUS
    <3>2. x \in Seq(Printable) /\ text' \o rest = x
      BY <1>1, <2>1, <3>1, ConcatProperties
    <3>3. uart.tx \o x \in Seq(Printable)
      BY <2>1, <3>2, ConcatProperties
    <3>4. uart.shift \o (uart.tx \o x) = uart.tx \o x
      BY <1>1, <3>3, Unit
    <3>5. (uart'.shift \o uart'.tx) \o x = uart'.shift \o (uart'.tx \o x)
      <4>1. \A a, b \in Seq(Printable) : (a \o b) \o x = a \o (b \o x)
        <5>1. x \in Seq(Printable)
          BY <3>2
        <5> HIDE <3>1
        <5> QED
          BY <5>1, Associative
      <4> QED
        BY <2>2, <4>1
    <3> QED
      BY <2>2, <3>1, <3>2, <3>4, <3>5
  <2>4. \A sent, rest \in Seq(Printable) : \E now \in Seq(Printable) :
          /\ \A left \in Leftovers : uart.line = left \o sent => uart'.line = left \o now
          /\ now \o (uart'.shift \o (uart'.tx \o (text' \o rest))) =
               sent \o (uart.shift \o (uart.tx \o (text \o rest)))
    BY <1>3, <2>3
  <2>5. text' \in Seq(Printable)
    BY <1>1, <2>1
  <2> QED
    BY <1>1, <1>5, <2>2, <2>4, <2>5, MovingKeepsText
<1> QED
  BY <1>4, <1>5

LEMMA EmitKeepsText ==
  ASSUME PortInv, TextInv, Emit, UNCHANGED cpu_vars
  PROVE  TextInv'
<1>1. /\ UNCHANGED <<step, script, format, args, said>> /\ UNCHANGED text
  BY DEF cpu_vars
<1>2. uart \in Uart
  BY DEF PortInv
<1>3. CASE step # "ready"
  <2>1. UNCHANGED <<script, format, args, text, said>> /\ step' # "ready"
    BY <1>1, <1>3
  <2> QED
    BY <1>3, <2>1, QuietKeepsText
<1>4. CASE step = "ready"
  <2>1. ~uart.loop
    BY <1>4 DEF PortInv, SetSoFar
  <2>2. uart' = [uart EXCEPT !.shift = <<>>, !.line = uart.line \o uart.shift]
    BY <2>1 DEF Emit
  <2>3. uart'.shift = <<>> /\ uart'.tx = uart.tx /\ uart'.line = uart.line \o uart.shift
    BY <1>2, <2>2 DEF Uart
  <2>4. uart.tx \in Seq(Printable) /\ uart.shift \in Seq(Printable) /\ text \in Seq(Printable)
    BY <1>4 DEF TextInv, Carrying
  <2>5. ASSUME NEW sent \in Seq(Printable), NEW rest \in Seq(Printable)
        PROVE  /\ sent \o uart.shift \in Seq(Printable)
               /\ (sent \o uart.shift) \o (uart'.shift \o (uart'.tx \o (text' \o rest))) =
                    sent \o (uart.shift \o (uart.tx \o (text \o rest)))
    <3>1. PICK x : x = uart.tx \o (text \o rest)
      OBVIOUS
    <3>2. x \in Seq(Printable) /\ uart'.tx \o (text' \o rest) = x
      <4>1. text \o rest \in Seq(Printable)
        BY <2>4, ConcatProperties
      <4>2. x \in Seq(Printable)
        BY <2>4, <3>1, <4>1, ConcatProperties
      <4> QED
        BY <1>1, <2>3, <3>1, <4>2
    <3>3. uart'.shift \o x = x
      BY <2>3, <3>2, Unit
    <3>4. (sent \o uart.shift) \o x = sent \o (uart.shift \o x)
      <4>1. uart.shift \in Seq(Printable) /\ x \in Seq(Printable)
        BY <2>4, <3>2
      <4> QED
        BY <4>1, Associative
    <3>5. sent \o uart.shift \in Seq(Printable)
      BY <2>4, ConcatProperties
    <3> QED
      BY <3>1, <3>2, <3>3, <3>4, <3>5, Zenon
  <2>6. ASSUME NEW sent \in Seq(Printable), NEW left \in Leftovers, uart.line = left \o sent
        PROVE  uart'.line = left \o (sent \o uart.shift)
    <3>1. left \in Seq(Byte) /\ sent \in Seq(Byte) /\ uart.shift \in Seq(Byte)
      <4>1. Leftover \in Byte
        BY ConsoleAssumption
      <4>2. left \in Seq(Byte)
        <5>1. <<>> \in Seq(Byte) /\ <<Leftover>> \in Seq(Byte)
          BY <4>1
        <5> QED
          BY <5>1 DEF Leftovers
      <4>3. Printable \subseteq Byte
        BY DEF Printable, Char, Byte
      <4>4. \A x \in Seq(Printable) : x \in Seq(Byte)
        BY <4>3
      <4> QED
        BY <2>4, <4>2, <4>4, Zenon
    <3>2. \A x, y, z \in Seq(Byte) : (x \o y) \o z = x \o (y \o z)
      BY ConcatAssociative
    <3>3. (left \o sent) \o uart.shift = left \o (sent \o uart.shift)
      BY <3>1, <3>2, Zenon
    <3> QED
      BY <2>3, <2>6, <3>3
  <2>7. \A sent, rest \in Seq(Printable) : \E now \in Seq(Printable) :
          /\ \A left \in Leftovers : uart.line = left \o sent => uart'.line = left \o now
          /\ now \o (uart'.shift \o (uart'.tx \o (text' \o rest))) =
               sent \o (uart.shift \o (uart.tx \o (text \o rest)))
    BY <2>5, <2>6, Zenon
  <2>8. text' \in Seq(Printable) /\ uart'.shift \in Seq(Printable) /\ uart'.tx \in Seq(Printable)
    BY <1>1, <2>3, <2>4
  <2> QED
    BY <1>1, <1>4, <2>7, <2>8, MovingKeepsText
<1> QED
  BY <1>3, <1>4

LEMMA ReceiveKeepsText ==
  ASSUME PortInv, TextInv, Receive
  PROVE  TextInv'
<1>1. UNCHANGED <<step, script, format, args, said>> /\ UNCHANGED text
  BY DEF Receive, cpu_vars
<1>2. uart'.tx = uart.tx /\ uart'.shift = uart.shift /\ uart'.line = uart.line
  BY DEF PortInv, Uart, Receive
<1>3. CASE step # "ready"
  <2>1. UNCHANGED <<script, format, args, text, said>> /\ step' # "ready"
    BY <1>1, <1>3
  <2> QED
    BY <1>3, <2>1, QuietKeepsText
<1>4. CASE step = "ready"
  <2>1. \A sent, rest \in Seq(Printable) : \E now \in Seq(Printable) :
          /\ \A left \in Leftovers : uart.line = left \o sent => uart'.line = left \o now
          /\ now \o (uart'.shift \o (uart'.tx \o (text' \o rest))) =
               sent \o (uart.shift \o (uart.tx \o (text \o rest)))
    BY <1>1, <1>2
  <2>2. text' \in Seq(Printable) /\ uart'.shift \in Seq(Printable) /\ uart'.tx \in Seq(Printable)
    BY <1>1, <1>2, <1>4 DEF TextInv, Carrying
  <2> QED
    BY <1>1, <1>4, <2>1, <2>2, MovingKeepsText
<1> QED
  BY <1>3, <1>4

LEMMA PortsStay ==
  ASSUME PortInv, UNCHANGED <<uart, step, k>>
  PROVE  PortInv'
BY DEF PortInv, Fits, SetSoFar, Received, OnlyLeftover, TestByteLast

LEMMA NothingMoves ==
  ASSUME Inv, UNCHANGED vars
  PROVE  Inv'
<1>1. PortInv /\ TextInv /\ UNCHANGED <<uart, step, k, script, format, args, text, said>>
  BY DEF Inv, vars, cpu_vars
<1>2. PortInv'
  BY <1>1, PortsStay
<1>3. Meant' = Meant
  BY <1>1, MeantStays
<1>4. TextInv'
  BY <1>1, <1>3 DEF TextInv, Carrying, Carried, Ahead
<1> QED
  BY <1>2, <1>4 DEF Inv

LEMMA InitInv == Init => Inv
BY InitPortInv, InitTextInv DEF Inv

LEMMA NextInv == Inv /\ [Next]_vars => Inv'
<1> SUFFICES ASSUME Inv, [Next]_vars PROVE Inv'
  OBVIOUS
<1>1. PortInv /\ TextInv
  BY DEF Inv
<1>2. ASSUME SetUp PROVE Inv'
  <2>1. PortInv'
    BY <1>1, <1>2, SetUpKeepsPorts
  <2>2. step # "ready" /\ step' # "ready" /\ UNCHANGED <<script, format, args, text, said>>
    BY <1>2 DEF SetUp
  <2> QED
    BY <1>1, <2>1, <2>2, QuietKeepsText DEF Inv
<1>3. ASSUME SelfTest PROVE Inv'
  <2>1. PortInv'
    BY <1>1, <1>3, SelfTestKeepsPorts
  <2>2. step # "ready" /\ step' # "ready" /\ UNCHANGED <<script, format, args, text, said>>
    BY <1>3 DEF SelfTest
  <2> QED
    BY <1>1, <2>1, <2>2, QuietKeepsText DEF Inv
<1>4. ASSUME NormalMode PROVE Inv'
  BY <1>1, <1>4, NormalModeKeepsPorts, NormalModeKeepsText DEF Inv
<1>5. ASSUME serial_write PROVE Inv'
  <2>1. UNCHANGED <<uart, step, k>>
    BY <1>5 DEF serial_write, NextCall
  <2> QED
    BY <1>1, <1>5, <2>1, PortsStay, WriteKeepsText DEF Inv
<1>6. ASSUME serial_printf PROVE Inv'
  <2>1. UNCHANGED <<uart, step, k>>
    BY <1>6 DEF serial_printf, NextCall
  <2> QED
    BY <1>1, <1>6, <2>1, PortsStay, PrintfKeepsText DEF Inv
<1>7. ASSUME ReadPlain PROVE Inv'
  <2>1. UNCHANGED <<uart, step, k>>
    BY <1>7 DEF ReadPlain
  <2> QED
    BY <1>1, <1>7, <2>1, PortsStay, ReadPlainKeepsText DEF Inv
<1>8. ASSUME ReadConversion PROVE Inv'
  <2>1. UNCHANGED <<uart, step, k>>
    BY <1>8 DEF ReadConversion
  <2> QED
    BY <1>1, <1>8, <2>1, PortsStay, ReadConversionKeepsText DEF Inv
<1>9. ASSUME serial_putchar PROVE Inv'
  <2>1. step = "ready" /\ TextInv'
    BY <1>1, <1>9, PutcharKeepsText
  <2>2. text \in Seq(Printable)
    BY <1>1 DEF TextInv
  <2> QED
    BY <1>1, <1>9, <2>1, <2>2, PutcharKeepsPorts DEF Inv
<1>10. ASSUME Shift, UNCHANGED cpu_vars PROVE Inv'
  BY <1>1, <1>10, ShiftKeepsPorts, ShiftKeepsText DEF Inv
<1>11. ASSUME Emit, UNCHANGED cpu_vars PROVE Inv'
  BY <1>1, <1>11, EmitKeepsPorts, EmitKeepsText DEF Inv
<1>12. ASSUME Receive PROVE Inv'
  BY <1>1, <1>12, ReceiveKeepsPorts, ReceiveKeepsText DEF Inv
<1>13. ASSUME UNCHANGED vars PROVE Inv'
  BY <1>13, NothingMoves
<1> QED
  BY <1>2, <1>3, <1>4, <1>5, <1>6, <1>7, <1>8, <1>9, <1>10, <1>11, <1>12, <1>13
  DEF Next, Processor, Transmit, Stop

\* The inductive invariant holds: of the controller's registers and buffers
\* (PortInv), and of everything on its way from a call to the line (TextInv,
\* serial.c:46-169).
THEOREM Invariance == Spec => []Inv
<1>1. Init => Inv
  BY InitInv
<1>2. Inv /\ [Next]_vars => Inv'
  BY NextInv
<1> QED
  BY <1>1, <1>2, PTL DEF Spec

------------------------------------------------------------------------------

\* TypeOK is an invariant: no buffer of the controller takes more than it
\* holds, whatever is printed and received, no string holds a byte 0, and
\* serial_init never leaves its steps (serial.c:6-31).
THEOREM TypeCorrect == Spec => []TypeOK
<1>1. Inv => TypeOK
  <2> SUFFICES ASSUME Inv PROVE TypeOK
    OBVIOUS
  <2>1. uart \in Uart /\ Fits /\ SetSoFar /\ TextInv
    BY DEF Inv, PortInv
  <2>2. /\ {uart.dlab, uart.loop} \subseteq BOOLEAN
        /\ {uart.divisor.low, uart.divisor.high, uart.mode} \subseteq Byte
        /\ {uart.tx, uart.shift, uart.rx, uart.line} \subseteq Seq(Byte)
    BY <2>1 DEF Uart
  <2>3. /\ step \in {"init", "selftest", "normal", "ready", "halted"}
        /\ k \in 1..(Len(Setup) + 1)
    BY <2>1, SetupWrites DEF SetSoFar, Steps
  <2>4. script \in Seq(LegalCalls) /\ text \in Seq(Printable)
    BY <2>1 DEF TextInv
  <2>5. script \in Seq(Calls)
    BY <2>4 DEF LegalCalls
  <2>6. format \in Seq(Char)
    <3>1. CASE step # "ready"
      BY <2>1, <3>1 DEF TextInv
    <3>2. CASE step = "ready"
      <4>1. PICK rest : Pending(format, args, script, rest)
        BY <2>1, <3>2 DEF TextInv, Carrying, Carried
      <4> QED
        BY <2>4, <4>1, PendingType DEF Pending
    <3> QED
      BY <3>1, <3>2
  <2>7. format \in Seq(Byte)
    <3>1. Char \subseteq Byte
      BY DEF Char, Byte
    <3> QED
      BY <2>6, <3>1
  <2>8. text \in Seq(Char)
    BY <2>4, Characters
  <2> QED
    BY <2>1, <2>2, <2>3, <2>5, <2>7, <2>8 DEF TypeOK, Fits
<1> QED
  BY <1>1, Invariance, PTL

\* Configured is an invariant: whatever state the boot loader has left the
\* controller in, what is printed goes out at divisor 3 and eight bits, over the
\* line (serial.c:10-17).
THEOREM AlwaysConfigured == Spec => []Configured
<1>1. Inv => Configured
  <2> SUFFICES ASSUME Inv, step = "ready" PROVE Configured
    BY DEF Configured
  <2>1. uart \in Uart /\ k = 10 /\ SetSoFar
    BY DEF Inv, PortInv, SetSoFar
  <2>2. /\ uart.divisor.low = 3 /\ uart.divisor.high = 0 /\ ~uart.dlab /\ uart.mode = 3
        /\ ~uart.loop
    BY <2>1 DEF SetSoFar
  <2>3. uart.divisor \in [low : Byte, high : Byte]
    BY <2>1 DEF Uart
  <2>4. uart.divisor = [low |-> 3, high |-> 0]
    BY <2>2, <2>3
  <2> QED
    BY <2>2, <2>4 DEF Configured
<1> QED
  BY <1>1, Invariance, PTL

\* The line has carried a part of what is meant, behind what was left.
LEMMA SentSoFar ==
  ASSUME Inv
  PROVE  \E sent \in Seq(Printable), left \in Leftovers : uart.line = left \o sent
<1>1. CASE step = "ready"
  BY <1>1 DEF Inv, TextInv, Carrying, Carried
<1>2. CASE step # "ready"
  <2>1. uart.line \in Leftovers /\ uart.line \in Seq(Byte)
    BY <1>2 DEF Inv, PortInv, Received, Uart
  <2>2. uart.line = uart.line \o <<>> /\ <<>> \in Seq(Printable)
    BY <2>1
  <2> QED
    BY <2>1, <2>2
<1> QED
  BY <1>1, <1>2

\* TestByteConsumed is an invariant: no timing of the controller, and nothing
\* received, brings the self-test's byte to the line (serial.c:17-28).
THEOREM TestByteNeverSent == Spec => []TestByteConsumed
<1>1. Inv => TestByteConsumed
  <2> SUFFICES ASSUME Inv PROVE TestByteConsumed
    OBVIOUS
  <2>1. ASSUME NEW s \in Seq(Clean) PROVE ~Contains(s, TestByte)
    BY <2>1 DEF Contains, Clean
  <2>2. /\ \A s \in Seq(Printable) : s \in Seq(Clean)
        /\ \A s \in Leftovers : s \in Seq(Clean)
    <3>1. Printable \subseteq Clean
      BY DEF Printable, Clean, Char, Byte
    <3>2. Leftover \in Clean
      BY ConsoleAssumption DEF Clean
    <3>3. <<>> \in Seq(Clean) /\ <<Leftover>> \in Seq(Clean)
      BY <3>2
    <3> QED
      BY <3>1, <3>3 DEF Leftovers
  <2>3. ~Contains(uart.line, TestByte)
    <3>1. PICK sent \in Seq(Printable), left \in Leftovers : uart.line = left \o sent
      BY SentSoFar
    <3>2. sent \in Seq(Clean) /\ left \in Seq(Clean)
      BY <2>2, <3>1
    <3>3. left \o sent \in Seq(Clean)
      BY <3>2, ConcatProperties
    <3> QED
      BY <2>1, <3>1, <3>3
  <2>4. ASSUME step \in {"normal", "ready"} PROVE ~Contains(uart.rx \o Unsent, TestByte)
    <3>1. uart.rx \in Seq(Clean) /\ uart.shift \in Seq(Clean) /\ uart.tx \in Seq(Clean)
      <4>1. CASE step = "normal"
        <5>1. uart.rx = <<>> /\ uart.shift = <<>> /\ uart.tx = <<>>
          BY <4>1 DEF Inv, PortInv, Received
        <5>2. <<>> \in Seq(Clean)
          OBVIOUS
        <5> QED
          BY <5>1, <5>2, Zenon
      <4>2. CASE step = "ready"
        <5>1. uart.rx \in Seq(Clean)
          BY <4>2 DEF Inv, PortInv, Received
        <5>2. uart.shift \in Seq(Printable) /\ uart.tx \in Seq(Printable)
          BY <4>2 DEF Inv, TextInv, Carrying
        <5> QED
          BY <2>2, <5>1, <5>2
      <4> QED
        BY <2>4, <4>1, <4>2
    <3>2. Unsent \in Seq(Clean)
      BY <3>1, ConcatProperties DEF Unsent
    <3>3. uart.rx \o Unsent \in Seq(Clean)
      BY <3>1, <3>2, ConcatProperties
    <3> QED
      BY <2>1, <3>3
  <2> QED
    BY <2>3, <2>4 DEF TestByteConsumed
<1> QED
  BY <1>1, Invariance, PTL

LEMMA PrefixOfConcat ==
  ASSUME NEW S, NEW x \in Seq(S), NEW y \in Seq(S)
  PROVE  IsPrefix(x, x \o y)
<1> DEFINE z == x \o y
<1>1. Len(x) \in Nat /\ Len(y) \in Nat
  OBVIOUS
<1>2. /\ z \in Seq(S) /\ Len(z) = Len(x) + Len(y)
      /\ \A n \in 1..(Len(x) + Len(y)) : z[n] = IF n <= Len(x) THEN x[n] ELSE y[n - Len(x)]
  BY ConcatProperties
<1> HIDE DEF z
<1> DEFINE u == SubSeq(x, 1, Len(x))
           w == SubSeq(z, 1, Len(x))
<1>3. u \in Seq(S) /\ Len(u) = Len(x) /\ \A n \in 1..Len(x) : u[n] = x[n]
  BY <1>1
<1>4. w \in Seq(S) /\ Len(w) = Len(x) /\ \A n \in 1..Len(x) : w[n] = z[n]
  BY <1>1, <1>2
<1>5. \A n \in 1..Len(x) : z[n] = x[n]
  BY <1>1, <1>2
<1> HIDE DEF u, w
<1>6. u = w
  BY <1>3, <1>4, <1>5, SeqEqual
<1>7. Len(x) <= Len(z)
  BY <1>1, <1>2
<1> QED
  BY <1>6, <1>7 DEF IsPrefix, z, u, w

\* LineSays is an invariant: for every int, every size of the buffers and all
\* calls, the line carries what they mean, complete and in order, at any pace of
\* the controller (serial.c:39-169).
THEOREM PrintsWhatIsMeant == Spec => []LineSays
<1>1. Inv => LineSays
  <2> SUFFICES ASSUME Inv PROVE LineSays
    OBVIOUS
  <2>1. ASSUME NEW left \in Leftovers, NEW sent \in Seq(Printable), uart.line = left \o sent
        PROVE  sent \in Ours(uart.line)
    <3>1. CASE left = <<>>
      BY <2>1, <3>1 DEF Ours
    <3>2. CASE left = <<Leftover>>
      <4>1. Printable \subseteq Byte /\ Leftover \in Byte
        BY ConsoleAssumption DEF Printable, Char, Byte
      <4>2. sent \in Seq(Byte) /\ <<Leftover>> \in Seq(Byte) /\ <<Leftover>> # <<>>
        BY <4>1
      <4>3. Head(uart.line) = Leftover /\ Tail(uart.line) = sent /\ uart.line # <<>>
        <5>1. /\ Head(uart.line) = Head(<<Leftover>>)
              /\ Tail(uart.line) = Tail(<<Leftover>>) \o sent
          BY <2>1, <3>2, <4>2, FirstAhead
        <5>2. Head(<<Leftover>>) = Leftover /\ Tail(<<Leftover>>) = <<>>
          OBVIOUS
        <5>3. <<>> \o sent = sent
          BY <4>2, Unit
        <5>4. uart.line # <<>>
          BY <2>1, <3>2, <4>2
        <5> QED
          BY <5>1, <5>2, <5>3, <5>4
      <4> QED
        BY <4>3 DEF Ours
    <3> QED
      BY <3>1, <3>2 DEF Leftovers
  <2>2. CASE step # "ready"
    <3>1. uart.line \in Leftovers /\ uart.line \in Seq(Byte)
      BY <2>2 DEF Inv, PortInv, Received, Uart
    <3>2. <<>> \in Ours(uart.line)
      <4>1. uart.line = uart.line \o <<>> /\ <<>> \in Seq(Printable)
        BY <3>1
      <4> QED
        BY <2>1, <3>1, <4>1
    <3>3. Meant \in Seq(Printable)
      BY <2>2, AheadFirst DEF Inv, TextInv
    <3>4. IsPrefix(<<>>, Meant)
      <4>1. <<>> \o Meant = Meant /\ <<>> \in Seq(Printable)
        BY <3>3, Unit
      <4>2. IsPrefix(<<>>, <<>> \o Meant)
        BY <3>3, <4>1, PrefixOfConcat
      <4> QED
        BY <4>1, <4>2
    <3> QED
      BY <2>2, <3>2, <3>4 DEF LineSays, Done
  <2>3. CASE step = "ready"
    <3>1. /\ uart.shift \in Seq(Printable) /\ uart.tx \in Seq(Printable)
          /\ text \in Seq(Printable) /\ script \in Seq(LegalCalls)
      BY <2>3 DEF Inv, TextInv, Carrying
    <3>2. PICK sent \in Seq(Printable), rest \in Seq(Printable) : Carried(sent, rest)
      BY <2>3 DEF Inv, TextInv, Carrying
    <3>3. sent \in Ours(uart.line)
      BY <2>1, <3>2 DEF Carried
    <3> DEFINE shift == uart.shift
               tx == uart.tx
               behind == text \o rest
    <3>4. /\ shift \in Seq(Printable) /\ tx \in Seq(Printable) /\ behind \in Seq(Printable)
          /\ Unsent = shift \o tx
          /\ Meant = sent \o (shift \o (tx \o behind))
      BY <3>1, <3>2, ConcatProperties DEF Carried, Unsent
    <3> HIDE DEF shift, tx, behind
    <3>5. Unsent \in Seq(Printable) /\ sent \o Unsent \in Seq(Printable)
      BY <3>2, <3>4, ConcatProperties
    <3>6. Meant = sent \o (Unsent \o behind)
      BY <3>4, Associative
    <3>7. Meant = (sent \o Unsent) \o behind
      <4>1. /\ sent \in Seq(Printable) /\ Unsent \in Seq(Printable)
            /\ behind \in Seq(Printable)
        BY <3>2, <3>4, <3>5
      <4>2. (sent \o Unsent) \o behind = sent \o (Unsent \o behind)
        BY <4>1, Associative
      <4> QED
        BY <3>6, <4>2
    <3>8. IsPrefix(sent, Meant)
      <4>1. Unsent \o behind \in Seq(Printable)
        BY <3>4, <3>5, ConcatProperties
      <4> QED
        BY <3>2, <3>6, <4>1, PrefixOfConcat
    <3>9. IsPrefix((sent \o Unsent) \o text, Meant)
      <4>1. Meant = ((sent \o Unsent) \o text) \o rest
        <5>1. PICK x : x = sent \o Unsent
          OBVIOUS
        <5>2. x \in Seq(Printable) /\ text \in Seq(Printable) /\ rest \in Seq(Printable)
          BY <3>1, <3>2, <3>5, <5>1
        <5>3. (x \o text) \o rest = x \o (text \o rest)
          BY <5>2, Associative
        <5> QED
          BY <3>7, <5>1, <5>3 DEF behind
      <4>2. (sent \o Unsent) \o text \in Seq(Printable)
        BY <3>1, <3>5, ConcatProperties
      <4> QED
        BY <3>2, <4>1, <4>2, PrefixOfConcat
    <3>10. ASSUME Done PROVE sent \o Unsent = Meant
      <4>1. script = <<>> /\ format = <<>> /\ text = <<>>
        BY <3>10 DEF Done
      <4>2. Pending(<<>>, args, script, rest)
        BY <3>2, <4>1 DEF Carried
      <4>3. rest = <<>>
        BY <3>1, <4>1, <4>2, NothingPending, AheadFirst
      <4>4. behind = <<>>
        BY <4>1, <4>3 DEF behind
      <4> QED
        BY <3>5, <3>7, <4>4, Unit
    <3> QED
      BY <3>3, <3>8, <3>9, <3>10 DEF LineSays
  <2> QED
    BY <2>2, <2>3
<1> QED
  BY <1>1, Invariance, PTL
==============================================================================

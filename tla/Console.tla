------------------------------- MODULE Console -------------------------------
(***************************************************************************)
(* Kickstart's console: serial.c on the processor, beside the serial port's *)
(* controller (a 16550), which sends and receives at its own pace.         *)
(*                                                                         *)
(* Bytes and characters are numbers, with their ASCII codes.               *)
(***************************************************************************)
EXTENDS Integers, Sequences, SequencesExt, Powers

CONSTANTS
  HexDigits,  \* hexadecimal digits of an int (8)
  FifoSize,   \* bytes each of the controller's buffers holds (16)
  Scripts,    \* what is printed: sequences of calls
  Leftover,   \* a byte the boot loader has left to be sent
  Noise       \* a byte the other side may send

TestByte == 174  \* 0xAE
Byte     == 0..255
Char     == 1..255
WordSpan == Power(16, HexDigits)

\* An int has at most so many digits in base 10.
MaxDigits == 2 * HexDigits

\* A piece of what a call prints: plain text, a string, a character or a number
\* in one of the formats, "xx" being a number of two words, high word first; or
\* something in a format that prints nothing.
Piece ==
  [as : {"text", "s", "odd"}, value : Seq(Char)] \cup
  [as : {"c", "percent", "x", "d", "u", "xx"}, value : Int]

\* serial_write has one piece, its text.
Calls == [fn : {"write", "printf"}, pieces : Seq(Piece)]

ASSUME ConsoleAssumption ==
  /\ {HexDigits, FifoSize} \subseteq Nat \ {0}
  /\ {Leftover, Noise} \subseteq Byte \ {TestByte}
  /\ Scripts \subseteq Seq(Calls)

VARIABLES
  uart,    \* the controller
  step, k, \* where kickstart_main is, and how far serial_init
  script,  \* the calls not begun yet
  format,  \* what serial_printf has not read of its format
  args,    \* and of its arguments
  text,    \* what serial_write has still to put
  said     \* the pieces of all the calls; never changes

cpu_vars == <<step, k, script, format, args, text, said>>
vars     == <<uart, cpu_vars>>

------------------------------------------------------------------------------
(***************************************************************************)
(* The controller.  A byte written goes through the buffer and the         *)
(* register it is shifted out of to the line or, in loopback mode, to the  *)
(* receiver's buffer; a full buffer loses what comes next.                 *)
(***************************************************************************)
Bit(val, n) == (val \div 2 ^ n) % 2 = 1

Push(buffer, byte) ==
  IF Len(buffer) < FifoSize THEN Append(buffer, byte) ELSE buffer

\* Interrupts are not modelled: port 1 matters while it is the divisor's.
outb(u, port, val) ==
  CASE port = 0 /\ u.dlab  -> [u EXCEPT !.divisor.low = val]
    [] port = 0 /\ ~u.dlab -> [u EXCEPT !.tx = Push(@, val)]
    [] port = 1 -> IF u.dlab THEN [u EXCEPT !.divisor.high = val] ELSE u
    [] port = 2 -> [u EXCEPT !.rx = IF Bit(val, 1) THEN <<>> ELSE @,
                             !.tx = IF Bit(val, 2) THEN <<>> ELSE @]
    [] port = 3 -> [u EXCEPT !.dlab = Bit(val, 7), !.mode = val % 128]
    [] port = 4 -> [u EXCEPT !.loop = Bit(val, 4)]

Shift ==
  /\ uart.shift = <<>>
  /\ uart.tx # <<>>
  /\ uart' = [uart EXCEPT !.shift = <<Head(uart.tx)>>, !.tx = Tail(@)]

Emit ==
  /\ uart.shift # <<>>
  /\ uart' = IF uart.loop
               THEN [uart EXCEPT !.shift = <<>>, !.rx = Push(@, Head(uart.shift))]
               ELSE [uart EXCEPT !.shift = <<>>, !.line = @ \o uart.shift]

Transmit ==
  /\ Shift \/ Emit
  /\ UNCHANGED cpu_vars

Receive ==
  /\ ~uart.loop
  /\ uart' = [uart EXCEPT !.rx = Push(@, Noise)]
  /\ UNCHANGED cpu_vars

------------------------------------------------------------------------------
(* serial_printf's conversions.                                             *)

PERCENT == 37
MINUS   == 45
CH_c == 99   CH_d == 100   CH_s == 115   CH_u == 117   CH_x == 120

\* The wrong way from a digit to its character.
MistakenDigit(rem) == IF rem < 10 THEN rem - 48 ELSE rem - 97 + 10

Digit(rem) == IF rem < 10 THEN rem + 48 ELSE rem + 97 - 10

\* The loop ends when nothing is left of the number, in either base.
MistakenShouldQuit(base, d, printed) == d = 0

ShouldQuit(base, d, printed) ==
  IF base = 10 THEN d = 0 ELSE printed = HexDigits

\* num is an int, and what is left of it after so many digits.  The digits come
\* out in reverse and are turned round.
itoa(base, num) ==
  LET negative == base = 10 /\ num < 0
      left[n \in 0..MaxDigits] ==
        CASE n > 0            -> left[n - 1] \div base
          [] n = 0 /\ negative -> -num
          [] OTHER             -> num % WordSpan
      Quits(n) == ShouldQuit(base, left[n], n)
      printed  == CHOOSE n \in 1..MaxDigits : Quits(n) /\ \A m \in 1..(n - 1) : ~Quits(m)
      digits   == [p \in 1..printed |-> Digit(left[printed - p] % base)]
  IN  IF negative THEN <<MINUS>> \o digits ELSE digits

\* An unsigned int passed for an int.
AsInt(n) == IF n < WordSpan \div 2 THEN n ELSE n - WordSpan

Converted(c, arg) ==
  CASE c = CH_s -> arg
    [] c = CH_c -> <<arg>>
    [] c = CH_x -> itoa(16, AsInt(arg))
    [] c = CH_d -> itoa(10, arg)
    [] c = CH_u -> itoa(10, AsInt(arg))

------------------------------------------------------------------------------
(* How the callers pass the pieces: the format and the arguments.           *)

FormatOf(piece) ==
  CASE piece.as \in {"text", "odd"} -> piece.value
    [] piece.as = "percent" -> <<PERCENT, PERCENT>>
    [] piece.as = "s"  -> <<PERCENT, CH_s>>
    [] piece.as = "c"  -> <<PERCENT, CH_c>>
    [] piece.as = "x"  -> <<PERCENT, CH_x>>
    [] piece.as = "d"  -> <<PERCENT, CH_d>>
    [] piece.as = "u"  -> <<PERCENT, CH_u>>
    [] piece.as = "xx" -> <<PERCENT, CH_x, PERCENT, CH_x>>

ArgsOf(piece) ==
  CASE piece.as \in {"text", "odd", "percent"} -> <<>>
    [] piece.as = "xx" -> <<piece.value \div WordSpan, piece.value % WordSpan>>
    [] OTHER -> <<piece.value>>

Joined(op(_), pieces) == FlattenSeq([n \in DOMAIN pieces |-> op(pieces[n])])

------------------------------------------------------------------------------
(* The processor.                                                           *)

Unset == [dlab |-> FALSE, divisor |-> [low |-> 0, high |-> 0], mode |-> 0,
          loop |-> FALSE, tx |-> <<>>, shift |-> <<>>, rx |-> <<>>, line |-> <<>>]

\* The controller is as the boot loader, or nobody, has left it.
Init ==
  /\ \E dlab, loop \in BOOLEAN, tx \in {<<>>, <<Leftover>>},
        rx \in {<<>>, <<Noise>>}, high \in {0, 1} :
       uart = [Unset EXCEPT !.dlab = dlab, !.loop = loop, !.tx = tx, !.rx = rx,
                            !.divisor.high = high]
  /\ step = "init"
  /\ k = 1
  /\ script \in Scripts
  /\ format = <<>>
  /\ args = <<>>
  /\ text = <<>>
  /\ said = FlattenSeq([n \in DOMAIN script |-> script[n].pieces])

\* The divisor's high byte is written after the access to it has been closed.
MistakenSetup ==
  << <<1, 0>>, <<3, 128>>, <<0, 3>>, <<3, 3>>, <<1, 0>>, <<2, 199>>, <<4, 11>>,
     <<4, 30>>, <<0, TestByte>> >>

\* Port and value of each write before the self-test's answer is read.
Setup ==
  << <<1, 0>>, <<3, 128>>, <<0, 3>>, <<1, 0>>, <<3, 3>>, <<2, 199>>, <<4, 11>>,
     <<4, 30>>, <<0, TestByte>> >>

SetUp ==
  /\ step = "init"
  /\ uart' = outb(uart, Setup[k][1], Setup[k][2])
  /\ k' = k + 1
  /\ step' = IF k = Len(Setup) THEN "selftest" ELSE "init"
  /\ UNCHANGED <<script, format, args, text, said>>

\* The answer is not looked at.
MistakenPasses(rx) == TRUE

\* What an empty buffer reads as is not the test byte.
Passes(rx) == rx # <<>> /\ Head(rx) = TestByte

\* The answer is read once, there or not; without it kickstart_main returns.
SelfTest ==
  /\ step = "selftest"
  /\ uart' = [uart EXCEPT !.rx = IF @ = <<>> THEN @ ELSE Tail(@)]
  /\ step' = IF Passes(uart.rx) THEN "normal" ELSE "halted"
  /\ UNCHANGED <<k, script, format, args, text, said>>

NormalMode ==
  /\ step = "normal"
  /\ uart' = outb(uart, 4, 15)
  /\ step' = "ready"
  /\ UNCHANGED <<k, script, format, args, text, said>>

\* The next call, once the one before has returned.
NextCall(fn) ==
  /\ step = "ready"
  /\ text = <<>> /\ format = <<>> /\ script # <<>>
  /\ Head(script).fn = fn
  /\ script' = Tail(script)
  /\ UNCHANGED <<uart, step, k, said>>

serial_write ==
  /\ NextCall("write")
  /\ text' = Head(script).pieces[1].value
  /\ UNCHANGED <<format, args>>

serial_printf ==
  /\ NextCall("printf")
  /\ format' = Joined(FormatOf, Head(script).pieces)
  /\ args' = Joined(ArgsOf, Head(script).pieces)
  /\ UNCHANGED text

Reading == step = "ready" /\ text = <<>> /\ format # <<>>

ReadPlain ==
  /\ Reading
  /\ Head(format) # PERCENT
  /\ text' = <<Head(format)>>
  /\ format' = Tail(format)
  /\ UNCHANGED <<uart, step, k, script, args, said>>

\* A character after '%' that is none of the conversions prints nothing; a
\* format that ends there is at its end.
ReadConversion ==
  LET c == format[2]
  IN  /\ Reading
      /\ Head(format) = PERCENT
      /\ CASE Len(format) = 1 -> format' = <<>> /\ UNCHANGED <<args, text>>
           [] Len(format) > 1 /\ c \in {CH_s, CH_c, CH_x, CH_d, CH_u} ->
                /\ text' = Converted(c, Head(args))
                /\ args' = Tail(args)
                /\ format' = SubSeq(format, 3, Len(format))
           [] OTHER ->
                /\ text' = IF c = PERCENT THEN <<PERCENT>> ELSE <<>>
                /\ format' = SubSeq(format, 3, Len(format))
                /\ UNCHANGED args
      /\ UNCHANGED <<uart, step, k, script, said>>

\* The controller is not waited for.
MistakenIsTransmitEmpty(u) == TRUE

is_transmit_empty(u) == u.tx = <<>>

\* serial_putchar for the next character; until the buffer is empty it polls.
serial_putchar ==
  /\ text # <<>>
  /\ is_transmit_empty(uart)
  /\ uart' = outb(uart, 0, Head(text))
  /\ text' = Tail(text)
  /\ UNCHANGED <<step, k, script, format, args, said>>

Processor ==
  \/ SetUp
  \/ SelfTest
  \/ NormalMode
  \/ serial_write
  \/ serial_printf
  \/ ReadPlain
  \/ ReadConversion
  \/ serial_putchar

Done == step = "ready" /\ script = <<>> /\ format = <<>> /\ text = <<>>

\* Nothing is left to print; the boot goes on, or stops, elsewhere.
Stop ==
  /\ step = "halted" \/ Done
  /\ UNCHANGED vars

Next == Processor \/ Transmit \/ Receive \/ Stop

\* The processor runs, and the controller sends what it has been given.
Spec == Init /\ [][Next]_vars /\ WF_vars(Processor) /\ WF_vars(Transmit)

------------------------------------------------------------------------------
(* What the callers mean to print.                                          *)

Numeral(value, base, length) ==
  LET characters == <<48, 49, 50, 51, 52, 53, 54, 55, 56, 57, 97, 98, 99, 100, 101, 102>>
  IN  [p \in 1..length |-> characters[1 + ((value \div Power(base, length - p)) % base)]]

Decimal(value) ==
  LET fits == {length \in 1..MaxDigits : value < Power(10, length)}
  IN  Numeral(value, 10, CHOOSE length \in fits : \A l \in fits : length <= l)

Says(piece) ==
  CASE piece.as \in {"text", "s"} -> piece.value
    [] piece.as = "odd"           -> <<>>
    [] piece.as = "percent"       -> <<PERCENT>>
    [] piece.as = "c"             -> <<piece.value>>
    [] piece.as = "x"             -> Numeral(piece.value, 16, HexDigits)
    [] piece.as = "xx"            -> Numeral(piece.value, 16, 2 * HexDigits)
    [] OTHER -> IF piece.value < 0 THEN <<MINUS>> \o Decimal(-piece.value)
                ELSE Decimal(piece.value)

Meant == Joined(Says, said)

\* What of the line's bytes may be ours: all of them, or all behind the one the
\* boot loader left.
Ours(bytes) ==
  {bytes} \cup IF bytes # <<>> /\ Head(bytes) = Leftover THEN {Tail(bytes)} ELSE {}

Unsent == uart.shift \o uart.tx

\* Every variable has its type; a string holds no byte 0.
TypeOK ==
  /\ {uart.dlab, uart.loop} \subseteq BOOLEAN
  /\ {uart.divisor.low, uart.divisor.high, uart.mode} \subseteq Byte
  /\ {uart.tx, uart.shift, uart.rx, uart.line} \subseteq Seq(Byte)
  /\ Len(uart.tx) <= FifoSize /\ Len(uart.rx) <= FifoSize /\ Len(uart.shift) <= 1
  /\ step \in {"init", "selftest", "normal", "ready", "halted"}
  /\ k \in 1..(Len(Setup) + 1)
  /\ script \in Seq(Calls)
  /\ format \in Seq(Byte) /\ text \in Seq(Char)

\* At every moment the line has carried a beginning of what the calls mean to
\* print, numbers in their formats and words of 64-bit numbers side by side
\* included, and the rest is on its way in order: nothing is lost, repeated or
\* overtaken (serial.c:39-169).
LineSays ==
  \E ours \in Ours(uart.line) :
    /\ IsPrefix(ours, Meant)
    /\ step = "ready" => IsPrefix(ours \o Unsent \o text, Meant)
    /\ Done => ours \o Unsent = Meant

\* A passed self-test has its byte back: it is nowhere in the controller when
\* the line is connected again, and never reaches the line (serial.c:17-28).
TestByteConsumed ==
  /\ ~Contains(uart.line, TestByte)
  /\ step \in {"normal", "ready"} => ~Contains(uart.rx \o Unsent, TestByte)

\* What is printed goes out at divisor 3 and eight bits, over the line: each of
\* the writes has met the register it is for, which depends on the access to
\* the divisor being opened and closed around the right ones (serial.c:10-17).
Configured ==
  step = "ready" =>
    /\ uart.divisor = [low |-> 3, high |-> 0] /\ uart.mode = 3
    /\ ~uart.dlab /\ ~uart.loop

\* In the end everything has been printed, or Kickstart has given up before its
\* first word (serial.c:20-24, 41).
AllSaid == <>(step = "halted" \/ Meant \in Ours(uart.line))
==============================================================================

------------------------------ MODULE MCConsole ------------------------------
(***************************************************************************)
(* An instance of Console for TLC: ints of two hexadecimal digits, buffers *)
(* of two bytes.                                                           *)
(***************************************************************************)
EXTENDS ConsoleProofs

P(as, value)   == [as |-> as, value |-> value]
Write(str)     == [fn |-> "write", pieces |-> <<P("text", str)>>]
Printf(pieces) == [fn |-> "printf", pieces |-> pieces]

\* Text that looks like a conversion, then nothing; 64-bit numbers whose low
\* word begins with zeros; decimal numbers at the ends of the int, and a word at
\* the end of the unsigned; strings, one empty, characters, a conversion there is
\* none of and a format that ends in one.
MC_Scripts == {
  <<Write(<<37, 120, 37>>), Write(<<>>), Printf(<<P("text", <<48, 120>>), P("xx", 2563)>>)>>,
  <<Printf(<<P("xx", 65024), P("text", <<10>>), P("x", 255)>>), Write(<<10>>)>>,
  <<Printf(<<P("d", -128), P("d", 127), P("u", 0), P("u", 90), P("d", -7)>>)>>,
  <<Printf(<<P("s", <<37, 100>>), P("percent", 0), P("s", <<>>), P("c", 65),
             P("odd", <<37, 122>>), P("text", <<66>>), P("odd", <<37>>)>>)>>,
  <<>> }
==============================================================================

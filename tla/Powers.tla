------------------------------- MODULE Powers -------------------------------
(***************************************************************************)
(* Powers by repeated multiplication, which can be reasoned about for      *)
(* every base and exponent.                                                *)
(***************************************************************************)
EXTENDS Integers

Power(b, n) ==
  LET power[m \in 0..n] == IF m = 0 THEN 1 ELSE b * power[m - 1]
  IN  power[n]
==============================================================================

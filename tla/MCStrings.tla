------------------------------ MODULE MCStrings ------------------------------
(***************************************************************************)
(* An instance of Strings for TLC: five bytes of three values, so that     *)
(* arrays overlap by one and more bytes in both directions and two strings *)
(* fit; -1, which memset has to narrow to a byte, and a byte as it is.     *)
(***************************************************************************)
EXTENDS Strings

MC_Ints == {-1, 0, 1}
==============================================================================

-------------------------------- MODULE MCPmm --------------------------------
(***************************************************************************)
(* Instances of Pmm for TLC.  A page is 4 bytes, "1 MiB" is address 8,     *)
(* a pointer has 64 values.                                                *)
(***************************************************************************)
EXTENDS PmmProofs

A(lo, hi) == Region(lo, hi, "AVAILABLE")
R(lo, hi) == Region(lo, hi, "RESERVED")

\* A map in address order, one in another order, and one whose fragments of
\* pages round to entries of no length or of negative length.
MC_Maps == {
  <<A(0, 6), R(6, 8), A(8, 21), R(24, 28), Region(28, 31, "NVS"), A(32, 41)>>,
  <<A(36, 45), R(30, 36), A(12, 28), A(3, 8), R(0, 3)>>,
  <<A(1, 5), A(8, 24), A(36, 41), A(25, 27), R(27, 31)>> }

MC_Blocks == {[addr_start |-> 8, addr_end |-> 11],
              [addr_start |-> 17, addr_end |-> 19]}
MC_PageCounts == {0, 1, 2}
MC_FreeAddrs == {12, 16, 24, 46}
MC_Addresses == {4 * page : page \in 0..12}
==============================================================================

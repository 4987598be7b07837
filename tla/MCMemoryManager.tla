--------------------------- MODULE MCMemoryManager ---------------------------
(***************************************************************************)
(* The instance of MemoryManager for TLC.  A page is 4 bytes and a byte 4  *)
(* bits, so a page of bitmap stands for 16 pages.  Every boot table of the *)
(* instance meets MemoryManagerProofAssumption, which TLC evaluates.       *)
(***************************************************************************)
EXTENDS MemoryManagerProofs, MCBootTables

Maps == {
  <<A(0, 6), R(6, 8), A(8, 112)>>,
  <<A(0, 45), A(46, 127)>>,
  <<A(0, 8), A(8, 20), Region(24, 27, "RECLAIMABLE"), Region(27, 31, "NVS"),
    A(32, 90), Region(92, 96, "BAD_MEM")>>,
  <<A(4, 9), R(9, 13), A(16, 30), A(36, 64), R(90, 94), A(64, 87)>>,
  <<A(0, 4), A(8, 26), R(26, 30), A(32, 58)>> }

MC_BootTables ==
  {Boot(map, blocks, tables, segment) :
     map \in Maps, tables \in {1, 4}, segment \in {1, 9},
     blocks \in {<<>>, <<Block(9, 13)>>, <<Block(8, 11), Block(17, 19)>>}}
==============================================================================

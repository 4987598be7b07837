------------------------------ MODULE MCPmmGaps ------------------------------
(***************************************************************************)
(* Memory maps on which Kickstart's physical memory manager does not do    *)
(* what a comment in its code says.  Sizes as in MCPmm.                    *)
(***************************************************************************)
EXTENDS Pmm

A(lo, hi) == Region(lo, hi, "AVAILABLE")

\* A fragment smaller than a page, reported after a region above it.
FragmentLast == {<<A(8, 20), A(2, 5)>>}

\* Available memory that the firmware reports in two adjacent entries, and a
\* block that lies across both.
SplitAvailable == {<<A(8, 16), A(16, 28)>>}
AcrossSplit == {[addr_start |-> 13, addr_end |-> 19]}

\* Available memory that begins where 32-bit pointers end.
AtPtrSpan == {<<A(64, 80)>>}

\* One region, a page of which is allocated and freed.
OneRegion == {<<A(8, 20)>>}
==============================================================================

------------------------- MODULE MCMemoryManagerGaps -------------------------
(***************************************************************************)
(* Instances of MemoryManager on which the code does not do what its       *)
(* comments say.  They extend MemoryManager alone: the second table is one *)
(* that MemoryManagerProofAssumption excludes.                             *)
(***************************************************************************)
EXTENDS MemoryManager, MCBootTables

\* Memory that begins with a reserved region and goes on with available memory.
LowReserved == {Boot(<<R(0, 8), A(8, 112)>>, <<>>, 1, 1)}

\* A fragment of a page inside a reserved region's page: an available entry of
\* negative length.
Fragment == {Boot(<<A(8, 100), R(100, 105), A(105, 107), R(108, 116)>>,
                  <<>>, 1, 1)}
==============================================================================

------------------------------- MODULE PhysMem -------------------------------
(***************************************************************************)
(* What a physical memory manager promises, with no table: every address   *)
(* has one owner at a time, and changes owner only in the ways below.      *)
(*                                                                         *)
(* Pmm implements this specification (Pmm!RefinesPhysMem).                 *)
(***************************************************************************)
CONSTANTS
  Addresses,  \* the addresses, or a sample of them such as one in each page
  FirmwareTypes, OwnerTypes

VARIABLE owner   \* what each address is; "HOLE" where nothing was reported

Kinds == FirmwareTypes \cup OwnerTypes \cup {"HOLE"}

Init == owner = [a \in Addresses |-> "HOLE"]

\* Some addresses of kind `from' become of kind `to'; no other changes.
Convert(from, to) ==
  /\ owner' \in [Addresses -> Kinds]
  /\ \A a \in Addresses :
       \/ owner'[a] = owner[a]
       \/ owner[a] = from /\ owner'[a] = to

\* The firmware describes memory nobody has described before.
Report == \E type \in FirmwareTypes : Convert("HOLE", type)

\* Available memory gets an owner.
Claim == \E type \in OwnerTypes : Convert("AVAILABLE", type)

\* Reserved memory is given back.
Release == Convert("RESERVED", "AVAILABLE")

Next == Report \/ Claim \/ Release

Spec == Init /\ [][Next]_owner
==============================================================================

------------------------------ MODULE PmmProofs ------------------------------
(***************************************************************************)
(* The theorems about Pmm: for every page size, every firmware map, every  *)
(* set of blocks, request sizes and freed addresses that meet the          *)
(* assumption below, and for tables and allocations of every number.       *)
(***************************************************************************)
EXTENDS Pmm, RegionTableProofs

(***************************************************************************)
(* What the boot code relies on and does not check.  The firmware's        *)
(* entries do not overlap once rounded to pages (pmm.c:51 leaves           *)
(* overlapping ones to do) and end within reach of a 32-bit pointer; the   *)
(* blocks lie below the last page of the pointer's range; a request is     *)
(* less than 4 GiB.                                                        *)
(***************************************************************************)
ASSUME PmmProofAssumption ==
  /\ \A m \in FirmwareMaps :
       /\ \A e \in DOMAIN m : PageRounded(m[e]).addr_end <= PtrSpan
       /\ \A e, f \in DOMAIN m :
            e # f => Apart(PageRounded(m[e]), PageRounded(m[f]))
  /\ \A b \in Blocks :
       b.addr_start <= b.addr_end /\ RoundUp(b.addr_end) < PtrSpan
  /\ \A pages \in PageCounts : pages * PageSize < PtrSpan

\* What callers hold.
Held == {granted[k] : k \in DOMAIN granted}

\* Entries with no owner keep clear of what callers hold: what can be handed
\* out next is not held by anybody.
HeldClear == \A i \in DOMAIN memory_regions : memory_regions[i] \in Entries(Held)

\* The firmware entries still to come overlap neither one another nor the table.
PendingClear ==
  \A e \in DOMAIN mmap :
    /\ PageRounded(mmap[e]).addr_end <= PtrSpan
    /\ \A f \in DOMAIN mmap :
         e # f => Apart(PageRounded(mmap[e]), PageRounded(mmap[f]))
    /\ \A i \in DOMAIN memory_regions :
         Apart(memory_regions[i], PageRounded(mmap[e]))

\* The inductive invariant.  TableApart alone is not inductive: a firmware
\* entry yet to come could overlap the table.  Nor is GrantsExclusive: an
\* available entry could overlap an allocation.
IInv ==
  /\ TypeOK
  /\ TableApart
  /\ GrantsExclusive
  /\ HeldClear
  /\ PendingClear
  /\ mmap # <<>> => granted = <<>>

------------------------------------------------------------------------------
(* Giving back what is held at a page keeps the other allocations.           *)
LEMMA StillHeldSound ==
  ASSUME NEW g \in Seq(Regions), Sound(g, Regions), NEW page
  PROVE  /\ StillHeld(g, page) \in Seq(Regions)
         /\ Sound(StillHeld(g, page), Regions)
         /\ \A x \in DOMAIN StillHeld(g, page) :
              \E l \in DOMAIN g : StillHeld(g, page)[x] = g[l]
<1> DEFINE n == Len(g)
           S == Seq(Regions)
           Body(s, k) == IF g[k].addr_start = page THEN s ELSE Append(s, g[k])
           B == [k \in 1..n |-> [s \in S |-> Body(s, k)]]
           kept == CHOOSE f : f = [k \in 0..n |->
                     IF k = 0 THEN <<>>
                     ELSE IF g[k].addr_start = page THEN f[k - 1]
                          ELSE Append(f[k - 1], g[k])]
           From(s, k) == /\ s \in S /\ Sound(s, Regions)
                         /\ \A x \in DOMAIN s : \E l \in 1..k : s[x] = g[l]
<1>1. n \in Nat /\ DOMAIN g = 1..n /\ \A k \in 1..n : g[k] \in Regions
  OBVIOUS
<1> HIDE DEF n
<1>2. \A s \in S : \A k \in 1..n : Body(s, k) \in S
  BY <1>1
<1>3. \E f : f = [k \in 0..n |->
               IF k = 0 THEN <<>>
               ELSE IF g[k].addr_start = page THEN f[k - 1]
                    ELSE Append(f[k - 1], g[k])]
  <2>1. B \in [(0 + 1)..n -> [S -> S]] /\ <<>> \in S /\ 0 \in Nat /\ 0 <= n
    <3>1. <<>> \in S
      OBVIOUS
    <3> HIDE DEF Body, S
    <3> QED
      BY <1>1, <1>2, <3>1
  <2>2. PICK f \in [0..n -> S] : RunOf(f, 0, n, <<>>, B)
    <3> HIDE DEF B, S
    <3> QED
      BY <1>1, <2>1, LoopRuns
  <2>3. \A k \in 0..n : k # 0 => B[k][f[k - 1]] = Body(f[k - 1], k)
    <3> HIDE DEF Body, S
    <3> QED
      BY <1>1
  <2>4. f = [k \in 0..n |-> IF k = 0 THEN <<>> ELSE Body(f[k - 1], k)]
    <3> HIDE DEF B, S, Body
    <3> QED
      BY <2>2, <2>3 DEF RunOf
  <2> HIDE DEF B, S
  <2> QED
    BY <2>4
<1>4. kept = [k \in 0..n |-> IF k = 0 THEN <<>> ELSE Body(kept[k - 1], k)]
  BY <1>3, Zenon
<1>5. StillHeld(g, page) = kept[n]
  BY Zenon DEF StillHeld, n
<1> HIDE DEF kept
<1>6. \A k \in 0..n : From(kept[k], k)
  <2> DEFINE P == {k \in 0..n : From(kept[k], k)}
  <2>1. 0 \in P
    <3>1. kept[0] = <<>>
      BY <1>1, <1>4
    <3>2. From(<<>>, 0)
      BY DEF Sound
    <3> HIDE DEF From
    <3> QED
      BY <1>1, <3>1, <3>2
  <2>2. ASSUME NEW k \in (0 + 1)..n, k - 1 \in P PROVE k \in P
    <3> DEFINE s == kept[k - 1]
    <3>1. k \in 1..n /\ k \in 0..n /\ k # 0 /\ k - 1 \in 0..n
      BY <1>1
    <3>2. kept[k] = Body(s, k) /\ From(s, k - 1)
      <4> HIDE DEF Body, From
      <4> QED
        BY <1>4, <2>2, <3>1
    <3> HIDE DEF s
    <3>3. CASE g[k].addr_start = page
      <4>1. From(s, k)
        BY <3>1, <3>2
      <4> HIDE DEF From
      <4> QED
        BY <3>1, <3>2, <3>3, <4>1
    <3>4. CASE g[k].addr_start # page
      <4> DEFINE u == Append(s, g[k])
      <4>1. g[k] \in Regions /\ \A x \in DOMAIN s : Apart(s[x], g[k])
        <5>1. ASSUME NEW x \in DOMAIN s PROVE Apart(s[x], g[k])
          <6>1. PICK l \in 1..(k - 1) : s[x] = g[l]
            BY <3>2
          <6> QED
            BY <1>1, <3>1, <6>1 DEF Sound
        <5> QED
          BY <1>1, <3>1, <5>1
      <4>2. u \in S /\ Sound(u, Regions)
        BY <3>2, <4>1, AppendSound
      <4>3. \A x \in DOMAIN u : \E l \in 1..k : u[x] = g[l]
        <5> SUFFICES ASSUME NEW x \in DOMAIN u PROVE \E l \in 1..k : u[x] = g[l]
          OBVIOUS
        <5>1. (x = Len(s) + 1 /\ u[x] = g[k]) \/ (x \in DOMAIN s /\ u[x] = s[x])
          BY <3>2, <4>1
        <5> HIDE DEF u
        <5> QED
          BY <3>1, <3>2, <5>1
      <4>4. kept[k] = u
        BY <3>2, <3>4
      <4> HIDE DEF u
      <4> QED
        BY <3>1, <4>2, <4>3, <4>4
    <3> QED
      BY <3>3, <3>4
  <2>3. P \in SUBSET (0..n) /\ 0 \in Nat /\ n \in Nat /\ 0 <= n
    BY <1>1
  <2> HIDE DEF P
  <2>4. \A k \in 0..n : k \in P
    BY <2>1, <2>2, <2>3, LoopInvariant, Zenon
  <2> QED
    BY <2>4 DEF P
<1>7. From(kept[n], n)
  <2> HIDE DEF From
  <2> QED
    BY <1>1, <1>6
<1> QED
  BY <1>1, <1>5, <1>7

------------------------------------------------------------------------------
(* The parts of the invariant about one table and one set of allocations.    *)
LEMMA IInvSound ==
  ASSUME memory_regions \in Seq(Regions), granted \in Seq(Regions)
  PROVE  /\ Sound(memory_regions, Entries(Held)) <=> TableApart /\ HeldClear
         /\ Sound(granted, Regions) <=> GrantsExclusive
         /\ Held \in SUBSET Regions
BY DEF Sound, TableApart, HeldClear, GrantsExclusive, Held

(* An empty table and the whole firmware map satisfy the invariant.         *)
LEMMA InitIInv == Init => IInv
<1> SUFFICES ASSUME Init PROVE IInv
  OBVIOUS
<1>1. /\ memory_regions = <<>> /\ granted = <<>> /\ reserved = {} /\ serving = FALSE
      /\ mmap \in FirmwareMaps
  BY DEF Init
<1>2. mmap \in Seq(FirmwareRegions)
  BY <1>1, PmmAssumption
<1>3. TypeOK
  <2>1. memory_regions \in Seq(Regions) /\ granted \in Seq(Regions)
    BY <1>1
  <2>2. reserved \subseteq Blocks /\ serving \in BOOLEAN
    BY <1>1, Zenon
  <2> QED
    BY <1>2, <2>1, <2>2 DEF TypeOK
<1>4. TableApart /\ GrantsExclusive /\ HeldClear
  BY <1>1 DEF TableApart, GrantsExclusive, HeldClear
<1>5. PendingClear
  <2>1. DOMAIN memory_regions = {}
    BY <1>1
  <2> QED
    BY <1>1, <2>1, PmmProofAssumption DEF PendingClear
<1> QED
  BY <1>1, <1>3, <1>4, <1>5 DEF IInv

(* A firmware entry is entered: it and those to come keep apart.             *)
LEMMA AddRegionKeeps ==
  ASSUME IInv, pmm_add_region
  PROVE  IInv'
<1> DEFINE q == PageRounded(Head(mmap))
           U == {x \in Regions :
                   /\ x.addr_end <= PtrSpan
                   /\ \A e \in DOMAIN mmap :
                        e # 1 => Apart(x, PageRounded(mmap[e]))}
<1>1. /\ TypeOK /\ TableApart /\ HeldClear /\ PendingClear /\ granted = <<>>
      /\ mmap # <<>> /\ mmap' = Tail(mmap) /\ granted' = granted
      /\ reserved' = reserved /\ serving' = serving
      /\ memory_regions' = add_region(memory_regions, Head(mmap))
  BY DEF IInv, pmm_add_region
<1>2. /\ memory_regions \in Seq(Regions)
      /\ mmap \in Seq(FirmwareRegions)
  BY <1>1 DEF TypeOK
<1>3. /\ 1 \in DOMAIN mmap /\ Head(mmap) = mmap[1] /\ Head(mmap) \in Regions
      /\ Tail(mmap) \in Seq(FirmwareRegions)
      /\ \A e \in DOMAIN Tail(mmap) :
           e + 1 \in DOMAIN mmap /\ e + 1 # 1 /\ Tail(mmap)[e] = mmap[e + 1]
  <2>1. Head(mmap) \in FirmwareRegions
    BY <1>1, <1>2
  <2>2. Head(mmap) \in Regions
    BY <2>1 DEF Regions, RegionTypes, FirmwareRegions
  <2> QED
    BY <1>1, <1>2, <2>2
<1>4. Sound(memory_regions, U)
  <2>1. \A i \in DOMAIN memory_regions : memory_regions[i] \in U
    BY <1>1, <1>2 DEF HeldClear, PendingClear, Entries
  <2> QED
    BY <1>1, <2>1 DEF Sound, TableApart
<1>5. q \in U /\ \A i \in DOMAIN memory_regions : Apart(memory_regions[i], q)
  <2>1. q \in Regions
    BY <1>3, PageRoundedType
  <2> QED
    BY <1>1, <1>3, <2>1 DEF PendingClear
<1>6. memory_regions' \in Seq(Regions) /\ Sound(memory_regions', U)
  <2> HIDE DEF U
  <2> QED
    BY <1>1, <1>2, <1>3, <1>4, <1>5, AddRegionSound
<1>7. TypeOK'
  BY <1>1, <1>3, <1>6 DEF TypeOK
<1>8. TableApart' /\ GrantsExclusive'
  BY <1>1, <1>6 DEF TableApart, GrantsExclusive, Sound
<1>9. HeldClear'
  <2>1. Held' = {}
    BY <1>1 DEF Held
  <2>2. U \subseteq Entries({})
    BY DEF Entries
  <2> QED
    BY <1>6, <2>1, <2>2 DEF HeldClear, Sound
<1>10. PendingClear'
  <2> SUFFICES ASSUME NEW e \in DOMAIN Tail(mmap)
               PROVE  /\ PageRounded(Tail(mmap)[e]).addr_end <= PtrSpan
                      /\ \A f \in DOMAIN Tail(mmap) :
                           e # f => Apart(PageRounded(Tail(mmap)[e]),
                                          PageRounded(Tail(mmap)[f]))
                      /\ \A i \in DOMAIN memory_regions' :
                           Apart(memory_regions'[i], PageRounded(Tail(mmap)[e]))
    BY <1>1 DEF PendingClear
  <2>1. e + 1 \in DOMAIN mmap /\ e + 1 # 1 /\ Tail(mmap)[e] = mmap[e + 1]
    BY <1>3
  <2>2. PageRounded(mmap[e + 1]).addr_end <= PtrSpan
    BY <1>1, <2>1 DEF PendingClear
  <2>3. ASSUME NEW f \in DOMAIN Tail(mmap), e # f
        PROVE  Apart(PageRounded(mmap[e + 1]), PageRounded(Tail(mmap)[f]))
    <3>1. f + 1 \in DOMAIN mmap /\ Tail(mmap)[f] = mmap[f + 1] /\ e + 1 # f + 1
      BY <1>2, <1>3, <2>3
    <3> QED
      BY <1>1, <2>1, <3>1 DEF PendingClear
  <2>4. ASSUME NEW i \in DOMAIN memory_regions'
        PROVE  Apart(memory_regions'[i], PageRounded(mmap[e + 1]))
    <3>1. memory_regions'[i] \in U
      BY <1>6 DEF Sound
    <3> QED
      BY <2>1, <3>1
  <2> QED
    BY <2>1, <2>2, <2>3, <2>4
<1> QED
  BY <1>1, <1>7, <1>8, <1>9, <1>10 DEF IInv

(* A block is reserved: whatever is carved out of the table is owned.        *)
LEMMA ReserveKeeps ==
  ASSUME IInv, NEW b \in Blocks, pmm_reserve_memory_region(b)
  PROVE  IInv'
<1>1. /\ TypeOK /\ TableApart /\ GrantsExclusive /\ HeldClear
      /\ mmap = <<>> /\ mmap' = mmap /\ granted' = granted
      /\ reserved' = reserved \cup {b} /\ serving' = serving
      /\ memory_regions' = reserve_memory_region(memory_regions, b)
  BY DEF IInv, pmm_reserve_memory_region
<1>2. /\ memory_regions \in Seq(Regions) /\ granted \in Seq(Regions)
      /\ Held \in SUBSET Regions /\ Sound(memory_regions, Entries(Held))
  BY <1>1, IInvSound DEF TypeOK
<1>3. /\ b \in [addr_start : Nat, addr_end : Nat]
      /\ b.addr_start <= b.addr_end /\ RoundUp(b.addr_end) < PtrSpan
  BY PmmAssumption, PmmProofAssumption
<1>4. memory_regions' \in Seq(Regions) /\ Sound(memory_regions', Entries(Held))
  BY <1>1, <1>2, <1>3, ReserveSound
<1>5. TypeOK'
  BY <1>1, <1>4 DEF TypeOK
<1>6. TableApart' /\ GrantsExclusive'
  BY <1>1, <1>4 DEF TableApart, GrantsExclusive, Sound
<1>7. HeldClear'
  BY <1>1, <1>4 DEF HeldClear, Held, Sound
<1>8. PendingClear'
  BY <1>1 DEF PendingClear
<1> QED
  BY <1>1, <1>5, <1>6, <1>7, <1>8 DEF IInv

(* An allocation: what the caller is given was clear of what callers hold.   *)
LEMMA AllocateKeeps ==
  ASSUME IInv, NEW pages \in PageCounts, NEW type \in OwnerTypes,
         pmm_allocate_region_with_type(pages, type)
  PROVE  IInv'
<1> DEFINE call == allocate_region(memory_regions, pages, type)
           g    == Grant(memory_regions, pages, type)
<1>1. /\ TypeOK /\ TableApart /\ GrantsExclusive /\ HeldClear
      /\ mmap = <<>> /\ mmap' = mmap /\ reserved' = reserved /\ serving' = TRUE
      /\ memory_regions' = call.table
      /\ granted' = IF call.ret = 0 THEN granted ELSE Append(granted, g)
  BY DEF IInv, pmm_allocate_region_with_type, Grant
<1>2. /\ memory_regions \in Seq(Regions) /\ granted \in Seq(Regions)
      /\ Held \in SUBSET Regions /\ Sound(memory_regions, Entries(Held))
      /\ Sound(granted, Regions)
  BY <1>1, IInvSound DEF TypeOK
<1>3. pages \in Nat /\ pages * PageSize < PtrSpan
  BY PmmAssumption, PmmProofAssumption
<1>4. /\ call.table \in Seq(Regions)
      /\ call.ret = 0 => Sound(call.table, Entries(Held))
      /\ call.ret # 0 => /\ g \in Regions
                         /\ \A x \in Held : Apart(g, x)
                         /\ Sound(call.table, Entries(Held \cup {g}))
  BY <1>2, <1>3, AllocateSound
<1> HIDE DEF call, g
<1>5. /\ granted' \in Seq(Regions) /\ Sound(granted', Regions)
      /\ Held' \subseteq (IF call.ret = 0 THEN Held ELSE Held \cup {g})
  <2>1. CASE call.ret = 0
    BY <1>1, <1>2, <2>1 DEF Held
  <2>2. CASE call.ret # 0
    <3>1. \A k \in DOMAIN granted : Apart(granted[k], g)
      BY <1>4, <2>2 DEF Held, Apart
    <3>2. Append(granted, g) \in Seq(Regions) /\ Sound(Append(granted, g), Regions)
      BY <1>2, <1>4, <2>2, <3>1, AppendSound
    <3>3. ASSUME NEW k \in DOMAIN Append(granted, g)
          PROVE  Append(granted, g)[k] \in Held \cup {g}
      <4>1. k \in DOMAIN granted \/ k = Len(granted) + 1
        BY <1>2
      <4> QED
        BY <1>2, <4>1 DEF Held
    <3> QED
      BY <1>1, <2>2, <3>2, <3>3 DEF Held
  <2> QED
    BY <2>1, <2>2
<1>6. Sound(memory_regions', Entries(Held'))
  <2> DEFINE G == IF call.ret = 0 THEN Held ELSE Held \cup {g}
  <2>1. Sound(memory_regions', Entries(G)) /\ Held' \subseteq G
    BY <1>1, <1>4, <1>5
  <2> HIDE DEF G
  <2>2. Entries(G) \subseteq Entries(Held')
    BY <2>1 DEF Entries
  <2> QED
    BY <2>1, <2>2 DEF Sound
<1>7. TypeOK'
  BY <1>1, <1>4, <1>5 DEF TypeOK
<1>8. TableApart' /\ HeldClear'
  BY <1>6 DEF TableApart, HeldClear, Sound
<1>9. GrantsExclusive'
  BY <1>5 DEF GrantsExclusive, Sound
<1>10. PendingClear'
  BY <1>1 DEF PendingClear
<1> QED
  BY <1>1, <1>7, <1>8, <1>9, <1>10 DEF IInv

(* A deallocation: what becomes available was nobody's, and callers hold no  *)
(* more than before.                                                         *)
LEMMA DeallocateKeeps ==
  ASSUME IInv, NEW addr \in FreeAddrs, pmm_deallocate(addr)
  PROVE  IInv'
<1>1. /\ TypeOK /\ TableApart /\ GrantsExclusive /\ HeldClear
      /\ mmap = <<>> /\ mmap' = mmap /\ reserved' = reserved /\ serving' = TRUE
      /\ memory_regions' = deallocate(memory_regions, addr)
      /\ granted' = StillHeld(granted, RoundDown(addr))
  BY DEF IInv, pmm_deallocate
<1>2. /\ memory_regions \in Seq(Regions) /\ granted \in Seq(Regions)
      /\ Held \in SUBSET Regions /\ Sound(memory_regions, Entries(Held))
      /\ Sound(granted, Regions)
  BY <1>1, IInvSound DEF TypeOK
<1>3. memory_regions' \in Seq(Regions) /\ Sound(memory_regions', Entries(Held))
  BY <1>1, <1>2, DeallocateSound
<1>4. /\ granted' \in Seq(Regions) /\ Sound(granted', Regions)
      /\ \A x \in DOMAIN granted' : \E l \in DOMAIN granted : granted'[x] = granted[l]
  BY <1>1, <1>2, StillHeldSound
<1>5. Held' \subseteq Held
  BY <1>4 DEF Held
<1>6. Sound(memory_regions', Entries(Held'))
  <2>1. Entries(Held) \subseteq Entries(Held')
    BY <1>5 DEF Entries
  <2> QED
    BY <1>3, <2>1 DEF Sound
<1>7. TypeOK'
  BY <1>1, <1>3, <1>4 DEF TypeOK
<1>8. TableApart' /\ HeldClear'
  BY <1>6 DEF TableApart, HeldClear, Sound
<1>9. GrantsExclusive'
  BY <1>4 DEF GrantsExclusive, Sound
<1>10. PendingClear'
  BY <1>1 DEF PendingClear
<1> QED
  BY <1>1, <1>7, <1>8, <1>9, <1>10 DEF IInv

------------------------------------------------------------------------------
(* No call of pmm.c and no step of the boot code breaks the invariant.      *)
LEMMA StepKeeps == IInv /\ [Next]_vars => IInv'
<1> SUFFICES ASSUME IInv, [Next]_vars PROVE IInv'
  OBVIOUS
<1>1. CASE pmm_add_region
  BY <1>1, AddRegionKeeps
<1>2. CASE \E b \in Blocks : pmm_reserve_memory_region(b)
  BY <1>2, ReserveKeeps
<1>3. CASE \E pages \in PageCounts, type \in OwnerTypes :
             pmm_allocate_region_with_type(pages, type)
  BY <1>3, AllocateKeeps
<1>4. CASE \E addr \in FreeAddrs : pmm_deallocate(addr)
  BY <1>4, DeallocateKeeps
<1>5. CASE UNCHANGED vars
  BY <1>5 DEF IInv, TypeOK, TableApart, GrantsExclusive, HeldClear, Held,
              PendingClear, vars
<1> QED
  BY <1>1, <1>2, <1>3, <1>4, <1>5 DEF Next

(* The invariant of boot and of every allocation and deallocation after it.  *)
THEOREM Invariance == Spec => []IInv
<1>1. Init => IInv
  BY InitIInv
<1>2. IInv /\ [Next]_vars => IInv'
  BY StepKeeps
<1> QED
  BY <1>1, <1>2, PTL DEF Spec

(* The table only ever holds well-formed entries, though the C code indexes  *)
(* and shortens it by hand (pmm.c:11-319).                                   *)
THEOREM TypeCorrect == Spec => []TypeOK
<1>1. IInv => TypeOK
  BY DEF IInv
<1> QED
  BY <1>1, Invariance, PTL

(* However boot, allocations and deallocations carve, split, join and sort   *)
(* the table, no address ever gets two types (pmm.c:105-132, 177-186,        *)
(* 236-273, 279-319).                                                        *)
THEOREM TableAlwaysApart == Spec => []TableApart
<1>1. IInv => TableApart
  BY DEF IInv
<1> QED
  BY <1>1, Invariance, PTL

(* No two callers of pmm_allocate_region_with_type ever hold the same byte,  *)
(* whatever was freed and reserved in between (pmm.c:137-277).               *)
THEOREM AllocationsExclusive == Spec => []GrantsExclusive
<1>1. IInv => GrantsExclusive
  BY DEF IInv
<1> QED
  BY <1>1, Invariance, PTL
------------------------------------------------------------------------------
(***************************************************************************)
(* The theorems about Pmm that need the order of the table: the table is   *)
(* sorted, nothing is lost from it, what callers hold is in it, memory in  *)
(* use is not handed out, and Pmm implements PhysMem.                      *)
(***************************************************************************)

(***************************************************************************)
(* What the boot code relies on and does not check, beyond the assumption  *)
(* above.  About fragments of pages in the firmware's map: one that      *)
(* rounds to no length is not reported after an entry that starts above it *)
(* (otherwise the sort drops an entry), and where one of negative length   *)
(* starts, no entry ends and no block begins (otherwise the merging cuts   *)
(* an entry short).  About blocks: none is empty, no two share a page, and *)
(* each lies in one available entry or apart from all (main.c:148-151 has  *)
(* no other way of protecting it).                                         *)
(***************************************************************************)
ASSUME PmmOrderAssumption ==
  /\ \A m \in FirmwareMaps :
       /\ \A e, f \in DOMAIN m :
            /\ e < f /\ ~Empty(PageRounded(m[e])) /\ Empty(PageRounded(m[f]))
                 => PageRounded(m[e]).addr_start <= PageRounded(m[f]).addr_start
            /\ Fragment(PageRounded(m[f]))
                 => PageRounded(m[e]).addr_end # PageRounded(m[f]).addr_start
       /\ \A b \in Blocks :
            /\ \A f \in DOMAIN m : Fragment(PageRounded(m[f]))
                 => RoundDown(b.addr_start) # PageRounded(m[f]).addr_start
            /\ \/ \E e \in DOMAIN m :
                    /\ m[e].type = "AVAILABLE"
                    /\ PageRounded(m[e]).addr_start <= ReservedRange(b).addr_start
                    /\ ReservedRange(b).addr_end <= PageRounded(m[e]).addr_end
               \/ \A e \in DOMAIN m : Apart(PageRounded(m[e]), ReservedRange(b))
  /\ \A b \in Blocks : b.addr_start < b.addr_end
  /\ \A b, c \in Blocks : b # c => Apart(ReservedRange(b), ReservedRange(c))

\* The entries there are and those the firmware has still to report.
Pending == {PageRounded(mmap[e]) : e \in DOMAIN mmap}
Known   == Content(memory_regions) \cup Pending

\* The ranges of the blocks the boot code has asked to be reserved.
ReservedRanges == {ReservedRange(b) : b \in reserved}

\* A firmware entry of no length will not find an entry above it in the table.
PendingInPlace ==
  /\ \A e, f \in DOMAIN mmap :
       e < f /\ ~Empty(PageRounded(mmap[e])) /\ Empty(PageRounded(mmap[f]))
         => PageRounded(mmap[e]).addr_start <= PageRounded(mmap[f]).addr_start
  /\ \A i \in DOMAIN memory_regions, f \in DOMAIN mmap :
       Empty(PageRounded(mmap[f]))
         => memory_regions[i].addr_start <= PageRounded(mmap[f]).addr_start

\* Merging and reserving will not cut an entry short.
FragmentsClear ==
  /\ NoneTouchesFragment(Known)
  /\ ~serving => \A x \in Known : Fragment(x) =>
                   \A b \in Blocks : RoundDown(b.addr_start) # x.addr_start

\* A block that is still to be reserved can be, or nothing will be handed out
\* there anyhow.
BlocksSheltered ==
  ~serving => \A b \in Blocks \ reserved : Sheltered(Known, ReservedRange(b))

\* What can be handed out keeps clear of what has been reserved, and what has
\* been handed out does.
ReservedClear ==
  /\ \A i \in DOMAIN memory_regions : memory_regions[i] \in Entries(ReservedRanges)
  /\ \A r \in ReservedRanges : \A k \in DOMAIN granted : Apart(r, granted[k])

\* Calls come in the order of kickstart_main, and what they grant is owned.
CallsInOrder ==
  /\ serving \/ reserved # {} => mmap = <<>>
  /\ ~serving => granted = <<>>
  /\ \A k \in DOMAIN granted : granted[k].type \in OwnerTypes

\* The inductive invariant, together with that of PmmProofs.
OrderInv ==
  /\ TableInOrder
  /\ GrantsRecorded
  /\ PendingInPlace
  /\ FragmentsClear
  /\ BlocksSheltered
  /\ ReservedClear
  /\ CallsInOrder

\* What holds between any two calls of pmm.c, and is kept by each call because
\* all of it held before.
PmmInv == IInv /\ OrderInv

------------------------------------------------------------------------------
(* What the two invariants say of the table, as facts about tables.          *)
LEMMA TableFacts ==
  ASSUME IInv, OrderInv
  PROVE  /\ memory_regions \in Seq(Regions) /\ InOrder(memory_regions)
         /\ ReservedRanges \in SUBSET Regions
         /\ Sound(memory_regions, Entries(ReservedRanges))
         /\ Sound(memory_regions, Regions)
<1>1. /\ TypeOK /\ TableApart /\ TableInOrder /\ ReservedClear
  BY DEF IInv, OrderInv
<1>2. memory_regions \in Seq(Regions) /\ InOrder(memory_regions)
  BY <1>1 DEF TypeOK, TableInOrder, InOrder
<1>3. ReservedRanges \in SUBSET Regions
  <2>1. ASSUME NEW b \in reserved PROVE ReservedRange(b) \in Regions
    <3>1. /\ b \in Blocks /\ b \in [addr_start : Nat, addr_end : Nat]
          /\ b.addr_start < b.addr_end /\ RoundUp(b.addr_end) < PtrSpan
      BY <1>1, PmmAssumption, PmmProofAssumption, PmmOrderAssumption DEF TypeOK
    <3> QED
      BY <3>1, ReservedRangeType
  <2> QED
    BY <2>1 DEF ReservedRanges
<1>4. Sound(memory_regions, Entries(ReservedRanges))
  BY <1>1 DEF Sound, TableApart, ReservedClear
<1>5. Sound(memory_regions, Regions)
  BY <1>2, <1>4, SoundIsRegions
<1> QED
  BY <1>2, <1>3, <1>4, <1>5

(* A block's range is a range of at least one page below the pointer's end.  *)
LEMMA BlockRange ==
  ASSUME NEW b \in Blocks
  PROVE  /\ b \in [addr_start : Nat, addr_end : Nat]
         /\ b.addr_start < b.addr_end /\ RoundUp(b.addr_end) < PtrSpan
         /\ ReservedRange(b) \in Regions /\ ReservedRange(b).type \in OwnerTypes
         /\ ReservedRange(b).addr_start = RoundDown(b.addr_start)
         /\ ReservedRange(b).addr_start <= b.addr_start
         /\ b.addr_end <= ReservedRange(b).addr_end
         /\ ReservedRange(b).addr_start < ReservedRange(b).addr_end
         /\ ReservedRange(b).addr_start \in Nat
         /\ ReservedRange(b).addr_end \in Nat
<1>1. /\ b \in [addr_start : Nat, addr_end : Nat]
      /\ b.addr_start < b.addr_end /\ RoundUp(b.addr_end) < PtrSpan
  BY PmmAssumption, PmmProofAssumption, PmmOrderAssumption
<1>2. /\ ReservedRange(b) \in Regions /\ ReservedRange(b).type \in OwnerTypes
      /\ ReservedRange(b).addr_start = RoundDown(b.addr_start)
      /\ ReservedRange(b).addr_start <= b.addr_start
      /\ b.addr_end <= ReservedRange(b).addr_end
      /\ ReservedRange(b).addr_start < ReservedRange(b).addr_end
  BY <1>1, ReservedRangeType
<1> QED
  BY <1>1, <1>2 DEF Regions

(* An empty table and the whole firmware map satisfy the invariant.          *)
LEMMA InitOrderInv == Init => OrderInv
<1> SUFFICES ASSUME Init PROVE OrderInv
  OBVIOUS
<1>1. /\ memory_regions = <<>> /\ granted = <<>> /\ reserved = {} /\ serving = FALSE
      /\ mmap \in FirmwareMaps
  BY DEF Init
<1>2. mmap \in Seq(FirmwareRegions)
  BY <1>1, PmmAssumption
<1>3. DOMAIN memory_regions = {} /\ DOMAIN granted = {} /\ Known = Pending
  BY <1>1 DEF Known, Content
<1>4. TableInOrder /\ GrantsRecorded /\ CallsInOrder
  BY <1>1, <1>3 DEF TableInOrder, GrantsRecorded, CallsInOrder
<1>5. PendingInPlace
  BY <1>1, <1>3, PmmOrderAssumption DEF PendingInPlace
<1>6. FragmentsClear
  BY <1>1, <1>3, PmmOrderAssumption
  DEF FragmentsClear, NoneTouchesFragment, Pending
<1>7. BlocksSheltered
  <2> SUFFICES ASSUME NEW b \in Blocks PROVE Sheltered(Known, ReservedRange(b))
    BY DEF BlocksSheltered
  <2>1. CASE \E e \in DOMAIN mmap :
               /\ mmap[e].type = "AVAILABLE"
               /\ PageRounded(mmap[e]).addr_start <= ReservedRange(b).addr_start
               /\ ReservedRange(b).addr_end <= PageRounded(mmap[e]).addr_end
    <3>1. PICK e \in DOMAIN mmap :
               /\ mmap[e].type = "AVAILABLE"
               /\ PageRounded(mmap[e]).addr_start <= ReservedRange(b).addr_start
               /\ ReservedRange(b).addr_end <= PageRounded(mmap[e]).addr_end
      BY <2>1
    <3>2. mmap[e] \in Regions
      <4>1. mmap[e] \in FirmwareRegions
        BY <1>2
      <4> QED
        BY <4>1 DEF Regions, RegionTypes, FirmwareRegions
    <3>3. PageRounded(mmap[e]).type = "AVAILABLE"
      BY <3>1, <3>2, PageRoundedType
    <3>4. PageRounded(mmap[e]) \in Known
      BY <1>3 DEF Pending
    <3> QED
      BY <3>1, <3>3, <3>4 DEF Sheltered
  <2>2. CASE \A e \in DOMAIN mmap : Apart(PageRounded(mmap[e]), ReservedRange(b))
    BY <1>3, <2>2 DEF Sheltered, Pending
  <2> QED
    BY <1>1, <2>1, <2>2, PmmOrderAssumption
<1>8. ReservedClear
  BY <1>1, <1>3 DEF ReservedClear, ReservedRanges
<1> QED
  BY <1>4, <1>5, <1>6, <1>7, <1>8 DEF OrderInv

(* A firmware entry is entered: none there was is lost, and an entry that is *)
(* not empty takes its place in the order.                                   *)
LEMMA AddRegionKeepsOrder ==
  ASSUME IInv, OrderInv, pmm_add_region, IInv'
  PROVE  /\ OrderInv'
         /\ Content(memory_regions')
              = {x \in Content(memory_regions) \cup {PageRounded(Head(mmap))} :
                   ~Empty(x)}
<1> DEFINE t == memory_regions
           u == memory_regions'
           q == PageRounded(Head(mmap))
           rest == Tail(mmap)
<1>1. /\ mmap # <<>> /\ mmap' = rest /\ granted' = granted
      /\ reserved' = reserved /\ serving' = serving
      /\ u = add_region(t, Head(mmap))
      /\ reserved = {} /\ ~serving /\ granted = <<>>
  BY DEF pmm_add_region, OrderInv, CallsInOrder
<1>2. /\ t \in Seq(Regions) /\ InOrder(t) /\ Sound(t, Regions)
  BY TableFacts
<1>3. mmap \in Seq(FirmwareRegions) /\ PendingClear /\ HeldClear'
  BY DEF IInv, TypeOK
<1>4. /\ 1 \in DOMAIN mmap /\ Head(mmap) = mmap[1] /\ Head(mmap) \in Regions
      /\ \A e \in DOMAIN rest :
           e + 1 \in DOMAIN mmap /\ 1 < e + 1 /\ rest[e] = mmap[e + 1]
      /\ \A e, f \in DOMAIN rest : e < f => e + 1 < f + 1
  <2>1. Head(mmap) \in FirmwareRegions
    BY <1>1, <1>3
  <2>2. Head(mmap) \in Regions
    BY <2>1 DEF Regions, RegionTypes, FirmwareRegions
  <2> QED
    BY <1>1, <1>3, <2>2
<1>5. /\ \A i \in DOMAIN t : Apart(t[i], q)
      /\ Empty(q) => \A i \in DOMAIN t : t[i].addr_start <= q.addr_start
  BY <1>3, <1>4 DEF PendingClear, OrderInv, PendingInPlace
<1>6. /\ InOrder(u)
      /\ Content(u) = {x \in Content(t) \cup {q} : ~Empty(x)}
  BY <1>1, <1>2, <1>4, <1>5, AddRegionOrders
<1>7. /\ Known' = Content(u) \cup Pending'
      /\ Pending' \subseteq Pending /\ q \in Pending
      /\ \A x \in Pending : x = q \/ x \in Pending'
  <2>1. Known' = Content(u) \cup Pending'
    BY DEF Known
  <2>2. Pending' = {PageRounded(rest[e]) : e \in DOMAIN rest}
    BY <1>1 DEF Pending
  <2>3. q \in Pending /\ Pending' \subseteq Pending
    BY <1>4, <2>2 DEF Pending
  <2>4. ASSUME NEW e \in DOMAIN mmap, e # 1
        PROVE  PageRounded(mmap[e]) \in Pending'
    <3>1. e - 1 \in DOMAIN rest /\ rest[e - 1] = mmap[e]
      BY <1>1, <1>3, <2>4
    <3> QED
      BY <2>2, <3>1
  <2> QED
    BY <1>4, <2>1, <2>3, <2>4 DEF Pending
<1>8. /\ Known' \subseteq Known
      /\ \A x \in Known : ~Empty(x) => x \in Known'
  BY <1>6, <1>7 DEF Known
<1> HIDE DEF t, u, q, rest
<1>9. TableInOrder' /\ GrantsRecorded' /\ CallsInOrder'
  <2>1. TableInOrder'
    BY <1>6 DEF TableInOrder, InOrder, u
  <2>2. GrantsRecorded'
    BY <1>1 DEF GrantsRecorded
  <2>3. CallsInOrder'
    BY <1>1 DEF CallsInOrder
  <2> QED
    BY <2>1, <2>2, <2>3
<1>10. PendingInPlace'
  <2>1. ASSUME NEW e \in DOMAIN rest, NEW f \in DOMAIN rest, e < f,
               ~Empty(PageRounded(rest[e])), Empty(PageRounded(rest[f]))
        PROVE  PageRounded(rest[e]).addr_start <= PageRounded(rest[f]).addr_start
    BY <1>4, <2>1 DEF OrderInv, PendingInPlace
  <2>2. ASSUME NEW i \in DOMAIN u, NEW f \in DOMAIN rest,
               Empty(PageRounded(rest[f]))
        PROVE  u[i].addr_start <= PageRounded(rest[f]).addr_start
    <3>1. u[i] \in Content(u)
      BY DEF Content
    <3>2. CASE u[i] \in Content(t)
      <4>1. PICK k \in DOMAIN t : u[i] = t[k]
        BY <3>2 DEF Content
      <4> QED
        BY <1>4, <2>2, <4>1 DEF OrderInv, PendingInPlace, t
    <3>3. CASE u[i] = q
      BY <1>4, <1>6, <2>2, <3>1, <3>3 DEF OrderInv, PendingInPlace, q
    <3> QED
      BY <1>6, <3>1, <3>2, <3>3
  <2> QED
    BY <1>1, <2>1, <2>2 DEF PendingInPlace, u
<1>11. FragmentsClear'
  BY <1>1, <1>8 DEF OrderInv, FragmentsClear, NoneTouchesFragment
<1>12. BlocksSheltered'
  <2>1. Known \in SUBSET Regions
    <3>1. ASSUME NEW e \in DOMAIN mmap PROVE PageRounded(mmap[e]) \in Regions
      <4>1. mmap[e] \in FirmwareRegions
        BY <1>3
      <4>2. mmap[e] \in Regions
        BY <4>1 DEF Regions, RegionTypes, FirmwareRegions
      <4> QED
        BY <4>2, PageRoundedType
    <3> QED
      BY <1>2, <3>1 DEF Known, Content, Pending, t
  <2>2. Known' \in SUBSET Known
    BY <1>8
  <2>3. ASSUME NEW b \in Blocks PROVE Sheltered(Known', ReservedRange(b))
    <3>1. Sheltered(Known, ReservedRange(b))
      BY <1>1 DEF OrderInv, BlocksSheltered
    <3>2. /\ ReservedRange(b) \in Regions
          /\ ReservedRange(b).addr_start < ReservedRange(b).addr_end
      BY BlockRange
    <3> QED
      BY <1>8, <2>1, <2>2, <3>1, <3>2, ShelterKept
  <2> QED
    BY <2>3 DEF BlocksSheltered
<1>13. ReservedClear'
  <2>1. ReservedRanges' = {}
    BY <1>1 DEF ReservedRanges
  <2>2. \A i \in DOMAIN memory_regions' : memory_regions'[i] \in Entries({})
    BY <1>3 DEF HeldClear, Entries
  <2> QED
    BY <2>1, <2>2 DEF ReservedClear
<1> QED
  BY <1>6, <1>9, <1>10, <1>11, <1>12, <1>13 DEF OrderInv, t, u, q

(* Carving keeps the parts of the table clear of fragments, if the range     *)
(* carved out does not begin at one (or begins its entry).                   *)
LEMMA CarvedClear ==
  ASSUME NEW t \in Seq(Regions), Sound(t, Regions), NEW u \in Seq(Regions),
         Sound(u, Regions), NEW i, NEW r, Carved(u, t, i, r),
         NoneTouchesFragment(Content(t)),
         \/ r.addr_start = t[i].addr_start
         \/ \A x \in Content(t) : Fragment(x) => r.addr_start # x.addr_start
  PROVE  /\ NoneTouchesFragment(Content(u))
         /\ \A x \in Content(u) : Fragment(x) => x \in Content(t)
<1> DEFINE low  == Region(t[i].addr_start, r.addr_start, t[i].type)
           high == Region(r.addr_end, t[i].addr_end, t[i].type)
<1>1. /\ i \in DOMAIN t /\ r \in Regions /\ r.type \in OwnerTypes
      /\ t[i].addr_start <= r.addr_start /\ r.addr_start < r.addr_end
      /\ r.addr_end <= t[i].addr_end
      /\ Content(u) = {x \in (Content(t) \ {t[i]}) \cup {low, r, high} : ~Empty(x)}
  BY DEF Carved, Parts
<1>2. t[i] \in Regions /\ t[i] \in Content(t)
  BY <1>1 DEF Content
<1>3. /\ low.addr_start = t[i].addr_start /\ low.addr_end = r.addr_start
      /\ high.addr_start = r.addr_end /\ high.addr_end = t[i].addr_end
      /\ high.type = t[i].type
  BY DEF Region
<1>4. /\ t[i].addr_start \in Nat /\ t[i].addr_end \in Nat
      /\ r.addr_start \in Nat /\ r.addr_end \in Nat
  BY <1>1, <1>2 DEF Regions
<1>5. ~Fragment(low) /\ ~Fragment(high) /\ ~Fragment(r)
  BY <1>1, <1>3, <1>4 DEF Fragment
<1> HIDE DEF low, high
<1>6. \A x \in Content(u) : Fragment(x) => x \in Content(t)
  BY <1>1, <1>5
<1>7. ASSUME NEW x \in Content(u), NEW y \in Content(u), Fragment(x),
             y.type \notin OwnerTypes
      PROVE  y.addr_end # x.addr_start
  <2>1. x \in Content(t)
    BY <1>6, <1>7
  <2>2. CASE y \in Content(t)
    BY <1>7, <2>1, <2>2 DEF NoneTouchesFragment
  <2>3. CASE y = high
    BY <1>2, <1>3, <1>7, <2>1, <2>3 DEF NoneTouchesFragment
  <2>4. CASE y = low
    <3>1. ~Empty(low)
      BY <1>1, <1>7, <2>4
    <3>2. r.addr_start # t[i].addr_start
      BY <1>3, <3>1 DEF Empty
    <3> QED
      BY <1>3, <1>7, <2>1, <2>4, <3>2
  <2> QED
    BY <1>1, <1>7, <2>2, <2>3, <2>4
<1> QED
  BY <1>6, <1>7 DEF NoneTouchesFragment

(* A block is reserved: its range is carved out of the table, or nothing     *)
(* available was there.                                                      *)
LEMMA ReserveKeepsOrder ==
  ASSUME IInv, OrderInv, NEW b \in Blocks, pmm_reserve_memory_region(b), IInv'
  PROVE  /\ OrderInv'
         /\ \/ memory_regions' = memory_regions
            \/ \E i \in DOMAIN memory_regions :
                 Carved(memory_regions', memory_regions, i, ReservedRange(b))
<1> DEFINE t == memory_regions
           u == memory_regions'
           r == ReservedRange(b)
           G == ReservedRanges
<1>1. /\ mmap = <<>> /\ mmap' = mmap /\ ~serving /\ serving' = serving
      /\ reserved' = reserved \cup {b} /\ granted' = granted /\ granted = <<>>
      /\ u = reserve_memory_region(t, b)
  BY DEF pmm_reserve_memory_region, OrderInv, CallsInOrder
<1>2. /\ t \in Seq(Regions) /\ InOrder(t) /\ G \in SUBSET Regions
      /\ Sound(t, Entries(G)) /\ Sound(t, Regions)
  BY TableFacts
<1>3. /\ b \in [addr_start : Nat, addr_end : Nat]
      /\ b.addr_start < b.addr_end /\ RoundUp(b.addr_end) < PtrSpan
      /\ r \in Regions /\ r.type \in OwnerTypes
      /\ r.addr_start = RoundDown(b.addr_start)
      /\ r.addr_start < r.addr_end
      /\ r.addr_start \in Nat /\ r.addr_end \in Nat
  BY BlockRange
<1>4. b.addr_start <= b.addr_end
  BY <1>3
<1>5. u \in Seq(Regions) /\ Sound(u, Entries(G)) /\ Sound(u, Regions)
  <2>1. u \in Seq(Regions) /\ Sound(u, Entries(G))
    BY <1>1, <1>2, <1>3, <1>4, ReserveSound
  <2> QED
    BY <2>1, SoundIsRegions
<1>6. \/ Containing(t, r) = {} /\ u = t
      \/ \E i \in DOMAIN t : Carved(u, t, i, r)
  BY <1>1, <1>2, <1>3, ReserveOrders
<1>7. Known = Content(t) /\ Known' = Content(u)
  <2>1. Pending = {} /\ Pending' = {}
    BY <1>1 DEF Pending
  <2> QED
    BY <2>1 DEF Known
<1>8. ReservedRanges' = G \cup {r}
  BY <1>1 DEF ReservedRanges
<1>9. /\ FragmentsClear /\ BlocksSheltered
      /\ Sheltered(Content(t), r)
      /\ NoneTouchesFragment(Content(t))
      /\ \A x \in Content(t) : Fragment(x) =>
           \A c \in Blocks : RoundDown(c.addr_start) # x.addr_start
  <2>1. b \in Blocks \ reserved
    BY DEF pmm_reserve_memory_region
  <2> QED
    BY <1>1, <1>7, <2>1 DEF OrderInv, FragmentsClear, BlocksSheltered
<1>10. GrantsRecorded' /\ PendingInPlace' /\ CallsInOrder'
  <2>1. GrantsRecorded'
    BY <1>1 DEF GrantsRecorded
  <2>2. PendingInPlace'
    BY <1>1 DEF PendingInPlace
  <2>3. CallsInOrder'
    BY <1>1 DEF CallsInOrder
  <2> QED
    BY <2>1, <2>2, <2>3
<1>11. /\ InOrder(u) /\ Sound(u, Entries(G \cup {r}))
       /\ \A s \in Regions :
            s.addr_start < s.addr_end /\ Apart(s, r) /\ Sheltered(Content(t), s)
              => Sheltered(Content(u), s)
  <2> HIDE DEF t, r, G
  <2> QED
    BY <1>1, <1>2, <1>3, <1>9, ReserveProtects DEF r
<1>12. TableInOrder'
  BY <1>11 DEF TableInOrder, InOrder
<1>13. BlocksSheltered'
  <2> SUFFICES ASSUME NEW c \in Blocks \ reserved, c # b
               PROVE  Sheltered(Content(u), ReservedRange(c))
    BY <1>1, <1>7 DEF BlocksSheltered
  <2>1. Sheltered(Content(t), ReservedRange(c)) /\ Apart(ReservedRange(c), r)
    BY <1>1, <1>7, <1>9, PmmOrderAssumption DEF BlocksSheltered
  <2>2. /\ ReservedRange(c) \in Regions
        /\ ReservedRange(c).addr_start < ReservedRange(c).addr_end
    BY BlockRange
  <2> QED
    BY <1>11, <2>1, <2>2
<1>14. ReservedClear'
  <2>1. DOMAIN granted' = {}
    BY <1>1
  <2>2. \A i \in DOMAIN u : u[i] \in Entries(ReservedRanges')
    BY <1>8, <1>11 DEF Sound
  <2> QED
    BY <2>1, <2>2 DEF ReservedClear
<1>15. FragmentsClear'
  <2>1. CASE u = t
    BY <1>1, <1>7, <1>9, <2>1 DEF FragmentsClear
  <2>2. CASE \E i \in DOMAIN t : Carved(u, t, i, r)
    <3>1. PICK i \in DOMAIN t : Carved(u, t, i, r)
      BY <2>2
    <3>2. \A x \in Content(t) : Fragment(x) => r.addr_start # x.addr_start
      BY <1>3, <1>9
    <3>3. /\ NoneTouchesFragment(Content(u))
          /\ \A x \in Content(u) : Fragment(x) => x \in Content(t)
      <4> HIDE DEF t, u, r
      <4> QED
        BY <1>2, <1>5, <1>9, <3>1, <3>2, CarvedClear
    <3> QED
      BY <1>7, <1>9, <3>3 DEF FragmentsClear
  <2> QED
    BY <1>6, <2>1, <2>2
<1>16. OrderInv'
  BY <1>10, <1>12, <1>13, <1>14, <1>15 DEF OrderInv
<1> QED
  BY <1>6, <1>16

(* An allocation: what is granted is carved out of available memory and      *)
(* recorded, and what was recorded stays.                                    *)
LEMMA AllocateKeepsOrder ==
  ASSUME IInv, OrderInv, NEW pages \in PageCounts, NEW type \in OwnerTypes,
         pmm_allocate_region_with_type(pages, type), IInv'
  PROVE  /\ OrderInv'
         /\ \/ memory_regions' = memory_regions
            \/ \E i \in DOMAIN memory_regions :
                 Carved(memory_regions', memory_regions, i,
                        Grant(memory_regions, pages, type))
<1> DEFINE t    == memory_regions
           u    == memory_regions'
           call == allocate_region(t, pages, type)
           g    == Grant(t, pages, type)
           G    == ReservedRanges
<1>1. /\ mmap = <<>> /\ mmap' = mmap /\ serving' = TRUE /\ reserved' = reserved
      /\ u = call.table
      /\ granted' = IF call.ret = 0 THEN granted ELSE Append(granted, g)
      /\ g.type = type
  BY DEF pmm_allocate_region_with_type, Grant, Region
<1>2. /\ t \in Seq(Regions) /\ InOrder(t) /\ G \in SUBSET Regions
      /\ Sound(t, Entries(G)) /\ Sound(t, Regions)
  BY TableFacts
<1>3. pages \in Nat /\ pages * PageSize < PtrSpan
  BY PmmAssumption, PmmProofAssumption
<1>4. /\ u \in Seq(Regions)
      /\ call.ret = 0 => Sound(u, Entries(G))
      /\ call.ret # 0 => /\ g \in Regions /\ \A x \in G : Apart(g, x)
                         /\ Sound(u, Entries(G \cup {g}))
  BY <1>1, <1>2, <1>3, AllocateSound
<1>5. \/ u = t /\ call.ret = 0
      \/ /\ call.ret # 0 /\ g.addr_start >= LowMemory
         /\ \E i \in DOMAIN t : g.addr_start = t[i].addr_start /\ Carved(u, t, i, g)
  BY <1>1, <1>2, <1>3, AllocateOrders
<1>6. /\ granted \in Seq(Regions) /\ GrantsRecorded /\ ReservedClear
      /\ NoneTouchesFragment(Content(t))
      /\ \A k \in DOMAIN granted : granted[k].type \in OwnerTypes
  BY DEF IInv, TypeOK, OrderInv, CallsInOrder, FragmentsClear,
         NoneTouchesFragment, Known
<1>7. ReservedRanges' = G /\ Known' = Content(u)
  <2>1. Pending' = {}
    BY <1>1 DEF Pending
  <2> QED
    BY <1>1, <2>1 DEF ReservedRanges, Known
<1>8. PendingInPlace' /\ BlocksSheltered'
  BY <1>1 DEF PendingInPlace, BlocksSheltered
<1>9. CASE u = t /\ call.ret = 0
  <2>1. granted' = granted
    BY <1>1, <1>9
  <2>2. TableInOrder' /\ GrantsRecorded' /\ FragmentsClear' /\ CallsInOrder'
    BY <1>1, <1>6, <1>7, <1>9, <2>1
    DEF OrderInv, TableInOrder, GrantsRecorded, FragmentsClear, CallsInOrder
  <2>3. ReservedClear'
    BY <1>7, <1>9, <2>1 DEF OrderInv, ReservedClear
  <2> QED
    BY <1>8, <1>9, <2>2, <2>3 DEF OrderInv
<1>10. CASE /\ call.ret # 0 /\ g.addr_start >= LowMemory
            /\ \E i \in DOMAIN t : g.addr_start = t[i].addr_start /\ Carved(u, t, i, g)
  <2>1. PICK i \in DOMAIN t : g.addr_start = t[i].addr_start /\ Carved(u, t, i, g)
    BY <1>10
  <2>2. granted' = Append(granted, g) /\ g.addr_start >= LowMemory
    BY <1>1, <1>10
  <2>3. /\ g \in Regions /\ \A x \in G : Apart(g, x)
        /\ Sound(u, Entries(G \cup {g})) /\ Sound(u, Regions)
    <3>1. g \in Regions /\ (\A x \in G : Apart(g, x)) /\ Sound(u, Entries(G \cup {g}))
      BY <1>4, <1>10
    <3> QED
      BY <1>4, <3>1, SoundIsRegions
  <2> HIDE DEF t, u, call, g, G
  <2>4. /\ \A k \in DOMAIN granted' :
             granted'[k] = g \/ \E l \in DOMAIN granted : granted'[k] = granted[l]
    BY <1>6, <2>2, <2>3
  <2>5. /\ InOrder(u) /\ t[i].type = "AVAILABLE"
        /\ g.addr_start < g.addr_end
        /\ Content(u) = {x \in (Content(t) \ {t[i]}) \cup Parts(t[i], g) : ~Empty(x)}
    BY <2>1 DEF Carved
  <2>6. /\ g \in Content(u)
        /\ \A x \in Content(t) : x.type # "AVAILABLE" => x \in Content(u)
    <3>1. ~Empty(g) /\ g \in Parts(t[i], g)
      BY <2>3, <2>5 DEF Empty, Regions, Parts
    <3>2. \A x \in Content(t) : ~Empty(x)
      BY <1>2 DEF InOrder, Content
    <3> QED
      BY <2>5, <3>1, <3>2
  <2>7. TableInOrder'
    BY <2>5 DEF TableInOrder, InOrder, u
  <2>8. GrantsRecorded'
    <3> SUFFICES ASSUME NEW k \in DOMAIN granted'
                 PROVE  /\ granted'[k].addr_start >= LowMemory
                        /\ granted'[k] \in Content(u)
      BY DEF GrantsRecorded, Content, u
    <3>1. ASSUME NEW l \in DOMAIN granted
          PROVE  granted[l].addr_start >= LowMemory /\ granted[l] \in Content(u)
      <4>1. /\ granted[l].addr_start >= LowMemory
            /\ granted[l] \in Content(t) /\ granted[l].type \in OwnerTypes
        BY <1>6, <3>1 DEF GrantsRecorded, Content, t
      <4> QED
        BY <2>6, <4>1 DEF OwnerTypes
    <3> QED
      BY <2>2, <2>4, <2>6, <3>1
  <2>9. FragmentsClear'
    <3>1. NoneTouchesFragment(Content(u))
      BY <1>2, <1>4, <1>6, <2>1, <2>3, CarvedClear
    <3> QED
      BY <1>1, <1>7, <3>1 DEF FragmentsClear
  <2>10. ReservedClear'
    <3>1. \A k \in DOMAIN u : u[k] \in Entries(G)
      BY <2>3 DEF Sound, Entries
    <3>2. ASSUME NEW x \in G, NEW k \in DOMAIN granted' PROVE Apart(x, granted'[k])
      <4>1. Apart(x, g)
        BY <2>3 DEF Apart
      <4>2. \A l \in DOMAIN granted : Apart(x, granted[l])
        BY <1>6 DEF ReservedClear, G
      <4> QED
        BY <2>4, <4>1, <4>2
    <3> QED
      BY <1>7, <3>1, <3>2 DEF ReservedClear, u
  <2>11. CallsInOrder'
    <3>1. \A k \in DOMAIN granted' : granted'[k].type \in OwnerTypes
      BY <1>1, <1>6, <2>4
    <3> QED
      BY <1>1, <3>1 DEF CallsInOrder
  <2> QED
    BY <1>8, <2>1, <2>7, <2>8, <2>9, <2>10, <2>11 DEF OrderInv, t, u, g
<1> QED
  BY <1>5, <1>9, <1>10

(* A deallocation: no owned entry and no memory that was available is        *)
(* touched.                                                                  *)
LEMMA DeallocateKeepsOrder ==
  ASSUME IInv, OrderInv, NEW addr \in FreeAddrs, pmm_deallocate(addr), IInv'
  PROVE  OrderInv' /\ Released(memory_regions', memory_regions)
<1> DEFINE t == memory_regions
           u == memory_regions'
           G == ReservedRanges
<1>1. /\ mmap = <<>> /\ mmap' = mmap /\ serving' = TRUE /\ reserved' = reserved
      /\ u = deallocate(t, addr)
      /\ granted' = StillHeld(granted, RoundDown(addr))
  BY DEF pmm_deallocate
<1>2. /\ t \in Seq(Regions) /\ InOrder(t) /\ G \in SUBSET Regions
      /\ Sound(t, Entries(G))
  BY TableFacts
<1>3. /\ granted \in Seq(Regions) /\ GrantsExclusive /\ GrantsRecorded /\ ReservedClear
      /\ NoneTouchesFragment(Content(t))
      /\ \A k \in DOMAIN granted : granted[k].type \in OwnerTypes
  BY DEF IInv, TypeOK, OrderInv, CallsInOrder, FragmentsClear,
         NoneTouchesFragment, Known
<1>4. Sound(granted, Regions)
  BY <1>3 DEF Sound, GrantsExclusive
<1>5. \A x \in DOMAIN granted' : \E l \in DOMAIN granted : granted'[x] = granted[l]
  BY <1>1, <1>3, <1>4, StillHeldSound
<1>6. Released(u, t)
  BY <1>1, <1>2, <1>3, DeallocateOrders
<1>7. Sound(u, Entries(G))
  BY <1>1, <1>2, DeallocateSound
<1>8. ReservedRanges' = G /\ Known' = Content(u)
  <2>1. Pending' = {}
    BY <1>1 DEF Pending
  <2> QED
    BY <1>1, <2>1 DEF ReservedRanges, Known
<1>9. PendingInPlace' /\ BlocksSheltered'
  BY <1>1 DEF PendingInPlace, BlocksSheltered
<1> HIDE DEF t, u, G
<1>10. TableInOrder'
  BY <1>6 DEF Released, TableInOrder, InOrder, u
<1>11. GrantsRecorded'
  <2> SUFFICES ASSUME NEW k \in DOMAIN granted'
               PROVE  /\ granted'[k].addr_start >= LowMemory
                      /\ granted'[k] \in Content(u)
    BY DEF GrantsRecorded, Content, u
  <2>1. PICK l \in DOMAIN granted : granted'[k] = granted[l]
    BY <1>5
  <2>2. /\ granted[l].addr_start >= LowMemory
        /\ granted[l] \in Content(t) /\ granted[l].type \in OwnerTypes
    BY <1>3, <2>1 DEF GrantsRecorded, Content, t
  <2>3. granted[l].type \notin {"AVAILABLE", "RESERVED"}
    BY <2>2 DEF OwnerTypes
  <2> QED
    BY <1>6, <2>1, <2>2, <2>3 DEF Released
<1>12. FragmentsClear'
  BY <1>1, <1>6, <1>8 DEF Released, FragmentsClear
<1>13. ReservedClear'
  <2>1. ASSUME NEW x \in G, NEW k \in DOMAIN granted' PROVE Apart(x, granted'[k])
    BY <1>3, <1>5, <2>1 DEF ReservedClear, G
  <2> QED
    BY <1>7, <1>8, <2>1 DEF ReservedClear, Sound, u
<1>14. CallsInOrder'
  <2>1. \A k \in DOMAIN granted' : granted'[k].type \in OwnerTypes
    BY <1>3, <1>5
  <2> QED
    BY <1>1, <2>1 DEF CallsInOrder
<1> QED
  BY <1>6, <1>9, <1>10, <1>11, <1>12, <1>13, <1>14 DEF OrderInv, t, u

(* A step that changes nothing.                                              *)
LEMMA StutterKeepsOrder ==
  ASSUME OrderInv, UNCHANGED vars
  PROVE  OrderInv'
<1>1. /\ memory_regions' = memory_regions /\ mmap' = mmap /\ reserved' = reserved
      /\ granted' = granted /\ serving' = serving
  BY DEF vars
<1>2. Pending' = Pending /\ ReservedRanges' = ReservedRanges
  BY <1>1 DEF Pending, ReservedRanges
<1>3. Known' = Known
  BY <1>1, <1>2 DEF Known
<1>4. TableInOrder' /\ GrantsRecorded' /\ PendingInPlace' /\ CallsInOrder'
  BY <1>1 DEF OrderInv, TableInOrder, GrantsRecorded, PendingInPlace, CallsInOrder
<1>5. FragmentsClear' /\ BlocksSheltered'
  BY <1>1, <1>3 DEF OrderInv, FragmentsClear, BlocksSheltered
<1>6. ReservedClear'
  BY <1>1, <1>2 DEF OrderInv, ReservedClear
<1> QED
  BY <1>4, <1>5, <1>6 DEF OrderInv

------------------------------------------------------------------------------
(* No call of pmm.c and no step of the boot code breaks the two invariants.  *)
LEMMA StepKeepsOrder == IInv /\ OrderInv /\ [Next]_vars => IInv' /\ OrderInv'
<1> SUFFICES ASSUME IInv, OrderInv, [Next]_vars PROVE IInv' /\ OrderInv'
  OBVIOUS
<1>1. IInv'
  BY StepKeeps
<1>2. CASE pmm_add_region
  BY <1>1, <1>2, AddRegionKeepsOrder
<1>3. CASE \E b \in Blocks : pmm_reserve_memory_region(b)
  BY <1>1, <1>3, ReserveKeepsOrder
<1>4. CASE \E pages \in PageCounts, type \in OwnerTypes :
             pmm_allocate_region_with_type(pages, type)
  BY <1>1, <1>4, AllocateKeepsOrder
<1>5. CASE \E addr \in FreeAddrs : pmm_deallocate(addr)
  BY <1>1, <1>5, DeallocateKeepsOrder
<1>6. CASE UNCHANGED vars
  BY <1>1, <1>6, StutterKeepsOrder
<1> QED
  BY <1>2, <1>3, <1>4, <1>5, <1>6 DEF Next

(* The invariants hold of boot and of everything after it.                   *)
THEOREM OrderInvariance == Spec => []PmmInv
<1>1. Init => IInv /\ OrderInv
  BY InitIInv, InitOrderInv
<1>2. IInv /\ OrderInv /\ [Next]_vars => IInv' /\ OrderInv'
  BY StepKeepsOrder
<1> QED
  BY <1>1, <1>2, PTL DEF Spec, PmmInv

(* First fit, the early return of pmm_deallocate and the merging can rely on *)
(* a sorted table without zero-length entries, after every call              *)
(* (pmm.c:219, 236, 295-319).                                                *)
THEOREM TableAlwaysInOrder == Spec => []TableInOrder
<1>1. OrderInv => TableInOrder
  BY DEF OrderInv
<1> QED
  BY <1>1, OrderInvariance, PTL DEF PmmInv

(* Whatever was freed, merged and sorted since, what a caller still holds is *)
(* an entry of the table with the caller's own bounds and type, at or above  *)
(* 1 MiB (pmm.c:165-186).                                                    *)
THEOREM AllocationsRecorded == Spec => []GrantsRecorded
<1>1. OrderInv => GrantsRecorded
  BY DEF OrderInv
<1> QED
  BY <1>1, OrderInvariance, PTL DEF PmmInv

(* Kickstart's own memory and the kernel image are never handed out after    *)
(* the boot code has asked to reserve them, though the call that reserves    *)
(* them can fail without a word (main.c:148-151, pmm.c:85-88).               *)
THEOREM ReservedAlwaysProtected == Spec => []ReservedProtected
<1>1. IInv /\ OrderInv => ReservedProtected
  <2> SUFFICES ASSUME IInv, OrderInv, NEW b \in reserved, NEW k \in DOMAIN granted
               PROVE  Apart(b, granted[k])
    BY DEF ReservedProtected
  <2>1. /\ b \in Blocks /\ granted[k] \in Regions
        /\ Apart(ReservedRange(b), granted[k])
    BY DEF IInv, TypeOK, OrderInv, ReservedClear, ReservedRanges
  <2>2. /\ b \in [addr_start : Nat, addr_end : Nat]
        /\ ReservedRange(b).addr_start <= b.addr_start
        /\ b.addr_end <= ReservedRange(b).addr_end
        /\ ReservedRange(b).addr_start < ReservedRange(b).addr_end
        /\ ReservedRange(b).addr_start \in Nat /\ ReservedRange(b).addr_end \in Nat
    BY <2>1, BlockRange
  <2>3. /\ granted[k].addr_start \in Nat /\ granted[k].addr_end \in Nat
        /\ b.addr_start \in Nat /\ b.addr_end \in Nat
    BY <2>1, <2>2 DEF Regions
  <2> QED
    BY <2>1, <2>2, <2>3 DEF Apart
<1> QED
  BY <1>1, OrderInvariance, PTL DEF PmmInv

(* No entry is lost from the table while the firmware's map is entered       *)
(* (pmm.c:302, 318), unless the map has the fragments the assumption rules   *)
(* out.                                                                      *)
THEOREM ReportsAlwaysKept == Spec => ReportsKept
<1> DEFINE Kept == pmm_add_region
                     => \A i \in DOMAIN memory_regions :
                          \E j \in DOMAIN memory_regions' :
                            memory_regions'[j] = memory_regions[i]
<1>1. IInv /\ OrderInv /\ [Next]_vars => [Kept]_vars
  <2> SUFFICES ASSUME IInv, OrderInv, [Next]_vars, pmm_add_region,
                      NEW i \in DOMAIN memory_regions
               PROVE  \E j \in DOMAIN memory_regions' :
                        memory_regions'[j] = memory_regions[i]
    OBVIOUS
  <2>1. IInv'
    BY StepKeeps
  <2>2. Content(memory_regions')
          = {x \in Content(memory_regions) \cup {PageRounded(Head(mmap))} : ~Empty(x)}
    BY <2>1, AddRegionKeepsOrder
  <2>3. ~Empty(memory_regions[i])
    BY DEF OrderInv, TableInOrder
  <2>4. memory_regions[i] \in Content(memory_regions')
    BY <2>2, <2>3 DEF Content
  <2> QED
    BY <2>4 DEF Content
<1> QED
  BY <1>1, OrderInvariance, PTL DEF Spec, PmmInv, ReportsKept

------------------------------------------------------------------------------
(***************************************************************************)
(* Pmm implements PhysMem.  An address's owner is the type of the entry    *)
(* that covers it; as no two entries do, the order of the table does not   *)
(* matter.                                                                 *)
(***************************************************************************)
Covers(r, a) == r.addr_start <= a /\ a < r.addr_end

Owns(t, a, kind) ==
  \/ \E x \in Content(t) : Covers(x, a) /\ x.type = kind
  \/ kind = "HOLE" /\ \A x \in Content(t) : ~Covers(x, a)

FirstOwner(t, a) ==
  LET covering == {i \in DOMAIN t : t[i].addr_start <= a /\ a < t[i].addr_end}
  IN  IF covering = {} THEN "HOLE" ELSE t[Min(covering)].type

(* An address has one owner.                                                 *)
LEMMA OneOwner ==
  ASSUME NEW t \in Seq(Regions), Sound(t, Regions), NEW a \in Nat,
         NEW kind, Owns(t, a, kind)
  PROVE  FirstOwner(t, a) = kind
<1> DEFINE covering == {i \in DOMAIN t : t[i].addr_start <= a /\ a < t[i].addr_end}
<1>1. FirstOwner(t, a) = IF covering = {} THEN "HOLE" ELSE t[Min(covering)].type
  BY DEF FirstOwner
<1>2. CASE covering = {}
  <2>1. \A x \in Content(t) : ~Covers(x, a)
    BY <1>2 DEF Content, Covers
  <2> QED
    BY <1>1, <1>2, <2>1 DEF Owns
<1>3. CASE covering # {}
  <2>1. covering \in SUBSET Nat
    OBVIOUS
  <2> DEFINE k == Min(covering)
  <2>2. k \in covering
    <3> HIDE DEF covering
    <3> QED
      BY <1>3, <2>1, MinIsLeast
  <2>3. FirstOwner(t, a) = t[k].type
    BY <1>1, <1>3
  <2> HIDE DEF k
  <2>4. k \in DOMAIN t /\ t[k].addr_start <= a /\ a < t[k].addr_end
    BY <2>2
  <2>5. t[k] \in Content(t) /\ Covers(t[k], a)
    BY <2>4 DEF Content, Covers
  <2>6. PICK x \in Content(t) : Covers(x, a) /\ x.type = kind
    BY <2>5 DEF Owns
  <2>7. PICK l \in DOMAIN t : x = t[l]
    BY <2>6 DEF Content
  <2>8. /\ t[k].addr_start \in Nat /\ t[k].addr_end \in Nat
        /\ t[l].addr_start \in Nat /\ t[l].addr_end \in Nat
    <3>1. t[k] \in Regions /\ t[l] \in Regions
      BY <2>4, <2>7
    <3> QED
      BY <3>1 DEF Regions
  <2>9. k = l
    <3> SUFFICES ASSUME k # l PROVE FALSE
      OBVIOUS
    <3>1. Apart(t[k], t[l])
      BY <2>4, <2>7 DEF Sound
    <3> QED
      BY <2>5, <2>6, <2>7, <2>8, <3>1 DEF Apart, Covers
  <2> QED
    BY <2>3, <2>6, <2>7, <2>9
<1> QED
  BY <1>2, <1>3

(* Every address has an owner.                                               *)
LEMMA SomeOwner ==
  ASSUME NEW t \in Seq(Regions), NEW a \in Nat
  PROVE  /\ \E kind \in RegionTypes \cup {"HOLE"} : Owns(t, a, kind)
         /\ \A x \in Content(t) : Covers(x, a) => Owns(t, a, x.type)
<1>1. \A x \in Content(t) : Covers(x, a) => Owns(t, a, x.type)
  BY DEF Owns
<1>2. \A x \in Content(t) : x.type \in RegionTypes
  <2>1. \A x \in Content(t) : x \in Regions
    BY DEF Content
  <2> QED
    BY <2>1 DEF Regions
<1>3. (\A x \in Content(t) : ~Covers(x, a)) => Owns(t, a, "HOLE")
  BY DEF Owns
<1> QED
  BY <1>1, <1>2, <1>3

\* From table t to table u, addresses change hands, if at all, one way only.
Becomes(t, u, from, to) ==
  \A a \in Nat : \/ FirstOwner(u, a) = FirstOwner(t, a)
                 \/ FirstOwner(t, a) = from /\ FirstOwner(u, a) = to

(* It is enough to show it of the entries.                                   *)
LEMMA BecomesByEntries ==
  ASSUME NEW t \in Seq(Regions), Sound(t, Regions),
         NEW u \in Seq(Regions), Sound(u, Regions), NEW from, NEW to,
         \A a \in Nat : \A kind :
           Owns(t, a, kind) => \/ Owns(u, a, kind)
                               \/ kind = from /\ Owns(u, a, to)
  PROVE  Becomes(t, u, from, to)
<1> SUFFICES ASSUME NEW a \in Nat
             PROVE  \/ FirstOwner(u, a) = FirstOwner(t, a)
                    \/ FirstOwner(t, a) = from /\ FirstOwner(u, a) = to
  BY DEF Becomes
<1>1. PICK kind \in RegionTypes \cup {"HOLE"} : Owns(t, a, kind)
  BY SomeOwner
<1>2. Owns(u, a, kind) \/ (kind = from /\ Owns(u, a, to))
  BY <1>1
<1>3. FirstOwner(t, a) = kind
  BY <1>1, OneOwner
<1> QED
  BY <1>2, <1>3, OneOwner

(* Entering a firmware entry: what was a hole gets the entry's type.         *)
LEMMA ReportBecomes ==
  ASSUME NEW t \in Seq(Regions), Sound(t, Regions),
         NEW u \in Seq(Regions), Sound(u, Regions), NEW q \in Regions,
         Content(u) = {x \in Content(t) \cup {q} : ~Empty(x)}
  PROVE  Becomes(t, u, "HOLE", q.type)
<1>1. \A x \in Content(t) \cup {q} : x \in Regions
  BY DEF Content
<1>2. ASSUME NEW a \in Nat, NEW x \in Content(t) \cup {q}, Covers(x, a)
      PROVE  x \in Content(u)
  <2>1. x.addr_start \in Nat /\ x.addr_end \in Nat
    BY <1>1 DEF Regions
  <2> QED
    BY <1>2, <2>1 DEF Covers, Empty
<1>3. ASSUME NEW a \in Nat, NEW kind, Owns(t, a, kind)
      PROVE  Owns(u, a, kind) \/ (kind = "HOLE" /\ Owns(u, a, q.type))
  <2>1. CASE \E x \in Content(t) : Covers(x, a) /\ x.type = kind
    BY <1>2, <2>1 DEF Owns
  <2>2. CASE kind = "HOLE" /\ \A x \in Content(t) : ~Covers(x, a)
    <3>1. CASE Covers(q, a)
      BY <1>2, <2>2, <3>1 DEF Owns
    <3>2. CASE ~Covers(q, a)
      BY <2>2, <3>2 DEF Owns
    <3> QED
      BY <3>1, <3>2
  <2> QED
    BY <1>3, <2>1, <2>2 DEF Owns
<1> QED
  BY <1>3, BecomesByEntries

(* Carving: available memory gets the owner of the range carved out.         *)
LEMMA CarvingBecomes ==
  ASSUME NEW t \in Seq(Regions), Sound(t, Regions),
         NEW u \in Seq(Regions), Sound(u, Regions), NEW i, NEW r,
         Carved(u, t, i, r)
  PROVE  Becomes(t, u, "AVAILABLE", r.type)
<1> DEFINE low  == Region(t[i].addr_start, r.addr_start, t[i].type)
           high == Region(r.addr_end, t[i].addr_end, t[i].type)
<1>1. /\ i \in DOMAIN t /\ r \in Regions /\ t[i].type = "AVAILABLE"
      /\ t[i].addr_start <= r.addr_start /\ r.addr_start < r.addr_end
      /\ r.addr_end <= t[i].addr_end
      /\ Content(u) = {x \in (Content(t) \ {t[i]}) \cup {low, r, high} : ~Empty(x)}
  BY DEF Carved, Parts
<1>2. t[i] \in Regions /\ t[i] \in Content(t) /\ \A x \in Content(t) : x \in Regions
  BY <1>1 DEF Content
<1>3. /\ low.addr_start = t[i].addr_start /\ low.addr_end = r.addr_start
      /\ high.addr_start = r.addr_end /\ high.addr_end = t[i].addr_end
      /\ low.type = "AVAILABLE" /\ high.type = "AVAILABLE"
  BY <1>1 DEF Region
<1>4. /\ t[i].addr_start \in Nat /\ t[i].addr_end \in Nat
      /\ r.addr_start \in Nat /\ r.addr_end \in Nat
  BY <1>1, <1>2 DEF Regions
<1> HIDE DEF low, high
<1>5. ASSUME NEW a \in Nat, NEW kind, Owns(t, a, kind)
      PROVE  Owns(u, a, kind) \/ (kind = "AVAILABLE" /\ Owns(u, a, r.type))
  <2>1. CASE \E x \in Content(t) : Covers(x, a) /\ x.type = kind
    <3>1. PICK x \in Content(t) : Covers(x, a) /\ x.type = kind
      BY <2>1
    <3>2. CASE x # t[i]
      <4>1. ~Empty(x)
        BY <1>2, <3>1 DEF Covers, Empty, Regions
      <4> QED
        BY <1>1, <3>1, <3>2, <4>1 DEF Owns
    <3>3. CASE x = t[i]
      <4>1. kind = "AVAILABLE" /\ Covers(t[i], a)
        BY <1>1, <3>1, <3>3
      <4>2. \/ Covers(low, a) /\ ~Empty(low)
            \/ Covers(r, a) /\ ~Empty(r)
            \/ Covers(high, a) /\ ~Empty(high)
        BY <1>1, <1>3, <1>4, <4>1 DEF Covers, Empty
      <4> QED
        BY <1>1, <1>3, <4>1, <4>2 DEF Owns
    <3> QED
      BY <3>2, <3>3
  <2>2. CASE kind = "HOLE" /\ \A x \in Content(t) : ~Covers(x, a)
    <3>1. ~Covers(t[i], a)
      BY <1>2, <2>2
    <3>2. ~Covers(low, a) /\ ~Covers(r, a) /\ ~Covers(high, a)
      BY <1>1, <1>3, <1>4, <3>1 DEF Covers
    <3> QED
      BY <1>1, <2>2, <3>2 DEF Owns
  <2> QED
    BY <1>5, <2>1, <2>2 DEF Owns
<1> QED
  BY <1>5, BecomesByEntries

(* A deallocation: reserved memory becomes available.                        *)
LEMMA ReleaseBecomes ==
  ASSUME NEW t \in Seq(Regions), Sound(t, Regions),
         NEW u \in Seq(Regions), Sound(u, Regions), Released(u, t)
  PROVE  Becomes(t, u, "RESERVED", "AVAILABLE")
<1>1. /\ \A x \in Content(t) :
           x.type \notin {"AVAILABLE", "RESERVED"} => x \in Content(u)
      /\ \A x \in Content(u) : x.type # "AVAILABLE" => x \in Content(t)
      /\ \A a \in Nat : FreeAt(t, a) => FreeAt(u, a)
      /\ \A x \in Content(t) : x.type = "RESERVED" =>
           \/ x \in Content(u)
           \/ \A a \in Nat : x.addr_start <= a /\ a < x.addr_end => FreeAt(u, a)
      /\ \A a \in Nat : FreeAt(u, a) =>
           \/ FreeAt(t, a)
           \/ \E x \in Content(t) : /\ x.type = "RESERVED"
                                    /\ x.addr_start <= a /\ a < x.addr_end
  BY DEF Released
<1>2. ASSUME NEW s, NEW a \in Nat
      PROVE  FreeAt(s, a) <=> \E x \in Content(s) : Covers(x, a) /\ x.type = "AVAILABLE"
  BY DEF FreeAt, Content, Covers
<1>3. ASSUME NEW a \in Nat, NEW kind, Owns(t, a, kind)
      PROVE  Owns(u, a, kind) \/ (kind = "RESERVED" /\ Owns(u, a, "AVAILABLE"))
  <2>1. CASE \E x \in Content(t) : Covers(x, a) /\ x.type = kind
    <3>1. PICK x \in Content(t) : Covers(x, a) /\ x.type = kind
      BY <2>1
    <3>2. CASE kind \notin {"AVAILABLE", "RESERVED"}
      BY <1>1, <3>1, <3>2 DEF Owns
    <3>3. CASE kind = "AVAILABLE"
      <4>1. FreeAt(t, a)
        BY <1>2, <3>1, <3>3
      <4>2. FreeAt(u, a)
        BY <1>1, <4>1
      <4> QED
        BY <1>2, <3>3, <4>2 DEF Owns
    <3>4. CASE kind = "RESERVED"
      <4>1. CASE x \in Content(u)
        BY <3>1, <4>1 DEF Owns
      <4>2. CASE FreeAt(u, a)
        BY <1>2, <3>4, <4>2 DEF Owns
      <4> QED
        BY <1>1, <3>1, <3>4, <4>1, <4>2 DEF Covers
    <3> QED
      BY <3>2, <3>3, <3>4
  <2>2. CASE kind = "HOLE" /\ \A x \in Content(t) : ~Covers(x, a)
    <3>1. ~FreeAt(u, a)
      BY <1>1, <1>2, <2>2 DEF Covers
    <3>2. \A x \in Content(u) : ~Covers(x, a)
      BY <1>1, <1>2, <2>2, <3>1
    <3> QED
      BY <2>2, <3>2 DEF Owns
  <2> QED
    BY <1>3, <2>1, <2>2 DEF Owns
<1> QED
  BY <1>3, BecomesByEntries

(* A change of hands in the table is one in the abstract memory.             *)
LEMMA ChangesHands ==
  ASSUME TypeOK, TypeOK', NEW from, NEW to,
         Becomes(memory_regions, memory_regions', from, to)
  PROVE  Physical!Convert(from, to)
<1>1. /\ memory_regions \in Seq(Regions) /\ memory_regions' \in Seq(Regions)
      /\ Addresses \subseteq Nat
  BY PmmAssumption DEF TypeOK
<1>2. /\ \A a \in Addresses : OwnerOf(a) = FirstOwner(memory_regions, a)
      /\ \A a \in Addresses : OwnerOf(a)' = FirstOwner(memory_regions', a)
  BY DEF OwnerOf, Covering, FirstOwner
<1>3. \A a \in Addresses : OwnerOf(a)' \in Physical!Kinds
  <2> SUFFICES ASSUME NEW a \in Addresses
               PROVE  FirstOwner(memory_regions', a) \in RegionTypes \cup {"HOLE"}
    BY <1>2 DEF Physical!Kinds, RegionTypes
  <2> DEFINE t == memory_regions'
             covering == {i \in DOMAIN t : t[i].addr_start <= a /\ a < t[i].addr_end}
             k == Min(covering)
  <2>1. t \in Seq(Regions)
    BY <1>1
  <2> HIDE DEF t
  <2>2. FirstOwner(t, a) = IF covering = {} THEN "HOLE" ELSE t[k].type
    BY DEF FirstOwner
  <2>3. covering # {} => k \in DOMAIN t
    <3>1. covering \in SUBSET Nat /\ covering \subseteq DOMAIN t
      BY <2>1
    <3> HIDE DEF covering
    <3> QED
      BY <3>1, MinIsLeast
  <2>4. \A i \in DOMAIN t : t[i].type \in RegionTypes
    <3>1. \A i \in DOMAIN t : t[i] \in Regions
      BY <2>1
    <3> QED
      BY <3>1 DEF Regions
  <2> HIDE DEF k, covering
  <2>5. FirstOwner(t, a) \in RegionTypes \cup {"HOLE"}
    BY <2>2, <2>3, <2>4
  <2> QED
    BY <2>5 DEF t
<1>4. \A a \in Addresses :
        \/ OwnerOf(a)' = OwnerOf(a)
        \/ OwnerOf(a) = from /\ OwnerOf(a)' = to
  BY <1>1, <1>2 DEF Becomes
<1> QED
  BY <1>3, <1>4 DEF Physical!Convert

(* Pmm implements PhysMem: in the table of pmm.c, memory changes hands only  *)
(* as a physical memory manager may let it, and no byte is ever lost or      *)
(* owned twice.  Each call maps to one step: entering an entry to Report,    *)
(* reserving and allocating to Claim, deallocating to Release.               *)
THEOREM ImplementsPhysMem == Spec => RefinesPhysMem
<1>1. Init => Physical!Init
  <2> SUFFICES ASSUME Init, NEW a \in Addresses PROVE OwnerOf(a) = "HOLE"
    BY DEF Physical!Init
  <2>1. DOMAIN memory_regions = {}
    BY DEF Init
  <2> QED
    BY <2>1 DEF OwnerOf, Covering
<1>2. IInv /\ OrderInv /\ [Next]_vars
        => [Physical!Next]_([a \in Addresses |-> OwnerOf(a)])
  <2> SUFFICES ASSUME IInv, OrderInv, [Next]_vars
               PROVE  [Physical!Next]_([a \in Addresses |-> OwnerOf(a)])
    OBVIOUS
  <2>1. IInv' /\ OrderInv'
    BY StepKeepsOrder
  <2>2. /\ TypeOK /\ TypeOK'
        /\ memory_regions \in Seq(Regions) /\ memory_regions' \in Seq(Regions)
        /\ Sound(memory_regions, Regions)
    BY <2>1, TableFacts DEF IInv, TypeOK
  <2>3. Sound(memory_regions', Regions)
    BY <2>1, <2>2 DEF IInv, TableApart, Sound
  <2>4. memory_regions' = memory_regions
          => UNCHANGED [a \in Addresses |-> OwnerOf(a)]
    BY DEF OwnerOf, Covering
  <2>5. ASSUME NEW i, NEW r, Carved(memory_regions', memory_regions, i, r)
        PROVE  Physical!Next
    <3>1. r.type \in OwnerTypes
      BY <2>5 DEF Carved
    <3>2. Becomes(memory_regions, memory_regions', "AVAILABLE", r.type)
      BY <2>2, <2>3, <2>5, CarvingBecomes
    <3>3. Physical!Convert("AVAILABLE", r.type)
      BY <2>2, <3>2, ChangesHands
    <3> QED
      BY <3>1, <3>3 DEF Physical!Claim, Physical!Next
  <2>6. CASE pmm_add_region
    <3> DEFINE q == PageRounded(Head(mmap))
    <3>1. Content(memory_regions')
            = {x \in Content(memory_regions) \cup {q} : ~Empty(x)}
      BY <2>1, <2>6, AddRegionKeepsOrder
    <3>2. q \in Regions /\ q.type \in FirmwareTypes
      <4>1. Head(mmap) \in FirmwareRegions
        BY <2>2, <2>6 DEF pmm_add_region, TypeOK
      <4>2. Head(mmap) \in Regions /\ Head(mmap).type \in FirmwareTypes
        BY <4>1 DEF Regions, RegionTypes, FirmwareRegions
      <4> QED
        BY <4>2, PageRoundedType
    <3> HIDE DEF q
    <3>3. Becomes(memory_regions, memory_regions', "HOLE", q.type)
      BY <2>2, <2>3, <3>1, <3>2, ReportBecomes
    <3>4. Physical!Convert("HOLE", q.type)
      BY <2>2, <3>3, ChangesHands
    <3> QED
      BY <3>2, <3>4 DEF Physical!Report, Physical!Next
  <2>7. CASE \E b \in Blocks : pmm_reserve_memory_region(b)
    BY <2>1, <2>4, <2>5, <2>7, ReserveKeepsOrder
  <2>8. CASE \E pages \in PageCounts, type \in OwnerTypes :
               pmm_allocate_region_with_type(pages, type)
    BY <2>1, <2>4, <2>5, <2>8, AllocateKeepsOrder
  <2>9. CASE \E addr \in FreeAddrs : pmm_deallocate(addr)
    <3>1. Released(memory_regions', memory_regions)
      BY <2>1, <2>9, DeallocateKeepsOrder
    <3>2. Becomes(memory_regions, memory_regions', "RESERVED", "AVAILABLE")
      BY <2>2, <2>3, <3>1, ReleaseBecomes
    <3>3. Physical!Convert("RESERVED", "AVAILABLE")
      BY <2>2, <3>2, ChangesHands
    <3> QED
      BY <3>3 DEF Physical!Release, Physical!Next
  <2>10. CASE UNCHANGED vars
    BY <2>4, <2>10 DEF vars
  <2> QED
    BY <2>6, <2>7, <2>8, <2>9, <2>10 DEF Next
<1> QED
  BY <1>1, <1>2, OrderInvariance, PTL DEF Spec, PmmInv, RefinesPhysMem, Physical!Spec
==============================================================================

CONSTANTS
  PageSize = 4
  LowMemory = 8
  PtrSpan = 64
  FirmwareMaps <- MC_Maps
  Blocks <- MC_Blocks
  PageCounts <- MC_PageCounts
  FreeAddrs <- MC_FreeAddrs
  Addresses <- MC_Addresses
SPECIFICATION Spec
INVARIANTS
  TypeOK
  TableApart
  TableInOrder
  GrantsExclusive
  ReservedProtected
  GrantsRecorded
  PmmInv
PROPERTIES
  ReportsKept
  FreeingCoalesces
  RefinesPhysMem

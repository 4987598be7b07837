CONSTANTS
  PageSize = 4
  LowMemory = 8
  PtrSpan = 64
  FirmwareMaps <- OneRegion
  Blocks = {}
  PageCounts = {1}
  FreeAddrs = {8}
  Addresses = {}
SPECIFICATION Spec
INVARIANT NothingLeaked

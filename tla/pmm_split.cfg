CONSTANTS
  PageSize = 4
  LowMemory = 8
  PtrSpan = 64
  FirmwareMaps <- SplitAvailable
  Blocks <- AcrossSplit
  PageCounts = {1, 2}
  FreeAddrs = {}
  Addresses = {}
SPECIFICATION Spec
INVARIANT ReservedProtected

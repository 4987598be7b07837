CONSTANTS
  PageSize = 4
  LowMemory = 8
  PtrSpan = 64
  FirmwareMaps <- AtPtrSpan
  Blocks = {}
  PageCounts = {1}
  FreeAddrs = {}
  Addresses = {}
SPECIFICATION Spec
INVARIANT TableInOrder

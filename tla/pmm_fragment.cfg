CONSTANTS
  PageSize = 4
  LowMemory = 8
  PtrSpan = 64
  FirmwareMaps <- FragmentLast
  Blocks = {}
  PageCounts = {1}
  FreeAddrs = {}
  Addresses = {}
SPECIFICATION Spec
PROPERTY ReportsKept

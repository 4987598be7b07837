CONSTANTS
  PageSize = 4
  LowMemory = 4
  PtrSpan = 256
  ByteSpan = 16
  ElfMagic <- MC_Magic
  TableEntries = 4
  Levels = 3
  TagLists <- LongModule
  KickstartBlock <- MC_Kickstart
  KernelImages <- OneImage
SPECIFICATION Spec
INVARIANT PmlReachable

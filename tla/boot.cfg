CONSTANTS
  PageSize = 4
  LowMemory = 4
  PtrSpan = 256
  ByteSpan = 16
  ElfMagic <- MC_Magic
  TableEntries = 8
  Levels = 3
  TagLists <- MC_TagLists
  KickstartBlock <- MC_Kickstart
  KernelImages <- MC_Images
  FractalIndex = 6
  BitsPerByte = 8
  EntrySize = 1
  SizeSpan = 4096
SPECIFICATION SystemSpec
INVARIANTS
  SystemTypeOK
  FileUnderstood
  AddressSpace
  TablesOwned
  InUseNotAvailable
  NothingBehind
  TablesVisible
  ManagerApart
  UsedNotFree
PROPERTIES
  MappingsStay
  Advances
  ImplementsManager

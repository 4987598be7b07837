CONSTANTS
  PageSize = 4
  LowMemory = 8
  PtrSpan = 256
  BitsPerByte = 4
  EntrySize = 2
  SizeSpan = 4096
  EntriesPerTable = 16
  BootTables <- MC_BootTables
  KernelEnds = {3, 11}
  LeftoverBits <- MC_LeftoverBits
SPECIFICATION Spec
INVARIANTS
  TypeOK
  BitmapSized
  FillingFits
  SlicesApart
  PhysmapCovers
  ManagerPlaced
  MarkedExactly
PROPERTY
  Finishes

CONSTANTS
  PageSize = 4
  LowMemory = 8
  PtrSpan = 256
  BitsPerByte = 4
  EntrySize = 2
  SizeSpan = 4096
  EntriesPerTable = 16
  BootTables <- Fragment
  KernelEnds = {9}
  LeftoverBits <- MC_LeftoverBits
SPECIFICATION Spec
INVARIANT BitmapSized

SPECIFICATION Spec
CONSTANTS
  Documents <- MCDocuments
  Images <- MCImages
  PageSizes <- MCPageSizes
  KernelRegion <- MCKernelRegion
  InitTaskSize = 16
  ReservedBase = 1000
  Page = 4
  LargePage = 64
  TableSpan = 64
  DirectorySpan = 512
  UpperSpan = 4096
  TlsStart = 128
  TlsEnd = 144
  TlsAlign = 2
  StackHigh = 192
  PdSlots = 220
  ThreadSlots = 4
  NtfnSlot = 10
  EpSlot = 74
  IrqSlot = 138
  TcbSlot = 202
  WordsPerPage = 512
  NumDomains = 3
INVARIANTS
  TypeOK
  
  Configured
  FaultsReachHandler
  ThreadCapsAgree
  ChannelsConnect
  OnlyGranted
  CallersDistinct
  PartitionsKept
  PagesInPlace
  BootFailsForCause
PROPERTIES
  ConfiguredBeforeRunning
  BootEnds

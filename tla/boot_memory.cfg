CONSTANTS
  WordBits = 8
  KernelVirtualBase <- KernelBase
  MaxBits = 7
  Boards <- MCBoards
  ElfSizes = {2, 6}
  DeviceTop = 64
  PageSize = 2
  ObjectsAlign = 4
  FanOut = 2
  MaxTable = 8
  MaxData = 9
  MaxCaps = 5
SPECIFICATION FairSpec
INVARIANTS TypeOK NoAddressTwice PlacedInOrder UntypedsExact TableInPlace OnlyLimitsFail
PROPERTIES Terminates ImplementsOwners
CHECK_DEADLOCK FALSE

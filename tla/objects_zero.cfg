CONSTANTS
  WordBits = 10
  KernelVirtualBase = 0
  MaxBits = 9
  Boots <- ZeroBoots
  Needs <- OnePD
  FixedPages <- ZeroPages
  Fixed <- MCFixed
  SlotSize = 2
  SystemSlots = 16
  PdSlots = 4
  ThreadSlots = 2
  ScSize = 2
  FanOut = 2
SPECIFICATION Spec
INVARIANT PaddingPossible
CHECK_DEADLOCK FALSE

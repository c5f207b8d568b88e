CONSTANTS
  WordBits = 10
  KernelVirtualBase = 0
  MaxBits = 9
  Boots <- MCBoots
  Needs <- MCNeeds
  FixedPages <- MCFixedPages
  Fixed <- MCFixed
  SlotSize = 2
  SystemSlots = 16
  PdSlots = 4
  ThreadSlots = 2
  ScSize = 2
  FanOut = 2
SPECIFICATION Spec
INVARIANTS TypeOK PagesInPlace AllObjectsMade NothingAbovePlan BootSucceeds RefusedForCause
CHECK_DEADLOCK FALSE

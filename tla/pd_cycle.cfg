SPECIFICATION Spec
CONSTANTS
  NoPD = NoPD
  app = app
  cli = cli
  srv = srv
  drv = drv
  PD <- PairPD
  Channel <- PairChannel
  Irq = {}
  Priority <- PairPriority
  Provides = {app, srv}
  Parent <- PairParent
  PdId <- PairPdId
  AcceptsRootPpc = {}
  Notifies = {}
  Calls <- PairCalls
  RootCalls = {}
  Withholds = {}
  Faulty = {}
  MaxOps = 1
INVARIANTS
  NoWaitCycle
CHECK_DEADLOCK FALSE

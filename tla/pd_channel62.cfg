SPECIFICATION Spec
CONSTANTS
  NoPD = NoPD
  app = app
  cli = cli
  srv = srv
  drv = drv
  PD <- PairPD
  Channel <- LastChannel
  Irq = {}
  Priority <- PairPriority
  Provides = {}
  Parent <- PairParent
  PdId <- PairPdId
  AcceptsRootPpc = {}
  Notifies <- LastNotifies
  Calls = {}
  RootCalls = {}
  Withholds = {}
  Faulty = {}
  MaxOps = 1
PROPERTIES
  NotificationsKept
CHECK_DEADLOCK FALSE

SPECIFICATION FairSpec
CONSTANTS
  NoPD = NoPD
  app = app
  cli = cli
  srv = srv
  drv = drv
  PD <- TreePD
  Channel <- TreeChannel
  Irq <- OneIrq
  Priority <- TreePriority
  Provides = {srv, drv}
  Parent <- TreeParent
  PdId <- TreePdId
  AcceptsRootPpc = {srv}
  Notifies <- OutNotifies
  Calls <- TreeCalls
  RootCalls = {app}
  Withholds = {}
  Faulty = {app}
  MaxOps = 1
PROPERTIES
  CallReturns
  
  ImplementsService
CHECK_DEADLOCK FALSE

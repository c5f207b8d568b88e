SPECIFICATION Spec
CONSTANTS
  NoPD = NoPD
  app = app
  cli = cli
  srv = srv
  drv = drv
  PD <- TreePD
  Channel <- TreeChannel
  Irq <- TreeIrq
  Priority <- TreePriority
  Provides = {srv, drv}
  Parent <- TreeParent
  PdId <- TreePdId
  AcceptsRootPpc = {srv}
  Notifies <- TreeNotifies
  Calls <- TreeCalls
  RootCalls = {app}
  Withholds = {srv}
  Faulty = {app}
  MaxOps = 1
INVARIANTS
  TypeOK
  CallersAreHeld
  IdentifierNamesCaller
  NoWaitCycle
PROPERTIES
  NotificationsKept
CHECK_DEADLOCK FALSE

SPECIFICATION Spec
CONSTANTS
  FdMax = 2
  EventMax = 1
  TimerMax = 1
  SignalMax = 1
  EpollMax = 1
  TickNs = 2
  Signals = {2}
  MaxObjects = 2
  Inits = {1}
  Asked <- MCAsked
  Times = {3}
  Intervals = {0, 1}
  Waits = {2}
  MaxTick = 3
INVARIANTS
  ReportsHold
  NeverOversleeps
PROPERTIES
  TimerExact
  WaitReturns

CONSTANTS
  d1 = d1
  d2 = d2
  t1 = t1
  t2 = t2
  Dpcs = {d1}
  Timers = {t1, t2}
  NoDpc = NoDpc
  Cores = {1}
  Targets = {1}
  Irqls = {}
  TickSteps = {1}
  Deltas = {0}
  Periods = {0, 1}
  PgPeriods = {}
  PgPhases = {}
  MaxPerTimer = 2
  MaxPasses = 2
  MaxDpcRecords = 2
  MaxTimerObjs = 2
  MaxQueued = 0
  MaxRanges = 0
  MaxLag = 1
SPECIFICATION Spec
SYMMETRY SymTimers
INVARIANT TypeOK
INVARIANT QueuedOnce
INVARIANT DeliveredOnce
INVARIANT ListedOnce
INVARIANT ListedIsArmed

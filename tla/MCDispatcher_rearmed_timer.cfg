CONSTANTS
  d1 = d1
  d2 = d2
  t1 = t1
  t2 = t2
  Dpcs = {d1}
  Timers = {t1}
  NoDpc = NoDpc
  Cores = {}
  Targets = {}
  Irqls = {}
  TickSteps = {1}
  Deltas = {0, 1}
  Periods = {0, 1}
  PgPeriods = {}
  PgPhases = {}
  MaxPerTimer = 2
  MaxPasses = 2
  MaxDpcRecords = 0
  MaxTimerObjs = 2
  MaxQueued = 0
  MaxRanges = 0
  MaxLag = 1
SPECIFICATION Spec
INVARIANT ArmedIsListed

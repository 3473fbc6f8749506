CONSTANTS
  d1 = d1
  d2 = d2
  t1 = t1
  t2 = t2
  Dpcs = {d1}
  Timers = {t1}
  NoDpc = NoDpc
  Cores = {}
  Targets = {}
  Irqls = {3}
  TickSteps = {1, 3}
  Deltas = {0}
  Periods = {1}
  PgPeriods = {2}
  PgPhases = {3}
  MaxPerTimer = 2
  MaxPasses = 2
  MaxDpcRecords = 0
  MaxTimerObjs = 1
  MaxQueued = 1
  MaxRanges = 1
  MaxLag = 2
SPECIFICATION Spec
INVARIANT SweepScheduled
PROPERTY CaughtInTime
PROPERTY LoopsReturn

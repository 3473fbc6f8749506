CONSTANTS
  drive1 = drive1
  drive2 = drive2
  Drives = {drive1, drive2}
  SqEntries = 2
  Modes = {"fifo", "reorder"}
  MaxSqes = 5
  MaxPosted = 4
  GlHeads = {"h1"}
  GlTop = "top"
  GlEntries = {"a", "b", "c"}
  GlKeys = {"k", "l"}
  GlMaxInserts = 3
  HnKeys = {"svc", "Svc", "a", "b"}
  HnFold <- Lower
  HnSeeded = {"svc"}
  HnRegistry = {"svc", "Svc", "a", "b"}
  HnAbove <- Above
  HnNames = {"Dummy"}
  HnSizes = {1, 3}
  HnSynth = 2
  HnLogLimit = 3
  HnAutoLimit = 1
  HnPids = {"system", "p"}
  HnSystem = "system"
  HnMaxHandles = 2
  HpSizes = {1, 2}
  HpHalf = 128
  HpLarge = 2
  HpJitters = {0, 2}
  HpFixed <- Fixed
  HpCells = 19
  HpEnd = 14
  HpMaxAllocs = 3
  HpMaxMoves = 1
  AtModeled = {"void", "nt"}
  AtShallowSet = {"shallow"}
  AtUnknown = {"new"}
  AtData = {"data"}
  AtVoid = {"void"}
  AtTargets = {"near", "far"}
  AtNear = {"near"}
  AtLimit = 1
  AtTableLimit = 2
  AtMaxDepth = 2
  AtMaxRsp = 6
  LxTable <- FopsTable
  LxMajors = {42}
  LxOps = {"o"}
  LxFuncs = {"f", "g"}
  LxMaxCalls = 3
  LcBudget = 5
  LcKnown = {"void", "long"}
  LcVoid = {"void"}
  LcUnknown = {"new"}
  LcMaxCalls = 2
  LcMaxDepth = 2
  KoSectionLists <- SectionLists
  KoFaults = {"magic"}
  KoTypes = {"64", "PC32", "32", "NONE"}
  KoExternals = {"printk"}
  KoMissing = {"gone"}
  KoBase = 16
  KoKernel = 40
  KoRange = 64
  KoMaxRelocs = 1
SPECIFICATION MCSpec
SYMMETRY Symmetry
CHECK_DEADLOCK FALSE
INVARIANT MCTypeOK
INVARIANT RingHoldsLog
PROPERTY DrivenOnce
INVARIANT GlContainersExact
INVARIANT HnExact
INVARIANT HpGuardsTell
INVARIANT LxHarvestTells
INVARIANT LcOutcomeTrue
INVARIANT KoImageWhole
INVARIANT AtReportsTrue

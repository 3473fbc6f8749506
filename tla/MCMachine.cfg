CONSTANTS
  proc1 = proc1
  proc2 = proc2
  cb1 = cb1
  cb2 = cb2
  reg1 = reg1
  reg2 = reg2
  PtIdx <- ThreeIdx
  PtLevels = 3
  PtProcesses = {proc1, proc2}
  PtSelfRefs = {0, 1}
  PtPages <- SomePages
  PtMaxFrames = 5
  PtMaxEdits = 1
  SmmBases = {"b1", "b3"}
  SmmTseg = {"b1"}
  SmmContexts = {"c1", "c2"}
  SmmMaxSmis = 2
  CpuByte = 2
  CpuStarts <- Starts
  CpuProgram <- Program
  DecOperands <- Operands
  DecRegisters <- DecodeRegs
  DecPrefixes <- Prefixed
  CpuMemCells = 4
  CpuMemPage = 2
  CpuMemStarts <- MemStarts
  SehImages <- Images
  SehData = 40
  SehMaxDepth = 3
  SehMaxWalk = 4
  PlProcs <- ThreeProcs
  PlPid <- Pids
  PlOther = {"fake"}
  PlMaxWalk = 6
  PlCidLimit = 16
  PlMaxPatches = 3
  ArMsrs = {"lstar", "sysenter"}
  ArLstar = "lstar"
  ArOtherMsrs = {"apic"}
  ArVectors = {1}
  ArEntries = {1}
  ArValues = {"own", "foreign"}
  ArMaxWrites = 4
  UnPages = {"a", "m", "r"}
  UnArena = {"a"}
  UnMarker = "r"
  UnValues = {"v", "w"}
  UnChunk = 2
  UnMaxSteps = 2
  Routines = {cb1, cb2}
  NoRoutine = NoRoutine
  Pre <- PreOf
  Post <- PostOf
  MaxListed = 2
  Registrations = {reg1}
  Ps = {"process", "thread", "image"}
  UseOb = TRUE
  UseCm = TRUE
SPECIFICATION MCSpec
CHECK_DEADLOCK FALSE
INVARIANT MCTypeOK
INVARIANT PtTablesKept
INVARIANT SmmSealHolds
PROPERTY SmmResumes
INVARIANT InterpreterExact
INVARIANT CpuMemPrecise
INVARIANT SehSearchFollowsCalls
INVARIANT PlScanExact
INVARIANT ArOraclesAgree
INVARIANT UnHandsBack
PROPERTY EveryRoutineNotified
PROPERTY BlockedIsFinal

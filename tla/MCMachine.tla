------------------------------- MODULE MCMachine -------------------------------
(***************************************************************************)
(* The processor and the memory the labs inspect, for TLC: the interpreter,  *)
(* the memory Unicorn keeps a copy of,                                       *)
(* the self-map tables, SMM, exception dispatch, the lists and tables the    *)
(* integrity scans compare, and the callbacks.                              *)
(*                                                                         *)
(* No two of these modules share a variable and every property reads one of  *)
(* them, so a behaviour moves the one in focus and keeps the others as they   *)
(* began: the state spaces add, and are not multiplied.                     *)
(***************************************************************************)
EXTENDS MCCpu, MCCallbacks, CpuDecode, CpuMem, PageTableSpace, Smm, Seh, ProcessList, ArchState,
        UnicornBackend

CONSTANTS proc1, proc2

VARIABLE focus

-----------------------------------------------------------------------------
\* Three levels, with two processes that have a page in common.
ThreeIdx == {0, 1, 2}
SomePages == {<<0, 0, 0>>, <<1, 0, 0>>, <<1, 0, 1>>}

Operands ==
  [mod : 0..3, rm : {0, 4, 5, 7}, scale : {0, 3}, index : {0, 4, 5}, base : {0, 4, 5},
   rex : SUBSET {"b", "x"}, disp : {0, 1, 127, 128, 255}]
DecodeRegs == [k \in 0..15 |-> k * 1021]
Prefixed == UNION { [1..n -> {"66", "67", "f3", "rex", "rex.w", "lock", "base"}] : n \in 0..2 }

\* Four cells of memory in two pages.
MemStarts ==
  { [rsp |-> sp, rbp |-> 1, rsi |-> si, rdi |-> di, rcx |-> cx, acc |-> 1, rip |-> 2, cf |-> cf,
     zf |-> FALSE, df |-> df, locked |-> locked,
     mem |-> [k \in 0..3 |-> IF k = 0 THEN 3 ELSE IF k = 3 THEN 0 ELSE 1]] :
      sp \in {0, 2}, si \in {0, 1}, di \in {1, 3}, cx \in 0..3, cf \in BOOLEAN, df \in BOOLEAN,
      locked \in {{}, {1}} }

\* Two images of three functions: scopes that overlap, a finally, a chained entry, and
\* one function that is not in the table.
Function(begin, end, chain, codes, scopes, listed) ==
  [begin |-> begin, end |-> end, chain |-> chain, codes |-> codes, scopes |-> scopes,
   listed |-> listed]
Scope(range, kind) == [range |-> range, kind |-> kind]
Images ==
  { << Function(10, 13, 0, <<"alloc", "push">>,
                <<Scope({11}, "filter"), Scope({11, 12}, "always")>>, TRUE),
       Function(20, 22, 0, <<"fpreg", "push">>, <<Scope({21}, "filter")>>, TRUE),
       Function(30, 31, 0, <<>>, <<>>, FALSE) >>,
    << Function(10, 12, 0, <<"alloc", "fpreg", "push">>,
                <<Scope({10}, "finally"), Scope({11, 20}, "filter")>>, TRUE),
       Function(20, 21, 1, <<>>, <<>>, TRUE),
       Function(30, 32, 0, <<"push">>, <<>>, TRUE) >> }

ThreeProcs == <<"p1", "p2", "p3">>
Pids == [p \in {"p1", "p2", "p3"} |-> CASE p = "p1" -> 4 [] p = "p2" -> 8 [] p = "p3" -> 20]

-----------------------------------------------------------------------------
Foci == {"tables", "smm", "cpu", "decode", "memory", "seh", "list", "arch", "unicorn", "callbacks"}

\* There is an operand to decode and a state of memory to start from.
ASSUME MachineAssumption == DecOperands # {} /\ CpuMemStarts # {}

\* Out of focus a component is at one of its beginnings.
CpuRest == cpu = Registers(0, 0, 0, FALSE) /\ cpuInstr = CpuNone /\ cpuBefore = cpu
DecodeRest ==
  /\ decInput = [operand |-> CHOOSE o \in DecOperands : TRUE, prefixes |-> <<>>, insn |-> "none",
                 after |-> 0]
  /\ decFound = CpuNone
\* Prefixes are read before the operand and immediates behind it: all of them with an
\* operand relative to RIP and one in a register.
DecodeInit ==
  /\ DecInit
  /\ LET x == decInput.operand
     IN \/ decInput.prefixes = <<>> /\ decInput.insn = "none"
        \/ (x.mod = 3 \/ (x.mod = 0 /\ x.rm = 5)) /\ x.disp = 1 /\ x.index = 0 /\ x.base = 0 /\ x.scale = 0
MemRest ==
  /\ mReg = CHOOSE s \in CpuMemStarts : TRUE
  /\ mPresent = CpuMemPages
  /\ mInstr = CpuMemNone /\ mPhase = "ready" /\ mBefore = mReg

MCInit ==
  /\ focus \in Foci
  /\ PtInit /\ PlInit /\ UnInit /\ Init
  /\ SmmInit
  /\ focus # "smm" => /\ smmBase = CHOOSE b \in SmmTseg : TRUE
                      /\ smmCpu = CHOOSE c \in SmmContexts : TRUE
  /\ SehInit
  /\ focus # "seh" => /\ sehImage = CHOOSE i \in SehImages : TRUE
                      /\ sehCalls[1].fn = 1
  /\ ArInit /\ (focus # "arch" => ~arHvci)
  /\ IF focus = "cpu" THEN CpuInit ELSE CpuRest
  /\ IF focus = "decode" THEN DecodeInit ELSE DecodeRest
  /\ IF focus = "memory" THEN CpuMemInit ELSE MemRest

tableSide == <<ptVars, smmVars, sehVars>>
cpuSide == <<cpuVars, decVars, mVars>>
listSide == <<plVars, arVars, unVars, vars>>

MCNext ==
  /\ UNCHANGED focus
  /\ \/ /\ focus = "tables" /\ PtNextStep
        /\ UNCHANGED <<smmVars, sehVars, cpuSide, listSide>>
     \/ /\ focus = "smm" /\ SmmNext
        /\ UNCHANGED <<ptVars, sehVars, cpuSide, listSide>>
     \/ /\ focus = "seh" /\ SehNext
        /\ UNCHANGED <<ptVars, smmVars, cpuSide, listSide>>
     \/ /\ focus = "cpu" /\ CpuNext
        /\ UNCHANGED <<decVars, mVars, tableSide, listSide>>
     \/ /\ focus = "decode" /\ DecStep
        /\ UNCHANGED <<cpuVars, mVars, tableSide, listSide>>
     \/ /\ focus = "memory" /\ CpuMemNext
        /\ UNCHANGED <<cpuVars, decVars, tableSide, listSide>>
     \/ /\ focus = "list" /\ PlStep
        /\ UNCHANGED <<arVars, unVars, vars, tableSide, cpuSide>>
     \/ /\ focus = "arch" /\ ArNext
        /\ UNCHANGED <<plVars, unVars, vars, tableSide, cpuSide>>
     \/ /\ focus = "callbacks" /\ Next
        /\ UNCHANGED <<plVars, arVars, unVars, tableSide, cpuSide>>
     \/ /\ focus = "unicorn" /\ UnNext
        /\ UNCHANGED <<plVars, arVars, vars, tableSide, cpuSide>>

MCSpec == MCInit /\ [][MCNext]_<<focus, tableSide, cpuSide, listSide>>

-----------------------------------------------------------------------------
\* Every component keeps its variables in their types.
MCTypeOK ==
  /\ PtTypeOK /\ SmmTypeOK /\ CpuTypeOK /\ CpuMemTypeOK /\ SehTypeOK /\ PlTypeOK /\ ArTypeOK
  /\ UnTypeOK /\ TypeOK

\* The interpreter computes what the architecture does, in registers and in addresses.
InterpreterExact == CpuExact /\ DecExact
=============================================================================

---------------------------------- MODULE CpuMem ----------------------------------
(***************************************************************************)
(* Instructions of the interpreter (packages/ntsim/src/cpu.mjs) that reach  *)
(* memory, and page faults in the middle of them.  A fault leaves registers  *)
(* and memory as far as the instruction got; the fault report, the context   *)
(* record and the next call into the driver find them so.  No instruction is *)
(* started again: a page fault reports the data address as rip, where no     *)
(* function is found that could have a filter (Seh).                         *)
(*                                                                         *)
(* Memory is a row of cells, each as large as the operand; a page is        *)
(* CpuMemPage of them.                                                     *)
(***************************************************************************)
EXTENDS Integers

CONSTANTS
  CpuMemCells,     \* bound: how many cells there are, addresses wrap around
  CpuMemPage,      \* cells of a page
  CpuMemStarts     \* states to start from

ASSUME CpuMemAssumption ==
  CpuMemCells \in Nat \ {0} /\ CpuMemPage \in 1..CpuMemCells

VARIABLES
  mReg,      \* registers, flags and cells
  mPresent,  \* pages that are mapped
  mInstr,    \* the instruction, "none" before there is one
  mPhase,    \* "ready", "faulted", "done"
  mBefore    \* ghost: what it started with

mVars == <<mReg, mPresent, mInstr, mPhase, mBefore>>

-----------------------------------------------------------------------------
CpuMemPages == 0..(CpuMemCells - 1) \div CpuMemPage

\* Registers are masked to the values a cell holds, but for the pointers of string
\* instructions and their count.
CpuMemState ==
  [rsp : 0..CpuMemCells - 1, rbp : 0..CpuMemCells - 1, rsi : Int, rdi : Int, rcx : Nat,
   acc : 0..CpuMemCells - 1, rip : 0..CpuMemCells - 1, cf : BOOLEAN, zf : BOOLEAN, df : BOOLEAN,
   locked : SUBSET CpuMemPages, mem : [0..CpuMemCells - 1 -> 0..CpuMemCells - 1]]

ASSUME CpuMemStartsAssumption == CpuMemStarts \subseteq CpuMemState

\* Addresses are masked when they are used, rsp when it moves, rsi and rdi never.
CpuMemAt(a) == a % CpuMemCells
CpuMemPageOf(a) == CpuMemAt(a) \div CpuMemPage

\* loadMem and storeMem; fetches go the same way.
CpuMemHas(P, a) == CpuMemPageOf(a) \in P
CpuMemTakes(s, P, a) == CpuMemHas(P, a) /\ CpuMemPageOf(a) \notin s.locked
CpuMemLoad(s, a) == s.mem[CpuMemAt(a)]
CpuMemStore(s, a, v) == [s EXCEPT !.mem[CpuMemAt(a)] = v]

\* What an instruction has done, to its end (ok) or up to a fault.
CpuMemOk(s) == [s |-> s, ok |-> TRUE]
CpuMemFault(s) == [s |-> s, ok |-> FALSE]

-----------------------------------------------------------------------------
(* The stack.                                                               *)

\* pushVal moves rsp before it stores.
CpuMemPush(s, v, P) ==
  LET t == [s EXCEPT !.rsp = CpuMemAt(s.rsp - 1)]
  IN IF CpuMemTakes(t, P, t.rsp) THEN CpuMemOk(CpuMemStore(t, t.rsp, v)) ELSE CpuMemFault(t)

\* popVal: the value, and rsp moved on; then is what the instruction comes to.
CpuMemPop(s, P, then) == IF CpuMemHas(P, s.rsp) THEN then ELSE CpuMemFault(s)
CpuMemPopped(s) == [s EXCEPT !.rsp = CpuMemAt(s.rsp + 1)]

CpuMemDoStack(s, op, P) ==
  LET v == CpuMemLoad(s, s.rsp)
      t == CpuMemPopped(s)
      left == [s EXCEPT !.rsp = s.rbp]
  IN CASE op = "push" -> CpuMemPush(s, s.acc, P)
       [] op = "call" -> CpuMemPush(s, s.rip, P)
       [] op = "pop" -> CpuMemPop(s, P, CpuMemOk([t EXCEPT !.acc = v]))
       [] op = "ret" -> CpuMemPop(s, P, CpuMemOk([t EXCEPT !.rip = v]))
       [] op = "leave" -> CpuMemPop(left, P, CpuMemOk([CpuMemPopped(left) EXCEPT
                                                        !.rbp = CpuMemLoad(left, left.rsp)]))
       [] op = "pop mem" -> CpuMemPop(s, P,
            IF CpuMemTakes(s, P, s.rdi) THEN CpuMemOk(CpuMemStore(t, s.rdi, v))
            ELSE CpuMemFault(t))

-----------------------------------------------------------------------------
(* Operands in memory that are read, changed and written back.  A mapped    *)
(* page may be read-only: adc sets the flags before it stores.              *)

CpuMemDoModify(s, op, P) ==
  LET old == CpuMemLoad(s, s.rdi)
      sum == old + s.acc + (IF s.cf THEN 1 ELSE 0)
      wrote(t, v) == IF CpuMemTakes(s, P, s.rdi) THEN CpuMemOk(CpuMemStore(t, s.rdi, v))
                     ELSE CpuMemFault(t)
  IN IF ~CpuMemHas(P, s.rdi) THEN CpuMemFault(s)
     ELSE CASE op = "adc" -> wrote([s EXCEPT !.cf = sum >= CpuMemCells,
                                             !.zf = sum % CpuMemCells = 0], sum % CpuMemCells)
            [] op = "xchg" -> LET x == wrote(s, s.acc)
                              IN IF x.ok THEN CpuMemOk([x.s EXCEPT !.acc = old]) ELSE x
            [] op = "cmpxchg" ->
                 IF old = s.acc THEN wrote([s EXCEPT !.zf = TRUE], s.rcx % CpuMemCells)
                 ELSE CpuMemOk([s EXCEPT !.zf = FALSE, !.acc = old])

-----------------------------------------------------------------------------
(* String instructions.                                                     *)

CpuMemCompare(s, a, b) == [s EXCEPT !.zf = a = b, !.cf = a < b]

\* One element, and both pointers after it.
CpuMemOne(s, op, P) ==
  LET d == IF s.df THEN -1 ELSE 1
      source == op \in {"movs", "cmps"} => CpuMemHas(P, s.rsi)
      target == IF op \in {"movs", "stos"} THEN CpuMemTakes(s, P, s.rdi)
                ELSE CpuMemHas(P, s.rdi)
      t == CASE op = "movs" -> CpuMemStore(s, s.rdi, CpuMemLoad(s, s.rsi))
             [] op = "stos" -> CpuMemStore(s, s.rdi, s.acc)
             [] op = "cmps" -> CpuMemCompare(s, CpuMemLoad(s, s.rsi), CpuMemLoad(s, s.rdi))
             [] op = "scas" -> CpuMemCompare(s, s.acc, CpuMemLoad(s, s.rdi))
  IN IF ~(source /\ target) THEN CpuMemFault(s)
     ELSE CpuMemOk([t EXCEPT !.rdi = s.rdi + d,
                             !.rsi = IF op \in {"movs", "cmps"} THEN s.rsi + d ELSE s.rsi])

\* F2 before movs and stos is no repetition.
CpuMemRepeats(i) == i.rep = "rep" \/ (i.rep = "repnz" /\ i.op \in {"cmps", "scas"})

CpuMemStops(s, i) ==
  i.op \in {"cmps", "scas"} /\ (IF i.rep = "rep" THEN ~s.zf ELSE s.zf)

\* Mutant: the count goes down before the element is moved.
CpuMemRoundEarly(s, i, P) == CpuMemOne([s EXCEPT !.rcx = s.rcx - 1], i.op, P)

\* One round of the loop: the count goes down when the element is done.
CpuMemRound(s, i, P) ==
  LET x == CpuMemOne(s, i.op, P)
  IN IF x.ok THEN CpuMemOk([x.s EXCEPT !.rcx = s.rcx - 1]) ELSE x

\* The loop after one more round: it is over with a fault or when the flags say so.
CpuMemLoop(x, i, P) ==
  IF x.over THEN x
  ELSE LET y == CpuMemRound(x.s, i, P)
       IN  [s |-> y.s, ok |-> y.ok, over |-> y.ok => CpuMemStops(y.s, i)]

CpuMemDoString(s, i, P) ==
  IF ~CpuMemRepeats(i) THEN CpuMemOne(s, i.op, P)
  ELSE LET at[k \in 0..s.rcx] ==
             IF k = 0 THEN [s |-> s, ok |-> TRUE, over |-> FALSE]
             ELSE CpuMemLoop(at[k - 1], i, P)
       IN  [s |-> at[s.rcx].s, ok |-> at[s.rcx].ok]

-----------------------------------------------------------------------------
CpuMemStackOps == {"push", "call", "pop", "ret", "leave", "pop mem"}
CpuMemModifyOps == {"adc", "xchg", "cmpxchg"}
CpuMemStringOps == {"movs", "stos", "cmps", "scas"}

CpuMemInstrs ==
  {[op |-> op, rep |-> "no"] : op \in CpuMemStackOps \cup CpuMemModifyOps} \cup
  {[op |-> op, rep |-> rep] : op \in CpuMemStringOps, rep \in {"no", "rep", "repnz"}}

CpuMemNone == [op |-> "none", rep |-> "no"]

CpuMemDo(s, i, P) ==
  CASE i.op \in CpuMemStackOps -> CpuMemDoStack(s, i.op, P)
    [] i.op \in CpuMemModifyOps -> CpuMemDoModify(s, i.op, P)
    [] i.op \in CpuMemStringOps -> CpuMemDoString(s, i, P)

CpuMemInit ==
  /\ mReg \in CpuMemStarts
  /\ mPresent \in SUBSET CpuMemPages
  /\ mInstr = CpuMemNone /\ mPhase = "ready" /\ mBefore = mReg

\* The instruction, to its end or up to a fault.
CpuMemExecute(i) ==
  /\ mPhase = "ready"
  /\ LET x == CpuMemDo(mReg, i, mPresent)
     IN /\ mReg' = x.s
        /\ mPhase' = IF x.ok THEN "done" ELSE "faulted"
  /\ mInstr' = i
  /\ UNCHANGED <<mPresent, mBefore>>

CpuMemNext == \E i \in CpuMemInstrs : CpuMemExecute(i)

CpuMemSpec == CpuMemInit /\ [][CpuMemNext]_mVars

-----------------------------------------------------------------------------
CpuMemTypeOK ==
  /\ mReg \in CpuMemState /\ mPresent \subseteq CpuMemPages
  /\ mInstr \in CpuMemInstrs \cup {CpuMemNone} /\ mPhase \in {"ready", "faulted", "done"}

\* A state in which no page is locked; with every page mapped nothing faults in it.
CpuMemFree(s) == [s EXCEPT !.locked = {}]

\* t is s but for what an instruction changes before the access that faults: rsp, or
\* the flags.  The architecture changes neither.
CpuMemKeeps(s, op, t) ==
  t = [s EXCEPT !.rsp = IF op \in {"push", "call", "pop mem", "leave"} THEN t.rsp ELSE @,
                !.cf = IF op = "adc" THEN t.cf ELSE @,
                !.zf = IF op \in {"adc", "cmpxchg"} THEN t.zf ELSE @]

\* An instruction is done whole or, but for rsp and flags, not at all.  A repetition stops
\* between two elements: what it has done, and what rcx, rsi and rdi say is left to do, add
\* up to the whole.
CpuMemPrecise ==
  mPhase # "ready" =>
    LET whole == CpuMemDo(CpuMemFree(mBefore), mInstr, CpuMemPages).s
    IN IF mPhase = "done" THEN CpuMemFree(mReg) = whole
       ELSE IF CpuMemRepeats(mInstr)
            THEN CpuMemDo(CpuMemFree(mReg), mInstr, CpuMemPages).s = whole
            ELSE CpuMemKeeps(mBefore, mInstr.op, mReg)

===============================================================================

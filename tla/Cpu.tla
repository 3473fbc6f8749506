----------------------------------- MODULE Cpu -----------------------------------
(***************************************************************************)
(* The integer instructions of the interpreter (JsInterpreter in           *)
(* packages/ntsim/src/cpu.mjs), beside what the architecture says they do.  *)
(*                                                                         *)
(* A byte has CpuByte bits, 8 in the code, so that all widths shrink        *)
(* together and every masking of a count stays what it is.  An instruction *)
(* works on registers: d is the destination (r/m), r the source; imm is an *)
(* immediate as it is encoded.  Decoding is in CpuDecode, the run loop in  *)
(* CpuRun.                                                                 *)
(***************************************************************************)
EXTENDS Integers, Sequences, FiniteSetsExt

CONSTANTS
  CpuByte,     \* bits of a byte
  CpuStarts,   \* machine states to start from
  CpuProgram   \* instructions that are executed from them

ASSUME CpuAssumption == CpuByte \in Nat \ {0, 1}

VARIABLES
  cpu,        \* the registers and flags
  cpuInstr,   \* ghost: the instruction executed last, CpuNone before
  cpuBefore   \* ghost: the state it was executed in

cpuVars == <<cpu, cpuInstr, cpuBefore>>

-----------------------------------------------------------------------------
CpuWidth(size) == CpuByte * size
CpuTop(size) == 2 ^ CpuWidth(size)
CpuSign(size) == 2 ^ (CpuWidth(size) - 1)
CpuFlags == {"cf", "zf", "sf", "of", "pf"}

\* rax, rcx, rdx and rsp by their number in ModRM; of the others none behaves
\* differently.
CpuRegs == {0, 1, 2, 4}
CpuNone == [op |-> "none"]

CpuState ==
  [reg : [CpuRegs -> 0..CpuTop(8) - 1], cf : BOOLEAN, zf : BOOLEAN, sf : BOOLEAN,
   of : BOOLEAN, pf : BOOLEAN]

ASSUME CpuStartsAssumption == CpuStarts \subseteq CpuState

CpuAluOps == {"add", "or", "adc", "and", "sbb", "sub", "xor", "cmp", "test"}
CpuUnaryOps == {"inc", "dec", "neg", "not"}
CpuRotateOps == {"rol", "ror", "rcl", "rcr"}
CpuShiftOps == {"shl", "shr", "sar"}
CpuDoubleOps == {"shld", "shrd"}
CpuMulOps == {"mul", "imul"}
CpuDivOps == {"div", "idiv"}
CpuScanOps == {"bsf", "bsr"}
CpuBitOps == {"bt", "bts", "btr", "btc"}
CpuExtendOps == {"movzx", "movsx"}
CpuWidenOps == {"cdqe", "cdq"}
CpuCarryOps == {"clc", "stc", "cmc"}

CpuOps ==
  CpuAluOps \cup CpuUnaryOps \cup CpuRotateOps \cup CpuShiftOps \cup CpuDoubleOps \cup
  CpuMulOps \cup CpuDivOps \cup CpuScanOps \cup CpuBitOps \cup CpuExtendOps \cup
  CpuWidenOps \cup CpuCarryOps \cup
  {"imul2", "cmpxchg", "xchg", "xadd", "bswap", "setcc", "cmov", "mov"}

\* How an instruction can be encoded: the kind of its second operand, its sizes, and the
\* registers it can name.
CpuForms(op) ==
  CASE op \in CpuAluOps \ {"test"} -> {"reg", "imm8", "immz", "acc"}
    [] op = "test" -> {"reg", "immz", "acc"}
    [] op = "imul2" -> {"reg", "imm8", "immz"}
    [] op \in CpuRotateOps \cup CpuShiftOps -> {"one", "imm8", "cl"}
    [] op \in CpuDoubleOps -> {"imm8", "cl"}
    [] op \in CpuBitOps -> {"reg", "imm8"}
    [] op = "mov" -> {"reg", "immz"}
    [] OTHER -> {"reg"}

CpuSizes(op) ==
  CASE op = "setcc" -> {1}
    [] op \in CpuDoubleOps \cup CpuScanOps \cup CpuBitOps \cup CpuExtendOps \cup CpuWidenOps
         \cup {"bswap", "cmov"} -> {2, 4, 8}
    [] OTHER -> {1, 2, 4, 8}

CpuNames(size, rex) == IF size = 1 /\ ~rex THEN {0, 1, 2, 4, 5, 6} ELSE CpuRegs
CpuSourceSize(i) == IF i.op \in CpuExtendOps THEN i.size \div 2 ELSE i.size

CpuInsns ==
  {i \in [op : CpuOps, size : {1, 2, 4, 8}, form : {"reg", "imm8", "immz", "acc", "one", "cl"},
          d : 0..7, r : 0..7, rex : BOOLEAN, imm : Nat, cc : 0..15] :
     /\ i.form \in CpuForms(i.op) /\ i.size \in CpuSizes(i.op)
     /\ i.d \in CpuNames(i.size, i.rex) /\ i.r \in CpuNames(CpuSourceSize(i), i.rex)}

ASSUME CpuProgramAssumption == CpuProgram \subseteq CpuInsns

CpuUns(v, size) == v % CpuTop(size)
CpuSgn(v, size) ==
  LET u == CpuUns(v, size) IN IF u >= CpuSign(size) THEN u - CpuTop(size) ELSE u
CpuBit(v, k) == k >= 0 /\ (v \div (2 ^ k)) % 2 = 1

\* sx: sign extension of the low bits to a register.
CpuSx(v, size) == CpuUns(CpuSgn(v, size), 8)

\* An even number of ones in the low byte.
CpuParity(v) == Cardinality({k \in 0..CpuByte - 1 : CpuBit(v, k)}) % 2 = 0

-----------------------------------------------------------------------------
(* Registers.  Without a REX prefix the byte registers 4..7 are the second  *)
(* bytes of 0..3.                                                          *)

CpuRead(s, i, size, rex) ==
  IF size = 1 /\ ~rex /\ i \in 4..7 THEN CpuUns(s.reg[i - 4] \div CpuTop(1), 1)
  ELSE CpuUns(s.reg[i], size)

CpuWrite(s, i, size, rex, v) ==
  IF size = 1 /\ ~rex /\ i \in 4..7
  THEN LET old == s.reg[i - 4]
           high == CpuUns(old \div CpuTop(1), 1)
       IN [s EXCEPT !.reg[i - 4] = old - high * CpuTop(1) + CpuUns(v, 1) * CpuTop(1)]
  ELSE LET old == s.reg[i]
       IN [s EXCEPT !.reg[i] =
            IF size \in {4, 8} THEN CpuUns(v, size)
            ELSE old - CpuUns(old, size) + CpuUns(v, size)]

\* A whole register, as the code that assigns regs.rax does it.
CpuSet(s, i, v) == [s EXCEPT !.reg[i] = v]

CpuResultFlags(s, r, size) ==
  [s EXCEPT !.zf = r = 0, !.sf = CpuBit(r, CpuWidth(size) - 1), !.pf = CpuParity(r)]

-----------------------------------------------------------------------------
(* alu: the result is masked, but a and b are taken as they come: an        *)
(* immediate is wider than the operand.                                    *)

\* Bit by bit, of numbers as wide as a register.
CpuKeeps(op, x, y) ==
  CASE op \in {"and", "test"} -> x /\ y [] op = "or" -> x \/ y [] op = "xor" -> x # y

CpuBitwise(op, a, b) ==
  LET low[k \in 0..CpuWidth(8)] ==
        IF k = 0 THEN 0
        ELSE low[k - 1] + (IF CpuKeeps(op, CpuBit(a, k - 1), CpuBit(b, k - 1)) THEN 2 ^ (k - 1)
                           ELSE 0)
  IN  low[CpuWidth(8)]

CpuAluResult(op, a, b, carry) ==
  CASE op = "add" -> a + b
    [] op = "adc" -> a + b + carry
    [] op \in {"sub", "cmp"} -> a - b
    [] op = "sbb" -> a - (b + carry)
    [] op \in {"and", "test", "or", "xor"} -> CpuBitwise(op, a, b)

CpuAlu(s, op, a, b, size) ==
  LET carry == IF s.cf THEN 1 ELSE 0
      full == CpuAluResult(op, a, b, carry)
      r == CpuUns(full, size)
      top == CpuWidth(size) - 1
      differ(x, y) == CpuBit(x, top) # CpuBit(y, top)
  IN [r |-> r,
      s |-> [CpuResultFlags(s, r, size) EXCEPT
               !.cf = CASE op \in {"add", "adc"} -> full >= CpuTop(size)
                        [] op \in {"sub", "cmp", "sbb"} -> full < 0
                        [] OTHER -> FALSE,
               !.of = CASE op = "add" -> ~differ(a, b) /\ differ(r, a)
                        [] op \in {"sub", "cmp"} -> differ(a, b) /\ differ(r, a)
                        [] OTHER -> FALSE]]

\* cond.  The code answers "less" (12) as "less or equal" and "not less" (13) as
\* "greater".
CpuCond(s, cc) ==
  LET pair == cc \div 2
      holds == CASE pair = 0 -> s.of [] pair = 1 -> s.cf [] pair = 2 -> s.zf
                 [] pair = 3 -> s.cf \/ s.zf [] pair = 4 -> s.sf [] pair = 5 -> s.pf
                 [] pair \in {6, 7} -> s.zf \/ (s.sf # s.of)
  IN IF cc % 2 = 0 THEN holds ELSE ~holds

\* The second operand: a register, imm8 (83, and 80 for bytes), the imm16 or imm32
\* of 81, or that of the short forms on the accumulator, which sign-extend imm16 but
\* for test (a9), which takes four bytes as they are.
CpuOperand(s, i) ==
  CASE i.form = "reg" -> CpuRead(s, i.r, i.size, i.rex)
    [] i.form \in {"imm8", "immz", "acc"} /\ i.size = 1 -> CpuUns(i.imm, 1)
    [] i.form = "imm8" /\ i.size > 1 -> CpuSx(i.imm, 1)
    [] i.form = "immz" /\ i.size = 2 -> CpuUns(i.imm, 2)
    [] i.form = "acc" /\ i.op = "test" /\ i.size > 1 -> CpuUns(i.imm, 4)
    [] i.form = "acc" /\ i.op # "test" /\ i.size = 2 -> CpuSx(i.imm, 2)
    [] i.form = "immz" /\ i.size > 2 -> CpuSx(i.imm, 4)
    [] i.form = "acc" /\ i.op # "test" /\ i.size > 2 -> CpuSx(i.imm, 4)

CpuDoAlu(s, i) ==
  LET x == CpuAlu(s, i.op, CpuRead(s, i.d, i.size, i.rex), CpuOperand(s, i), i.size)
  IN IF i.op \in {"cmp", "test"} THEN x.s ELSE CpuWrite(x.s, i.d, i.size, i.rex, x.r)

\* inc and dec leave CF; neg subtracts from zero; not leaves the flags.
CpuDoUnary(s, i) ==
  LET a == CpuRead(s, i.d, i.size, i.rex)
      x == CASE i.op = "inc" -> CpuAlu(s, "add", a, 1, i.size)
             [] i.op = "dec" -> CpuAlu(s, "sub", a, 1, i.size)
             [] i.op = "neg" -> CpuAlu(s, "sub", 0, a, i.size)
             [] i.op = "not" -> [r |-> CpuTop(i.size) - 1 - a, s |-> s]
      t == IF i.op \in {"inc", "dec"} THEN [x.s EXCEPT !.cf = s.cf] ELSE x.s
  IN CpuWrite(t, i.d, i.size, i.rex, x.r)

-----------------------------------------------------------------------------
(* Shifts and rotates.  The count is masked to 5 bits, 6 for 64-bit         *)
(* operands: the width of a 32-bit or of a 64-bit register.                *)

CpuCount(s, i) ==
  LET mask == CpuWidth(IF i.size = 8 THEN 8 ELSE 4)
  IN CASE i.form = "one" -> 1
       [] i.form = "imm8" -> i.imm % mask
       [] i.form = "cl" -> CpuRead(s, 1, 1, i.rex) % mask

\* rcl and rcr rotate a word one bit longer, the carry above its top.
CpuThroughCarry(s, op, a, count, size) ==
  LET n == CpuWidth(size) + 1
      ring == a + (IF s.cf THEN CpuTop(size) ELSE 0)
      k == IF op = "rcl" THEN count % n ELSE (n - (count % n)) % n
      turned == (ring % 2 ^ (n - k)) * 2 ^ k + ring \div 2 ^ (n - k)
  IN [r |-> turned % CpuTop(size), cf |-> turned >= CpuTop(size)]

CpuDoShift(s, i) ==
  LET size == i.size
      bits == CpuWidth(size)
      a == CpuRead(s, i.d, size, i.rex)
      count == CpuCount(s, i)
      c == count % bits
      rotated == IF i.op = "rol" THEN CpuUns(a * 2 ^ c, size) + a \div 2 ^ (bits - c)
                 ELSE a \div 2 ^ c + CpuUns(a * 2 ^ (bits - c), size)
      through == CpuThroughCarry(s, i.op, a, count, size)
      r == CASE i.op \in {"rol", "ror"} -> IF c = 0 THEN a ELSE rotated
             [] i.op \in {"rcl", "rcr"} -> through.r
             [] i.op = "shl" -> CpuUns(a * 2 ^ count, size)
             [] i.op = "shr" -> a \div 2 ^ count
             [] i.op = "sar" -> CpuUns(CpuSgn(a, size) \div 2 ^ count, size)
      cf == CASE i.op \in {"rol", "ror"} /\ c = 0 -> s.cf
              [] i.op = "rol" /\ c # 0 -> CpuBit(a, bits - c)
              [] i.op = "ror" /\ c # 0 -> CpuBit(r, bits - 1)
              [] i.op \in {"rcl", "rcr"} -> through.cf
              [] i.op = "shl" -> count > 0 /\ CpuBit(a, bits - count)
              [] i.op \in {"shr", "sar"} -> count > 0 /\ CpuBit(a, count - 1)
      of == CASE i.op = "rol" /\ count = 1 -> CpuBit(r, bits - 1) # cf
              [] i.op = "ror" /\ count = 1 -> CpuBit(r, bits - 1) # CpuBit(r, bits - 2)
              [] OTHER -> s.of
      flagged == IF i.op \in {"rol", "ror"} THEN s ELSE CpuResultFlags(s, r, size)
  IN CpuWrite([flagged EXCEPT !.cf = cf, !.of = of], i.d, size, i.rex, r)

\* shld and shrd: a count of zero leaves everything.
CpuDoDouble(s, i) ==
  LET size == i.size
      bits == CpuWidth(size)
      count == CpuCount(s, i)
      a == CpuRead(s, i.d, size, i.rex)
      b == CpuRead(s, i.r, size, i.rex)
      left == i.op = "shld"
      spill == IF count <= bits
               THEN IF left THEN b \div 2 ^ (bits - count) ELSE b * 2 ^ (bits - count)
               ELSE IF left THEN b * 2 ^ (count - bits) ELSE b \div 2 ^ (count - bits)
      r == CpuUns(CpuBitwise("or", IF left THEN a * 2 ^ count ELSE a \div 2 ^ count, spill), size)
      cf == IF left THEN CpuBit(a, bits - count) ELSE CpuBit(a, count - 1)
      of == IF count # 1 THEN s.of
            ELSE IF left THEN CpuBit(r, bits - 1) # cf
                 ELSE CpuBit(a, bits - 1) # CpuBit(a, bits - 2)
  IN IF count = 0 THEN s
     ELSE CpuWrite([s EXCEPT !.cf = cf, !.of = of, !.zf = r = 0,
                             !.sf = CpuBit(r, bits - 1)], i.d, size, i.rex, r)

-----------------------------------------------------------------------------
(* Multiplication and division.  Those with one operand put what they        *)
(* compute into the whole of rax and rdx.                                  *)

CpuFault(why) == [fault |-> why]
CpuFaults(t) == "fault" \in DOMAIN t

CpuDoMul(s, i) ==
  LET size == i.size
      signed == i.op = "imul"
      take(v) == IF signed THEN CpuSgn(v, size) ELSE CpuUns(v, size)
      full == (take(s.reg[0]) * take(CpuRead(s, i.d, size, i.rex)))
                % (CpuTop(size) * CpuTop(size))
      lo == full % CpuTop(size)
      hi == full \div CpuTop(size)
      fill == IF signed /\ CpuBit(lo, CpuWidth(size) - 1) THEN CpuTop(size) - 1 ELSE 0
  IN [CpuSet(CpuSet(s, 0, lo), 2, hi) EXCEPT !.cf = hi # fill, !.of = hi # fill]

\* Division truncates towards zero.
CpuQuotient(x, y) ==
  LET abs(v) == IF v < 0 THEN -v ELSE v
      q == abs(x) \div abs(y)
  IN IF (x < 0) # (y < 0) THEN -q ELSE q

CpuDoDiv(s, i) ==
  LET size == i.size
      signed == i.op = "idiv"
      raw == CpuRead(s, i.d, size, i.rex)
      both == s.reg[2] * CpuTop(size) + CpuUns(s.reg[0], size)
      square == CpuTop(size) * CpuTop(size)
      wrapped == both % square
      divisor == IF signed THEN CpuSgn(raw, size) ELSE raw
      dividend == IF ~signed THEN both
                  ELSE IF 2 * wrapped >= square THEN wrapped - square ELSE wrapped
      q == CpuQuotient(dividend, divisor)
      fits == IF signed THEN q >= -CpuSign(size) /\ q < CpuSign(size) ELSE q < CpuTop(size)
  IN IF divisor = 0 THEN CpuFault("division by zero")
     ELSE IF ~fits THEN CpuFault("division overflow")
     ELSE CpuSet(CpuSet(s, 0, CpuUns(q, size)), 2, CpuUns(dividend - q * divisor, size))

\* imul with two and three operands: no flags.
CpuDoImul(s, i) ==
  LET a == CpuRead(s, i.r, i.size, i.rex)
      b == IF i.form = "reg" THEN CpuRead(s, i.d, i.size, i.rex) ELSE CpuOperand(s, i)
  IN CpuWrite(s, i.d, i.size, i.rex, CpuSgn(a, i.size) * b)

-----------------------------------------------------------------------------
(* Bits, exchanges and extensions.                                          *)

\* bsf and bsr: the destination stays as it is for zero.
CpuDoScan(s, i) ==
  LET v == CpuRead(s, i.r, i.size, i.rex)
      set == {k \in 0..CpuWidth(i.size) - 1 : CpuBit(v, k)}
      k == IF i.op = "bsf" THEN Min(set) ELSE Max(set)
  IN IF v = 0 THEN [s EXCEPT !.zf = TRUE]
     ELSE CpuWrite([s EXCEPT !.zf = FALSE], i.d, i.size, i.rex, k)

CpuDoBitTest(s, i) ==
  LET v == CpuRead(s, i.d, i.size, i.rex)
      index == IF i.form = "reg" THEN CpuRead(s, i.r, i.size, i.rex) ELSE CpuUns(i.imm, 1)
      k == index % CpuWidth(i.size)
      was == CpuBit(v, k)
      set == CASE i.op = "bts" -> TRUE [] i.op = "btr" -> FALSE [] i.op = "btc" -> ~was
               [] i.op = "bt" -> was
      r == v + (IF set /\ ~was THEN 2 ^ k ELSE IF was /\ ~set THEN -(2 ^ k) ELSE 0)
      t == [s EXCEPT !.cf = was]
  IN IF i.op = "bt" THEN t ELSE CpuWrite(t, i.d, i.size, i.rex, r)

\* cmpxchg: of the flags only ZF.
CpuDoCmpxchg(s, i) ==
  LET dst == CpuRead(s, i.d, i.size, i.rex)
      equal == dst = CpuRead(s, 0, i.size, i.rex)
      t == [s EXCEPT !.zf = equal]
  IN IF equal THEN CpuWrite(t, i.d, i.size, i.rex, CpuRead(s, i.r, i.size, i.rex))
     ELSE CpuWrite(t, 0, i.size, i.rex, dst)

\* Both write the source last.
CpuDoXchg(s, i) ==
  CpuWrite(CpuWrite(s, i.d, i.size, i.rex, CpuRead(s, i.r, i.size, i.rex)),
           i.r, i.size, i.rex, CpuRead(s, i.d, i.size, i.rex))

CpuDoXadd(s, i) ==
  LET a == CpuRead(s, i.d, i.size, i.rex)
      x == CpuAlu(s, "add", a, CpuRead(s, i.r, i.size, i.rex), i.size)
  IN CpuWrite(CpuWrite(x.s, i.d, i.size, i.rex, x.r), i.r, i.size, i.rex, a)

CpuDoBswap(s, i) ==
  LET size == IF i.size = 8 THEN 8 ELSE 4
      v == CpuRead(s, i.d, size, i.rex)
      byte(k) == (v \div 2 ^ (CpuByte * k)) % CpuTop(1)
      turned[n \in 0..size] == IF n = 0 THEN 0 ELSE turned[n - 1] * CpuTop(1) + byte(n - 1)
  IN CpuWrite(s, i.d, size, i.rex, turned[size])

\* movzx, movsx and movsxd, from a narrower source.
CpuDoExtend(s, i) ==
  LET half == i.size \div 2
      v == CpuRead(s, i.r, half, i.rex)
  IN CpuWrite(s, i.d, i.size, i.rex, IF i.op = "movzx" THEN v ELSE CpuSgn(v, half))

\* cdqe and its 16-bit forms all fill the 32-bit register; cdq fills the second
\* register with the sign.
CpuDoWiden(s, i) ==
  CASE i.op = "cdqe" /\ i.size = 8 -> CpuSet(s, 0, CpuSx(s.reg[0], 4))
    [] i.op = "cdqe" /\ i.size # 8 -> CpuWrite(s, 0, 4, i.rex, CpuSgn(s.reg[0], 2))
    [] i.op = "cdq" -> CpuWrite(s, 2, i.size, TRUE,
                         IF CpuSgn(s.reg[0], i.size) < 0 THEN CpuTop(i.size) - 1 ELSE 0)

CpuDoSetcc(s, i) == CpuWrite(s, i.d, 1, i.rex, IF CpuCond(s, i.cc) THEN 1 ELSE 0)

\* cmov writes nothing when the condition fails.
CpuDoCmov(s, i) ==
  IF CpuCond(s, i.cc) THEN CpuWrite(s, i.d, i.size, i.rex, CpuRead(s, i.r, i.size, i.rex))
  ELSE s

CpuDoCarry(s, i) ==
  [s EXCEPT !.cf = CASE i.op = "clc" -> FALSE [] i.op = "stc" -> TRUE [] i.op = "cmc" -> ~@]

\* mov from a register or with an immediate.
CpuDoMov(s, i) == CpuWrite(s, i.d, i.size, i.rex, CpuOperand(s, i))

-----------------------------------------------------------------------------
CpuDo(s, i) ==
  CASE i.op \in CpuAluOps -> CpuDoAlu(s, i)
    [] i.op \in CpuUnaryOps -> CpuDoUnary(s, i)
    [] i.op \in CpuRotateOps \cup CpuShiftOps -> CpuDoShift(s, i)
    [] i.op \in CpuDoubleOps -> CpuDoDouble(s, i)
    [] i.op \in CpuMulOps -> CpuDoMul(s, i)
    [] i.op \in CpuDivOps -> CpuDoDiv(s, i)
    [] i.op = "imul2" -> CpuDoImul(s, i)
    [] i.op \in CpuScanOps -> CpuDoScan(s, i)
    [] i.op \in CpuBitOps -> CpuDoBitTest(s, i)
    [] i.op = "cmpxchg" -> CpuDoCmpxchg(s, i)
    [] i.op = "xchg" -> CpuDoXchg(s, i)
    [] i.op = "xadd" -> CpuDoXadd(s, i)
    [] i.op = "bswap" -> CpuDoBswap(s, i)
    [] i.op \in CpuExtendOps -> CpuDoExtend(s, i)
    [] i.op \in CpuWidenOps -> CpuDoWiden(s, i)
    [] i.op = "setcc" -> CpuDoSetcc(s, i)
    [] i.op = "cmov" -> CpuDoCmov(s, i)
    [] i.op \in CpuCarryOps -> CpuDoCarry(s, i)
    [] i.op = "mov" -> CpuDoMov(s, i)

CpuInit ==
  /\ cpu \in CpuStarts
  /\ cpuInstr = CpuNone /\ cpuBefore = cpu

\* One instruction from any of the states: what it reads of those before it are
\* the registers and flags they left.
CpuExecute(i) ==
  /\ cpuInstr' = i /\ cpuBefore' = cpu
  /\ cpu' = CpuDo(cpu, i)

CpuNext == cpuInstr = CpuNone /\ \E i \in CpuProgram : CpuExecute(i)

CpuSpec == CpuInit /\ [][CpuNext]_cpuVars

CpuTypeOK == CpuFaults(cpu) \/ cpu \in CpuState

-----------------------------------------------------------------------------
(* The architecture, in terms of the numbers the operands stand for.        *)

ArchOperand(s, i) ==
  CASE i.form = "reg" -> CpuRead(s, i.r, i.size, i.rex)
    [] i.form = "imm8" -> CpuUns(CpuSgn(i.imm, 1), i.size)
    [] i.form \in {"immz", "acc"} -> CpuUns(CpuSgn(i.imm, Min({i.size, 4})), i.size)

ArchAlu(s, i) ==
  LET size == i.size
      a == CASE i.op = "neg" -> 0 [] OTHER -> CpuRead(s, i.d, size, i.rex)
      b == CASE i.op = "neg" -> CpuRead(s, i.d, size, i.rex)
             [] i.op \in {"inc", "dec"} -> 1
             [] OTHER -> ArchOperand(s, i)
      c == IF i.op \in {"adc", "sbb"} /\ s.cf THEN 1 ELSE 0
      adds == i.op \in {"add", "adc", "xadd", "inc"}
      logic == i.op \in {"and", "or", "xor", "test"}
      r == IF logic THEN CpuAluResult(i.op, a, b, c)
           ELSE CpuUns(IF adds THEN a + b + c ELSE a - b - c, size)
      signed == IF adds THEN CpuSgn(a, size) + CpuSgn(b, size) + c
                ELSE CpuSgn(a, size) - CpuSgn(b, size) - c
      t == [CpuResultFlags(s, r, size) EXCEPT
              !.cf = IF i.op \in {"inc", "dec"} THEN s.cf
                     ELSE ~logic /\ IF adds THEN a + b + c >= CpuTop(size) ELSE a < b + c,
              !.of = ~logic /\ signed \notin -CpuSign(size)..CpuSign(size) - 1]
  IN CASE i.op \in {"cmp", "test"} -> t
       [] i.op = "xadd" -> CpuWrite(CpuWrite(t, i.r, size, i.rex, a), i.d, size, i.rex, r)
       [] OTHER -> CpuWrite(t, i.d, size, i.rex, r)

\* One bit at a time.
ArchShift1(op, v, size) ==
  LET low == v.a % 2
      high == v.a \div CpuSign(size)
      carry == IF v.cf THEN 1 ELSE 0
      into == CASE op = "rol" -> high [] op = "ror" -> low [] op \in {"rcl", "rcr"} -> carry
                [] op \in {"shl", "shr"} -> 0 [] op = "sar" -> high
  IN IF op \in {"rol", "rcl", "shl"}
     THEN [a |-> CpuUns(v.a * 2, size) + into, cf |-> high = 1]
     ELSE [a |-> v.a \div 2 + into * CpuSign(size), cf |-> low = 1]

ArchShift(s, i) ==
  LET size == i.size
      a == CpuRead(s, i.d, size, i.rex)
      count == CpuCount(s, i)
      at[k \in 0..count] == IF k = 0 THEN [a |-> a, cf |-> s.cf]
                            ELSE ArchShift1(i.op, at[k - 1], size)
      x == at[count]
      top(v) == CpuBit(v, CpuWidth(size) - 1)
      t == IF i.op \in {"shl", "shr", "sar"} THEN CpuResultFlags(s, x.a, size) ELSE s
      of == IF count # 1 THEN s.of
            ELSE IF i.op \in {"shl", "rol", "rcl"} THEN top(x.a) # x.cf
            ELSE IF i.op = "sar" THEN FALSE ELSE top(x.a) # top(a)
  IN IF count = 0 THEN CpuWrite(s, i.d, size, i.rex, a)
     ELSE CpuWrite([t EXCEPT !.cf = x.cf, !.of = of], i.d, size, i.rex, x.a)

\* The operand pair of a byte operation is AX.
ArchPair(s, size) == IF size = 1 THEN CpuUns(s.reg[0], 2)
                     ELSE CpuUns(s.reg[2], size) * CpuTop(size) + CpuUns(s.reg[0], size)
ArchSetPair(s, size, lo, hi) ==
  IF size = 1 THEN CpuWrite(s, 0, 2, TRUE, hi * CpuTop(1) + lo)
  ELSE CpuWrite(CpuWrite(s, 0, size, TRUE, lo), 2, size, TRUE, hi)

ArchMul(s, i) ==
  LET size == i.size
      signed == i.op = "imul"
      x == CpuUns(s.reg[0], size)
      y == CpuRead(s, i.d, size, i.rex)
      p == IF signed THEN CpuSgn(x, size) * CpuSgn(y, size) ELSE x * y
      wide == IF signed THEN p \notin -CpuSign(size)..CpuSign(size) - 1 ELSE p >= CpuTop(size)
      u == p % (CpuTop(size) * CpuTop(size))
  IN [ArchSetPair(s, size, u % CpuTop(size), u \div CpuTop(size)) EXCEPT
        !.cf = wide, !.of = wide]

ArchDiv(s, i) ==
  LET size == i.size
      signed == i.op = "idiv"
      square == CpuTop(size) * CpuTop(size)
      pair == ArchPair(s, size)
      n == IF signed /\ 2 * pair >= square THEN pair - square ELSE pair
      y == CpuRead(s, i.d, size, i.rex)
      m == IF signed THEN CpuSgn(y, size) ELSE y
      range == IF signed THEN -CpuSign(size)..CpuSign(size) - 1 ELSE 0..CpuTop(size) - 1
      abs(v) == IF v < 0 THEN -v ELSE v
      results == {q \in range : /\ abs(n - q * m) < abs(m)
                                /\ n - q * m = 0 \/ ((n - q * m < 0) = (n < 0))}
  IN IF m = 0 \/ results = {} THEN CpuFault("divide error")
     ELSE LET q == CHOOSE q \in results : TRUE
          IN ArchSetPair(s, size, CpuUns(q, size), CpuUns(n - q * m, size))

ArchImul(s, i) ==
  LET b == IF i.form = "reg" THEN CpuRead(s, i.d, i.size, i.rex) ELSE ArchOperand(s, i)
      p == CpuSgn(CpuRead(s, i.r, i.size, i.rex), i.size) * CpuSgn(b, i.size)
      wide == p \notin -CpuSign(i.size)..CpuSign(i.size) - 1
  IN [CpuWrite(s, i.d, i.size, i.rex, p) EXCEPT !.cf = wide, !.of = wide]

\* The relations a comparison sets the flags for.
ArchRelation(a, b, cc, size) ==
  LET x == CpuSgn(a, size)
      y == CpuSgn(b, size)
  IN CASE cc = 2 -> a < b [] cc = 3 -> a >= b [] cc = 4 -> a = b [] cc = 5 -> a # b
       [] cc = 6 -> a <= b [] cc = 7 -> a > b [] cc = 12 -> x < y [] cc = 13 -> x >= y
       [] cc = 14 -> x <= y [] cc = 15 -> x > y

\* Both registers as one number.
ArchDouble(s, i) ==
  LET size == i.size
      top == CpuTop(size)
      bits == CpuWidth(size)
      count == CpuCount(s, i)
      a == CpuRead(s, i.d, size, i.rex)
      b == CpuRead(s, i.r, size, i.rex)
      r == IF i.op = "shld" THEN ((a * top + b) * 2 ^ count) \div top
           ELSE (b * top + a) \div 2 ^ count
      cf == IF i.op = "shld" THEN CpuBit(a, bits - count) ELSE CpuBit(a, count - 1)
      t == [CpuResultFlags(s, CpuUns(r, size), size) EXCEPT
              !.cf = cf, !.of = CpuBit(r, bits - 1) # CpuBit(a, bits - 1)]
  IN IF count = 0 THEN s ELSE CpuWrite(t, i.d, size, i.rex, r)

ArchCmpxchg(s, i) ==
  LET acc == CpuRead(s, 0, i.size, i.rex)
      dst == CpuRead(s, i.d, i.size, i.rex)
      t == ArchAlu(s, [i EXCEPT !.op = "cmp", !.d = 0, !.r = i.d])
  IN IF dst = acc THEN CpuWrite(t, i.d, i.size, i.rex, CpuRead(s, i.r, i.size, i.rex))
     ELSE CpuWrite(t, 0, i.size, i.rex, dst)

ArchExtend(s, i) ==
  LET half == i.size \div 2
  IN CASE i.op = "cdqe" -> CpuWrite(s, 0, i.size, TRUE, CpuSgn(s.reg[0], half))
       [] i.op = "cdq" -> CpuWrite(s, 2, i.size, TRUE, CpuSgn(s.reg[0], i.size) \div CpuTop(i.size))

\* A 32-bit cmov clears the upper half whatever the condition.
ArchCmov(s, i) ==
  LET holds == CASE i.cc \div 2 = 6 -> s.sf # s.of [] OTHER -> CpuCond(s, i.cc - (i.cc % 2))
      from == IF holds = (i.cc % 2 = 0) THEN i.r ELSE i.d
  IN CpuWrite(s, i.d, i.size, i.rex, CpuRead(s, from, i.size, i.rex))

ArchOps == CpuAluOps \cup {"inc", "dec", "neg", "xadd", "rol", "ror", "rcl", "rcr",
             "shl", "shr", "sar", "shld", "shrd", "mul", "imul", "div", "idiv", "imul2",
             "cmpxchg", "cdqe", "cdq", "cmov"}

Arch(s, i) ==
  CASE i.op \in CpuAluOps \cup {"inc", "dec", "neg", "xadd"} -> ArchAlu(s, i)
    [] i.op \in {"rol", "ror", "rcl", "rcr", "shl", "shr", "sar"} -> ArchShift(s, i)
    [] i.op \in {"shld", "shrd"} -> ArchDouble(s, i)
    [] i.op \in {"mul", "imul"} -> ArchMul(s, i)
    [] i.op \in {"div", "idiv"} -> ArchDiv(s, i)
    [] i.op = "imul2" -> ArchImul(s, i)
    [] i.op = "cmpxchg" -> ArchCmpxchg(s, i)
    [] i.op \in {"cdqe", "cdq"} -> ArchExtend(s, i)
    [] i.op = "cmov" -> ArchCmov(s, i)

\* What the architecture defines after an instruction.
ArchDefines(s, i) ==
  LET count == CpuCount(s, i)
      bits == CpuWidth(i.size)
      of == IF count \in {0, 1} THEN {"of"} ELSE {}
  IN {"regs"} \cup
     CASE i.op \in {"mul", "imul", "imul2"} -> {"cf", "of"}
       [] i.op \in {"div", "idiv"} -> {}
       [] i.op \in {"rol", "ror", "rcl", "rcr"} -> (CpuFlags \ {"of"}) \cup of
       [] i.op \in {"shl", "shr", "sar"} -> {"zf", "sf", "pf"} \cup of \cup
            (IF count <= bits \/ i.op = "sar" THEN {"cf"} ELSE {})
       [] i.op \in {"shld", "shrd"} -> (CpuFlags \ {"of"}) \cup of
       [] OTHER -> CpuFlags

\* What the interpreter is known to get wrong.
CpuMisses(s, i) ==
  LET count == CpuCount(s, i)
      bits == CpuWidth(i.size)
      narrow == i.size \in {1, 2}
      wide == i.form # "reg" /\ i.size \in {2, 4}
  IN CASE i.op \in {"adc", "sbb"} -> {"of"} \cup (IF wide THEN {"cf"} ELSE {})
       [] i.op \in {"add", "sub", "cmp"} /\ wide -> {"cf"}
       [] i.op = "test" /\ i.form = "acc" /\ i.size = 8 /\ CpuSgn(i.imm, 4) < 0 -> {"zf", "sf"}
       [] i.op \in {"shl", "shr", "sar"} ->
            IF count = 0 THEN CpuFlags ELSE {"of"} \cup (IF count > bits THEN {"cf"} ELSE {})
       [] i.op \in {"rcl", "rcr"} -> {"zf", "sf", "pf", "of"}
       [] i.op \in {"rol", "ror"} /\ count > 0 /\ count % bits = 0 -> {"cf"}
       [] i.op = "shld" -> {"pf"}
       [] i.op = "shrd" -> {"pf", "of"}
       [] i.op \in {"mul", "imul"} /\ narrow -> {"regs"}
       [] i.op = "imul2" -> {"cf", "of"}
       [] i.op \in {"div", "idiv"} /\ narrow -> {"regs"}
       [] i.op = "div" /\ i.size = 4 /\ s.reg[2] >= CpuTop(4) -> {"regs"}
       [] i.op = "cmpxchg" -> CpuFlags \ {"zf"}
       [] i.op = "xadd" /\ i.d = i.r -> {"regs"}
       [] i.op = "cdqe" /\ i.size = 2 -> {"regs"}
       [] i.op = "cmov" -> IF i.cc \in {12, 13} \/ i.size = 4 THEN {"regs"} ELSE {}
       [] OTHER -> {}

CpuAgreesOn(parts, t, u) ==
  IF CpuFaults(t) \/ CpuFaults(u)
  THEN "regs" \in parts => CpuFaults(t) = CpuFaults(u)
  ELSE /\ "regs" \in parts => t.reg = u.reg
       /\ \A f \in parts \ {"regs"} : t[f] = u[f]

CpuRan == cpuInstr # CpuNone /\ cpuInstr.op \in ArchOps

CpuCompared == cpuInstr.op = "cmp" /\ cpuInstr.form = "reg"
CpuRelationsOf(ccs) ==
  cpuInstr # CpuNone /\ CpuCompared =>
    LET i == cpuInstr
        a == CpuRead(cpuBefore, i.d, i.size, i.rex)
        b == CpuRead(cpuBefore, i.r, i.size, i.rex)
    IN \A cc \in ccs : CpuCond(cpu, cc) = ArchRelation(a, b, cc, i.size)

\* Registers, flags and divide errors are the architecture's, for every
\* instruction and operand but those CpuMisses names; and after a comparison the
\* conditions but "less" and "not less" are the relations of the numbers compared.
CpuExact ==
  /\ CpuRan => CpuAgreesOn(ArchDefines(cpuBefore, cpuInstr) \ CpuMisses(cpuBefore, cpuInstr),
                           cpu, Arch(cpuBefore, cpuInstr))
  /\ CpuRelationsOf({2, 3, 4, 5, 6, 7, 14, 15})

\* "Unsupported instructions raise immediately - never silently misexecute"
\* (cpu.mjs:5): what an instruction the interpreter executes leaves is what the
\* architecture defines, and a condition says of compared numbers what it means.
NeverMisexecutes ==
  /\ CpuRan => CpuAgreesOn(ArchDefines(cpuBefore, cpuInstr), cpu, Arch(cpuBefore, cpuInstr))
  /\ CpuRelationsOf({2, 3, 4, 5, 6, 7, 12, 13, 14, 15})

===============================================================================

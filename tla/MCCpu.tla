--------------------------------- MODULE MCCpu ---------------------------------
(* Instances of Cpu for TLC. *)
EXTENDS Cpu

\* Bytes of two bits: what is at the edge of a size, of a sign and of a byte.
Wide == {0, 1, 8, 128, 255, 32768, 65535}
Other == {0, 1, 8, 15, 255, 65535}
High == {0, 15, 256}

Registers(a, c, d, carry) ==
  [reg |-> [k \in CpuRegs |-> CASE k = 0 -> a [] k = 1 -> c [] k = 2 -> d [] OTHER -> 0],
   cf |-> carry, zf |-> carry, sf |-> FALSE, of |-> carry, pf |-> FALSE]

Starts == { Registers(a, c, d, carry) : a \in Wide, c \in Other, d \in High, carry \in BOOLEAN }

Insn(op, size, form) ==
  [op |-> op, size |-> size, form |-> form, d |-> 0, r |-> 1, rex |-> TRUE, imm |-> 0, cc |-> 0]
WithImm(i, values) == { [i EXCEPT !.imm = v] : v \in values }
WithCond(i) == { [i EXCEPT !.cc = c] : c \in 0..15 }

TwoOperands == CpuAluOps \cup {"imul2", "cmpxchg", "xadd", "inc", "dec", "neg", "not", "mov"}
Extending == {"cdqe", "cdq", "movsx", "movzx", "bswap", "bsf", "bsr", "bt", "bts", "btr", "btc",
              "xchg"}
Shifts == {"rol", "ror", "rcl", "rcr", "shl", "shr", "sar"}

Program ==
  { Insn(op, size, "reg") : op \in TwoOperands, size \in {1, 2, 4, 8} }
  \cup { Insn(op, size, "reg") : op \in Extending, size \in {2, 4, 8} }
  \cup { Insn(op, 1, "reg") : op \in {"clc", "stc", "cmc"} }
  \cup { Insn(op, size, f) : op \in Shifts, size \in {1, 2, 4, 8}, f \in {"cl", "one"} }
  \cup { Insn(op, 4, "cl") : op \in {"shld", "shrd"} }
  \cup { [Insn(op, size, "reg") EXCEPT !.d = 1] :
           op \in {"mul", "imul", "div", "idiv"}, size \in {1, 2, 4} }
  \cup { [Insn(op, 1, "reg") EXCEPT !.rex = FALSE, !.d = 4] : op \in {"add", "cmp", "xchg"} }
  \cup UNION { WithImm(Insn(op, size, "imm8"), {1, 3}) :
                 op \in (CpuAluOps \ {"test"}) \cup {"imul2"}, size \in {2, 4, 8} }
  \cup UNION { WithImm(Insn(op, size, f), {1, 15, 255}) :
                 op \in {"add", "cmp", "test"}, size \in {1, 2, 4, 8}, f \in {"immz", "acc"} }
  \cup UNION { WithCond(Insn("cmov", size, "reg")) : size \in {2, 4, 8} }
  \cup WithCond([Insn("setcc", 1, "reg") EXCEPT !.rex = FALSE, !.d = 4])

\* A comparison, for what the conditions make of it.
Compare == { Insn("cmp", 8, "reg") }

MCCpuSpec == CpuInit /\ [][CpuNext]_cpuVars

=============================================================================

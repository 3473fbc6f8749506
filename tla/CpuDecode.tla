-------------------------------- MODULE CpuDecode --------------------------------
(***************************************************************************)
(* How the interpreter finds what an instruction works on: the prefixes    *)
(* step reads, the operand decodeModrm and resolveRm find and the immediate *)
(* behind it (packages/ntsim/src/cpu.mjs), beside what the encoding means. *)
(*                                                                         *)
(* A ModRM operand is the fields mod, reg, rm, a SIB byte, the bits of REX  *)
(* and the displacement as it stands in the code.  Widths are those of Cpu. *)
(***************************************************************************)
EXTENDS Cpu

CONSTANTS
  DecOperands,    \* ModRM operands, with all their fields
  DecRegisters,   \* contents of the 16 registers
  DecPrefixes     \* sequences of prefix bytes

VARIABLES
  decInput,   \* the instruction: prefixes, operand, kind of immediate, and the address
              \* behind the displacement
  decFound    \* where the code says the operand is, CpuNone before

decVars == <<decInput, decFound>>

-----------------------------------------------------------------------------
DecForms ==
  [mod : 0..3, rm : 0..7, scale : 0..3, index : 0..7, base : 0..7, rex : SUBSET {"b", "x"},
   disp : Nat]
\* "seg" is an override of es, cs, ss or ds, "base" one of fs or gs.
DecBytes == {"66", "67", "f2", "f3", "rex", "rex.w", "lock", "seg", "base"}

\* The instructions with an operand, by their immediate: none; 80, 83, c0, c1, c6, 0f a4
\* and 0f ac; 81 and c7; 6b; 69; f6 /0 and f7 /0 (test); 0f ba.
DecInsns == {"none", "imm8", "imm32", "imul8", "imul32", "test8", "test32", "bit"}

ASSUME DecAssumption ==
  /\ DecOperands \subseteq DecForms
  /\ DecRegisters \in [0..15 -> 0..CpuTop(8) - 1]
  /\ DecPrefixes \subseteq Seq(DecBytes)

-----------------------------------------------------------------------------
\* How many bytes of immediate are fetched.
DecImmRead(insn, opsize) ==
  CASE insn = "none" -> 0
    [] insn \in {"imm8", "imul8", "test8", "bit"} -> 1
    [] insn \in {"imm32", "imul32"} -> IF opsize = 2 THEN 2 ELSE 4
    [] insn = "test32" -> 4

\* An operand relative to RIP is resolved when it is first used, against what RIP is
\* then: for these before the immediate is fetched.
DecEarly == {"imul8", "imul32", "test8", "test32", "bit"}
DecEnd(in, opsize) == in.after + IF in.insn \in DecEarly THEN 0 ELSE DecImmRead(in.insn, opsize)

\* How many bytes of displacement are read, and the address; dispSize is that of
\* disp.  next is what RIP is when the operand is resolved.
DecRex(x, bit, n) == n + IF bit \in x.rex THEN 8 ELSE 0

\* Mutant: a displacement of one byte is not sign-extended.
DecDispUnsigned(x, size) == CpuUns(x.disp, size)

DecDisp(x, size) == CpuSgn(x.disp, size)

\* The SIB byte.  The code takes index 4 for none whatever REX.X says, base 5
\* without displacement for r13 when REX.B is set, and leaves the displacement
\* that stands for a missing base without its sign.
DecSib(x) ==
  LET base == DecRex(x, "b", x.base)
      index == IF x.index = 4 THEN 0
               ELSE DecRegisters[DecRex(x, "x", x.index)] * 2 ^ x.scale
      bare == base = 5 /\ x.mod = 0
  IN [addr |-> index + IF bare THEN CpuUns(x.disp, 4) ELSE DecRegisters[base],
      len |-> 1 + IF bare THEN 4 ELSE 0]

DecModrm(x, next) ==
  LET sib == DecSib(x)
      start == CASE x.rm = 4 -> sib
                 [] x.rm = 5 /\ x.mod = 0 -> [addr |-> next + DecDisp(x, 4), len |-> 4]
                 [] OTHER -> [addr |-> DecRegisters[DecRex(x, "b", x.rm)], len |-> 0]
      size == CASE x.mod = 1 -> 1 [] x.mod = 2 -> 4 [] x.mod = 0 -> 0
  IN IF x.mod = 3 THEN [kind |-> "reg", at |-> DecRex(x, "b", x.rm), len |-> 1]
     ELSE [kind |-> "mem",
           at |-> CpuUns(start.addr + IF size = 0 THEN 0 ELSE DecDisp(x, size), 8),
           len |-> 1 + start.len + size]

\* The prefix loop of step: the last prefix that says something about the operand
\* size wins, REX.W or 66.
DecPrefix(state, p) ==
  CASE p = "66" -> [state EXCEPT !.opsize = 2]
    [] p = "67" -> [state EXCEPT !.addr16 = TRUE]
    [] p \in {"f2", "f3"} -> [state EXCEPT !.rep = p]
    [] p = "rex.w" -> [state EXCEPT !.rex = p, !.opsize = 8]
    [] p = "rex" -> [state EXCEPT !.rex = p]
    [] p \in {"lock", "seg", "base"} -> state

DecPrefixed(seq) ==
  LET after[n \in 0..Len(seq)] ==
        IF n = 0 THEN [opsize |-> 4, addr16 |-> FALSE, rep |-> "none", rex |-> "none"]
        ELSE DecPrefix(after[n - 1], seq[n])
  IN  after[Len(seq)]

-----------------------------------------------------------------------------
DecInit ==
  /\ decInput \in [operand : DecOperands, prefixes : DecPrefixes, insn : DecInsns,
                   after : {0, 1000}]
  /\ decFound = CpuNone

DecResult(in) ==
  LET prefixes == DecPrefixed(in.prefixes)
  IN [prefixes |-> prefixes, imm |-> DecImmRead(in.insn, prefixes.opsize),
      operand |-> DecModrm(in.operand, DecEnd(in, prefixes.opsize))]

DecStep == decFound = CpuNone /\ decFound' = DecResult(decInput) /\ UNCHANGED decInput

DecSpec == DecInit /\ [][DecStep]_decVars

-----------------------------------------------------------------------------
\* The encoding, next being the next instruction: an index of 4 is none only without
\* REX.X; mod 0 with base 5 has a signed displacement and no base, whatever REX.B is.
DecMeant(x, next) ==
  LET reg(bit, n) == DecRegisters[DecRex(x, bit, n)]
      noBase == x.mod = 0 /\ (IF x.rm = 4 THEN x.base = 5 ELSE x.rm = 5)
      size == CASE noBase -> 4 [] x.mod = 1 -> 1 [] x.mod = 2 -> 4 [] OTHER -> 0
      base == CASE noBase /\ x.rm = 5 -> next
                [] noBase /\ x.rm = 4 -> 0
                [] ~noBase /\ x.rm = 4 -> reg("b", x.base)
                [] OTHER -> reg("b", x.rm)
      index == IF x.rm # 4 \/ (x.index = 4 /\ "x" \notin x.rex) THEN 0
               ELSE reg("x", x.index) * 2 ^ x.scale
      disp == IF size = 0 THEN 0 ELSE CpuSgn(x.disp, size)
  IN IF x.mod = 3 THEN [kind |-> "reg", at |-> DecRex(x, "b", x.rm), len |-> 1]
     ELSE [kind |-> "mem", at |-> CpuUns(base + index + disp, 8),
           len |-> 1 + (IF x.rm = 4 THEN 1 ELSE 0) + size]

\* An immediate is never longer than the operand.
DecImmMeant(insn, opsize) ==
  IF insn = "test32" /\ opsize = 2 THEN 2 ELSE DecImmRead(insn, opsize)

DecSibMisses(x) ==
  /\ x.mod # 3 /\ x.rm = 4
  /\ \/ x.index = 4 /\ "x" \in x.rex
     \/ x.mod = 0 /\ x.base = 5 /\ ("b" \in x.rex \/ CpuSgn(x.disp, 4) < 0)

\* Those forms of SIB; relative to RIP, an operand that is used before an immediate is
\* fetched; and in memory any with 67, or with a segment that has a base.
DecMisses(in) ==
  \/ DecSibMisses(in.operand)
  \/ in.operand.mod = 0 /\ in.operand.rm = 5 /\ in.insn \in DecEarly
  \/ in.operand.mod # 3 /\ \E k \in DOMAIN in.prefixes : in.prefixes[k] \in {"67", "base"}

\* Every operand is found where the encoding puts it, RIP-relative ones from the
\* instruction behind, and the bytes consumed are its own, but for the forms DecMisses
\* names; the immediate is as long as it should be, but that f7 /0 takes four bytes with
\* 66; and when REX comes last, as it must, the operand size is the one the prefixes select.
DecExact ==
  decFound # CpuNone =>
    LET in == decInput
        seq == in.prefixes
        last == Len(seq)
        opsize == decFound.prefixes.opsize
        meant == IF last > 0 /\ seq[last] = "rex.w" THEN 8
                 ELSE IF \E k \in DOMAIN seq : seq[k] = "66" THEN 2 ELSE 4
    IN /\ \/ DecMisses(in)
          \/ decFound.operand = DecMeant(in.operand, in.after + DecImmMeant(in.insn, opsize))
       /\ (in.insn = "test32" /\ opsize = 2) \/ decFound.imm = DecImmMeant(in.insn, opsize)
       /\ (\A k \in 1..last - 1 : seq[k] \notin {"rex", "rex.w"}) => opsize = meant

===============================================================================

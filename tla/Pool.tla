---------------------------------- MODULE Pool ----------------------------------
(***************************************************************************)
(* The pool of the two simulated kernels, and the routines that move bytes   *)
(* about in it (packages/ntsim/src/kernel.mjs and winapi.mjs,                *)
(* packages/linux-sim/src/linux-kernel.mjs and linux-api.mjs).               *)
(*                                                                         *)
(* A cell stands for 8 bytes: a block is a header of two cells, the first    *)
(* with the magic number, its payload, and a guard of two cells.             *)
(***************************************************************************)
EXTENDS Integers, Sequences, FiniteSets

CONSTANTS
  HpSizes,   \* cells a driver asks for
  HpHalf,    \* a size is a 32-bit number in the rounding: 2^31, in cells
  HpLarge,   \* ExAllocatePool2 refuses more cells than this
  HpJitters, \* cells the next block may be moved up by, with heap ASLR
  HpFixed,   \* blocks <<addr, size>> a scenario places itself, apart and beyond the pool
  HpEnd,     \* the pool grows from 0 to here
  HpCells,   \* the cells there are
  HpMaxAllocs, HpMaxMoves  \* bounds: blocks of all kinds, and moves of bytes

ASSUME HpAssumption ==
  /\ HpSizes \subseteq Nat /\ HpHalf \in Nat \ {0} /\ HpLarge \in Nat /\ HpCells \in Nat
  /\ HpEnd \in 0..HpCells /\ HpFixed \subseteq Nat \X Nat
  /\ \A b \in HpFixed : HpEnd + 2 <= b[1] /\ b[1] + b[2] + 2 <= HpCells
  /\ \A b, c \in HpFixed : b[1] < c[1] => b[1] + b[2] + 2 <= c[1] - 2
  /\ HpJitters \subseteq {2 * j : j \in 0..255}
  /\ HpMaxAllocs \in Nat /\ HpMaxMoves \in Nat

VARIABLES
  hpMem,     \* what a cell holds
  hpNext,    \* nextPool
  hpAllocs,  \* poolAllocs: [addr, size, freed]
  hpUser,    \* userAllocs of kernel.mjs: [addr, size], in pages of two cells
  hpNt,      \* the kernel: ntsim, or linux-sim
  hpStrict,  \* poolStrict
  hpAslr,    \* heapConfig.aslr
  hpCode,    \* the bugcheck noted, if any
  hpMoves,   \* moves so far
  hpForeign  \* ghost: cells the driver wrote since the allocator did

hpHeap == <<hpMem, hpNext, hpAllocs, hpForeign>>
hpMode == <<hpNt, hpStrict, hpAslr>>
hpVars == <<hpHeap, hpMode, hpUser, hpCode, hpMoves>>

-----------------------------------------------------------------------------
HpAddrs == 0..(HpCells - 1)
HpSpan(a, n) == a..(a + n - 1)
HpGuard(b) == HpSpan(b.addr + b.size, 2)
HpExtent(b) == HpSpan(b.addr - 2, b.size + 4)
HpSigned(n) == IF n % (2 * HpHalf) < HpHalf THEN n % (2 * HpHalf)
               ELSE (n % (2 * HpHalf)) - 2 * HpHalf

\* Mutant: sizes are rounded down.
HpAlignedDown(size) == HpSigned((size \div 2) * 2)

HpAligned(size) == HpSigned(((size + 1) \div 2) * 2)

HpAllocated == Len(hpAllocs) + Len(hpUser)

HpInit ==
  /\ hpMem = [c \in HpAddrs |-> "none"] /\ hpNext = 0 /\ hpAllocs = <<>> /\ hpUser = <<>>
  /\ hpNt \in BOOLEAN /\ hpStrict \in {FALSE, hpNt} /\ hpAslr \in BOOLEAN
  /\ hpCode = "none" /\ hpMoves = 0 /\ hpForeign = {}

\* The header and the guard of a new block.
HpMarked(a, n, value) ==
  [c \in HpAddrs |-> IF c = a - 2 THEN "magic"
                     ELSE IF c \in HpSpan(a + n, 2) THEN "guard"
                     ELSE IF c \in HpSpan(a, n) THEN value[c] ELSE hpMem[c]]

\* The heap after a block of n cells with what value says was allocated at a, j the
\* jitter before it.
HpPlaced(n, j, value) ==
  LET a == hpNext + j + 2
  IN /\ HpAllocated < HpMaxAllocs /\ j \in (IF hpAslr THEN HpJitters ELSE {0})
     /\ HpSpan(a - 2, n + 4) \subseteq 0..(HpEnd - 1)
     /\ hpNext' = a + HpAligned(n) + 2 + (IF hpAslr THEN 2 ELSE 0)
     /\ hpMem' = HpMarked(a, n, value)
     /\ hpForeign' = hpForeign \ ({a - 2} \cup HpSpan(a, n + 2))

HpListed(n, j) == Append(hpAllocs, [addr |-> hpNext + j + 2, size |-> n, freed |-> FALSE])

allocPool(n, j) ==
  /\ HpPlaced(n, j, hpMem) /\ hpAllocs' = HpListed(n, j)
  /\ UNCHANGED <<hpMode, hpUser, hpCode, hpMoves>>

ExAllocatePool2(n, j) == hpNt /\ n <= HpLarge /\ allocPool(n, j)

registerPoolBlock(a, n) ==
  /\ hpNt /\ HpAllocated < HpMaxAllocs
  /\ hpMem' = HpMarked(a, n, hpMem)
  /\ hpForeign' = hpForeign \ ({a - 2} \cup HpSpan(a + n, 2))
  /\ hpAllocs' = Append(hpAllocs, [addr |-> a, size |-> n, freed |-> FALSE])
  /\ UNCHANGED <<hpNext, hpMode, hpUser, hpCode, hpMoves>>

\* Sizes are rounded to pages; less than 8 bytes become 8.
allocUser(n) ==
  /\ hpNt /\ HpAllocated < HpMaxAllocs
  /\ LET size == IF n = 0 THEN 1 ELSE n
         at == IF hpUser = <<>> THEN 0
               ELSE hpUser[Len(hpUser)].addr + ((hpUser[Len(hpUser)].size + 1) \div 2) * 2
     IN hpUser' = Append(hpUser, [addr |-> at, size |-> size])
  /\ UNCHANGED <<hpHeap, hpMode, hpCode, hpMoves>>

-----------------------------------------------------------------------------
HpFound(a) == {i \in DOMAIN hpAllocs : hpAllocs[i].addr = a}
HpFirst(a) == CHOOSE i \in HpFound(a) : \A j \in HpFound(a) : i <= j

HpFreed(allocs, a) ==
  IF HpFound(a) = {} THEN allocs ELSE [allocs EXCEPT ![HpFirst(a)].freed = TRUE]

\* The first block at an address counts; one freed before is noted in strict mode.
freePool(a) ==
  /\ hpAllocs' = HpFreed(hpAllocs, a)
  /\ hpCode' = IF HpFound(a) # {} /\ hpAllocs[HpFirst(a)].freed /\ hpStrict
               THEN "BAD_POOL_CALLER" ELSE hpCode
  /\ UNCHANGED <<hpMem, hpNext, hpMode, hpUser, hpMoves, hpForeign>>

verifyGuards ==
  {i \in DOMAIN hpAllocs : /\ ~hpAllocs[i].freed
                           /\ \E c \in HpGuard(hpAllocs[i]) : hpMem[c] # "guard"}

-----------------------------------------------------------------------------
HpCleared(n, j) == HpPlaced(n, j, [c \in HpAddrs |-> "zero"])

kzalloc(n, j) ==
  /\ ~hpNt /\ HpCleared(n, j) /\ hpAllocs' = HpListed(n, j)
  /\ UNCHANGED <<hpMode, hpUser, hpCode, hpMoves>>

\* As many cells as the new block has are copied, whatever follows the old one.
krealloc(a, n, j) ==
  /\ ~hpNt /\ UNCHANGED <<hpMode, hpUser, hpCode, hpMoves>>
  /\ IF n = 0 THEN hpAllocs' = HpFreed(hpAllocs, a) /\ UNCHANGED <<hpMem, hpNext, hpForeign>>
     ELSE /\ a + n <= HpCells
          /\ HpPlaced(n, j, [c \in HpAddrs |-> LET from == c - (hpNext + j + 2) + a
                                               IN IF from \in HpAddrs
                                                  THEN hpMem[from] ELSE "none"])
          /\ hpAllocs' = HpFreed(HpListed(n, j), a)

\* The driver's own writes: what is read is read before anything is written.
HpWrite(dst, n, value) ==
  /\ hpMoves < HpMaxMoves /\ hpMoves' = hpMoves + 1
  /\ HpSpan(dst, n) \subseteq HpAddrs
  /\ hpMem' = [c \in HpAddrs |-> IF c \in HpSpan(dst, n) THEN value[c - dst] ELSE hpMem[c]]
  /\ hpForeign' = hpForeign \cup HpSpan(dst, n)
  /\ UNCHANGED <<hpNext, hpAllocs, hpMode, hpUser, hpCode>>

RtlFillMemory(dst, n, value) == HpWrite(dst, n, [i \in 0..(n - 1) |-> value])

RtlMoveMemory(dst, src, n) ==
  /\ HpSpan(src, n) \subseteq HpAddrs
  /\ HpWrite(dst, n, [i \in 0..(n - 1) |-> hpMem[src + i]])

\* Both directions copy the same way; an address is not tested.
HpUserCopy(to, from, n) == ~hpNt /\ RtlMoveMemory(to, from, n)

\* Without allocation the result is written over the source, twice as long.
RtlAnsiStringToUnicodeString(src, n) == hpNt /\ HpWrite(src, 2 * n, [i \in 0..(2 * n - 1) |-> "data"])

HpStep ==
  \/ \E n \in HpSizes, j \in HpJitters :
       \/ allocPool(n, j) \/ ExAllocatePool2(n, j) \/ kzalloc(n, j)
       \/ \E i \in DOMAIN hpAllocs : krealloc(hpAllocs[i].addr, n, j)
  \/ \E b \in HpFixed : registerPoolBlock(b[1], b[2])
  \/ \E n \in HpSizes : allocUser(n)
  \/ \E i \in DOMAIN hpAllocs :
       LET b == hpAllocs[i] IN
       \/ freePool(b.addr)
       \/ \E n \in 1..(b.size + 2) : RtlFillMemory(b.addr, n, "data")
       \/ \E k \in DOMAIN hpAllocs, n \in 1..(b.size + 2) :
            RtlMoveMemory(b.addr, hpAllocs[k].addr, n) \/ HpUserCopy(b.addr, hpAllocs[k].addr, n)
       \/ b.size > 0 /\ RtlAnsiStringToUnicodeString(b.addr, b.size)

HpSpec == HpInit /\ [][HpStep]_hpVars

-----------------------------------------------------------------------------
HpTypeOK ==
  /\ hpMem \in [HpAddrs -> {"none", "magic", "guard", "zero", "data"}]
  /\ hpNext \in Int /\ HpAllocated <= HpMaxAllocs
  /\ hpForeign \subseteq HpAddrs /\ hpCode \in {"none", "BAD_POOL_CALLER"}
  /\ hpStrict => hpNt

(* The guards tell on the driver, and on nobody else: whatever was allocated,    *)
(* cleared, reallocated and freed before, a block that is reported is one the    *)
(* driver's own writes went past the end of, and a block with a guard the driver *)
(* wrote other bytes over is reported until it is freed.  Allocation, clearing   *)
(* and reallocation never touch another block: that holds for sizes below HpHalf.*)
HpGuardsTell ==
  (\A n \in HpSizes : n + 1 < HpHalf) =>
    /\ verifyGuards = {i \in DOMAIN hpAllocs :
          /\ ~hpAllocs[i].freed
          /\ \E c \in HpGuard(hpAllocs[i]) : c \in hpForeign /\ hpMem[c] # "guard"}
    /\ \A i, k \in DOMAIN hpAllocs :
         HpExtent(hpAllocs[i]) \cap HpExtent(hpAllocs[k]) # {} =>
           i = k \/ hpAllocs[i].addr = hpAllocs[k].addr
=============================================================================

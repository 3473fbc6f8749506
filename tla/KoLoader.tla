-------------------------------- MODULE KoLoader --------------------------------
(***************************************************************************)
(* Loading a relocatable kernel module: parseElfKo, validateKo, mapModule and *)
(* applyRelocs of packages/linux-sim/src/module-loader.mjs.                    *)
(*                                                                         *)
(* Addresses count words of 8 bytes, a relocation patches one word, and a       *)
(* section is [alloc, bits, addr, size, align, text]: bits is FALSE for .bss.   *)
(***************************************************************************)
EXTENDS Integers, Sequences, FiniteSets

CONSTANTS
  KoSectionLists,  \* the section tables a file may have
  KoFaults,        \* what a header can be refused for
  KoTypes,         \* relocation types: "64", "PC32", "32", "NONE" and others
  KoExternals,     \* names the kernel resolves
  KoMissing,       \* names it does not
  KoBase,          \* where modules are loaded, a multiple of 16 bytes
  KoKernel,        \* the distance of the kernel's exports from there
  KoRange,         \* what a 32-bit field distinguishes
  KoMaxRelocs      \* bound on the relocations of a file

KoSection == [alloc : BOOLEAN, bits : BOOLEAN, addr : Nat, size : Nat, align : Nat, text : BOOLEAN]

\* The sections of a linked file, all of which have addresses, lie apart.
KoLinkedApart(sections) ==
  LET loaded == { i \in DOMAIN sections : sections[i].alloc }
      extent(i) == sections[i].addr..(sections[i].addr + sections[i].size - 1) IN
  (\A i \in loaded : sections[i].addr # 0) =>
    \A i, j \in loaded : i # j => extent(i) \cap extent(j) = {}

ASSUME KoAssumption ==
  /\ KoBase \in Nat /\ KoBase % 2 = 0 /\ KoKernel \in Nat /\ KoRange \in Nat \ {0}
  /\ KoMaxRelocs \in Nat /\ KoExternals \cap KoMissing = {}
  /\ KoSectionLists \subseteq Seq(KoSection)
  /\ \A sections \in KoSectionLists : KoLinkedApart(sections)

VARIABLES
  koPhase,     \* "new", "place", "relocate", "done", "refused"
  koFile,      \* [fault, sections, relocs]
  koAt,        \* the next section, then the next relocation
  koCur,       \* the end of what is placed, rounded
  koAddrs,     \* sectionAddrs, a function on the sections placed
  koMem,       \* the words written, a function on addresses
  koUsed,      \* an earlier module was loaded at the same base
  koApplied, koUnresolved

koVars == <<koPhase, koFile, koAt, koCur, koAddrs, koMem, koUsed, koApplied, koUnresolved>>

-----------------------------------------------------------------------------
KoUp(v, a) == ((v + a - 1) \div a) * a

\* A symbol: a name of the kernel, an absolute value or a word of a section.
KoSymbols(sections) ==
  { [kind |-> "undef", name |-> n] : n \in KoExternals \cup KoMissing }
    \cup { [kind |-> "abs", value |-> 1] }
    \cup UNION { { [kind |-> "section", shndx |-> s, value |-> v] : v \in 0..(sections[s].size - 1) } :
                 s \in DOMAIN sections }

KoRelocs(sections) ==
  { r \in [sec : DOMAIN sections, off : 0..1, sym : KoSymbols(sections), type : KoTypes,
           addend : {0}] : r.off < sections[r.sec].size }
    \cup { [sec |-> s, off |-> 0, sym |-> [kind |-> "abs", value |-> 1], type |-> "64",
            addend |-> 1] : s \in { t \in DOMAIN sections : sections[t].size > 0 } }

\* The relocations of a file patch words of their own.
KoLists(sections) ==
  { l \in UNION { [1..n -> KoRelocs(sections)] : n \in 0..KoMaxRelocs } :
      \A i, j \in DOMAIN l : i # j => <<l[i].sec, l[i].off>> # <<l[j].sec, l[j].off>> }

KoInit ==
  /\ \E sections \in KoSectionLists, fault \in KoFaults \cup {"none"} :
       \E relocs \in IF fault = "none" THEN KoLists(sections) ELSE {<<>>} :
         koFile = [fault |-> fault, sections |-> sections, relocs |-> relocs]
  /\ koPhase = "new" /\ koAt = 1 /\ koCur = KoBase /\ koAddrs = <<>> /\ koMem = <<>>
  /\ koUsed \in BOOLEAN /\ koApplied = 0 /\ koUnresolved = <<>>

\* A file is refused for its header, or because no section of code has a size.
KoRefused ==
  \/ koFile.fault # "none"
  \/ \A i \in DOMAIN koFile.sections : ~(koFile.sections[i].text /\ koFile.sections[i].size > 0)

parseElfKo ==
  /\ koPhase = "new" /\ koPhase' = IF KoRefused THEN "refused" ELSE "place"
  /\ UNCHANGED <<koFile, koAt, koCur, koAddrs, koMem, koUsed, koApplied, koUnresolved>>

-----------------------------------------------------------------------------
\* Sections are laid out anew when any of them has no address.
KoNeedsLayout ==
  \E i \in DOMAIN koFile.sections : koFile.sections[i].alloc /\ koFile.sections[i].addr = 0

\* An alignment of 0 is taken for 16 bytes, and so is every end.
KoStart(s) ==
  IF KoNeedsLayout THEN KoUp(koCur, IF s.align = 0 THEN 2 ELSE s.align) ELSE KoBase + s.addr

\* Mutant: what the file has no bytes for takes no room.
KoEndOfBits(s, start) == KoUp(IF s.bits THEN start + s.size ELSE start, 2)

KoEnd(s, start) == KoUp(start + s.size, 2)

\* The bytes of a section are written.  A .bss only gets pages, which an earlier module
\* at the same base has left there with what it wrote.
KoLoaded(i, start) ==
  LET s == koFile.sections[i]
      words == start..(start + s.size - 1) IN
  [a \in DOMAIN koMem \cup words |->
     IF a \notin words THEN koMem[a]
     ELSE IF s.bits THEN <<"data", i, a - start>>
     ELSE IF a \in DOMAIN koMem THEN koMem[a]
     ELSE IF koUsed THEN <<"stale">> ELSE <<"zero">>]

KoPlace ==
  /\ koPhase = "place" /\ koAt <= Len(koFile.sections)
  /\ koAt' = koAt + 1
  /\ LET s == koFile.sections[koAt]
         start == KoStart(s) IN
     IF ~s.alloc THEN UNCHANGED <<koCur, koAddrs, koMem>>
     ELSE /\ koCur' = IF KoNeedsLayout THEN KoEnd(s, start) ELSE koCur
          /\ koAddrs' = [i \in DOMAIN koAddrs \cup {koAt} |->
                           IF i = koAt THEN start ELSE koAddrs[i]]
          /\ koMem' = KoLoaded(koAt, start)
  /\ UNCHANGED <<koPhase, koFile, koUsed, koApplied, koUnresolved>>

KoPlaced ==
  /\ koPhase = "place" /\ koAt > Len(koFile.sections) /\ koPhase' = "relocate" /\ koAt' = 1
  /\ UNCHANGED <<koFile, koCur, koAddrs, koMem, koUsed, koApplied, koUnresolved>>

-----------------------------------------------------------------------------
KoResolved(sym) ==
  CASE sym.kind = "undef" -> KoBase + KoKernel
    [] sym.kind = "abs" -> sym.value
    [] sym.kind = "section" ->
         (IF sym.shndx \in DOMAIN koAddrs THEN koAddrs[sym.shndx] ELSE KoBase) + sym.value

\* What is written at P: 64 bits, or the low 32, whether or not the value fits.
KoWord(r, P) ==
  LET value == KoResolved(r.sym) + r.addend IN
  CASE r.type = "64" -> <<"64", value>>
    [] r.type = "PC32" -> <<"32", (value - P) % KoRange>>
    [] r.type = "32" -> <<"32", value % KoRange>>

\* A relocation of a section that is not loaded is passed over, one of a name nobody
\* knows is listed, and another type is only reported.
applyRelocs ==
  /\ koPhase = "relocate" /\ koAt <= Len(koFile.relocs) /\ koAt' = koAt + 1
  /\ LET r == koFile.relocs[koAt] IN
     IF r.sec \notin DOMAIN koAddrs THEN UNCHANGED <<koMem, koApplied, koUnresolved>>
     ELSE IF r.sym.kind = "undef" /\ r.sym.name \notin KoExternals
     THEN koUnresolved' = Append(koUnresolved, r.sym.name) /\ UNCHANGED <<koMem, koApplied>>
     ELSE IF r.type \notin {"64", "PC32", "32"} THEN UNCHANGED <<koMem, koApplied, koUnresolved>>
     ELSE /\ koMem' = [koMem EXCEPT ![koAddrs[r.sec] + r.off] = KoWord(r, koAddrs[r.sec] + r.off)]
          /\ koApplied' = koApplied + 1 /\ UNCHANGED koUnresolved
  /\ UNCHANGED <<koPhase, koFile, koCur, koAddrs, koUsed>>

\* The entry and the exit routine are found where KoResolved has their symbols.
KoDone ==
  /\ koPhase = "relocate" /\ koAt > Len(koFile.relocs) /\ koPhase' = "done"
  /\ UNCHANGED <<koFile, koAt, koCur, koAddrs, koMem, koUsed, koApplied, koUnresolved>>

KoNext == parseElfKo \/ KoPlace \/ KoPlaced \/ applyRelocs \/ KoDone

KoSpec == KoInit /\ [][KoNext]_koVars

-----------------------------------------------------------------------------
KoTypeOK ==
  /\ koPhase \in {"new", "place", "relocate", "done", "refused"}
  /\ koFile.sections \in KoSectionLists /\ koCur >= KoBase
  /\ DOMAIN koAddrs \subseteq DOMAIN koFile.sections
  /\ \A a \in DOMAIN koMem : a >= KoBase
  /\ koApplied + Len(koUnresolved) <= Len(koFile.relocs)

KoPatched(s) ==
  { koFile.relocs[i].off : i \in { j \in DOMAIN koFile.relocs : koFile.relocs[j].sec = s } }

\* Where a patched word leads: what the processor makes of it.
KoLeadsTo(r, P) ==
  CASE r.type = "64" -> koMem[P][2] - r.addend
    [] r.type = "PC32" -> P + koMem[P][2] - r.addend

(* A loaded module is whole, wherever its sections say they belong: no section lies   *)
(* over another, every word no relocation patches is the one the file has there (in a  *)
(* .bss zero, where nothing was loaded before), and what a patched word leads to is     *)
(* the very word of the section its symbol names.                                       *)
KoImageWhole ==
  koPhase = "done" =>
    LET secs == koFile.sections IN
    /\ \A s, t \in DOMAIN koAddrs : s # t =>
         (koAddrs[s]..(koAddrs[s] + secs[s].size - 1))
           \cap (koAddrs[t]..(koAddrs[t] + secs[t].size - 1)) = {}
    /\ \A s \in DOMAIN koAddrs : \A k \in (0..(secs[s].size - 1)) \ KoPatched(s) :
         LET word == koMem[koAddrs[s] + k] IN
         IF secs[s].bits THEN word = <<"data", s, k>> ELSE koUsed \/ word = <<"zero">>
    /\ \A i \in DOMAIN koFile.relocs :
         LET r == koFile.relocs[i] IN
         (r.sec \in DOMAIN koAddrs /\ r.sym.kind = "section" /\ r.type \in {"64", "PC32"}) =>
           (r.sym.shndx \in DOMAIN koAddrs =>
             LET P == koAddrs[r.sec] + r.off IN
             IF r.type = "PC32"
             THEN (KoLeadsTo(r, P) - (koAddrs[r.sym.shndx] + r.sym.value)) % KoRange = 0
             ELSE KoLeadsTo(r, P) = koAddrs[r.sym.shndx] + r.sym.value)
=============================================================================

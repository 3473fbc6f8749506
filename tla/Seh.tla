----------------------------------- MODULE Seh -----------------------------------
(***************************************************************************)
(* Exceptions of mapped drivers (packages/ntsim/src/seh.mjs): the function  *)
(* table, the unwinding of frames and the search for a handler, beside the  *)
(* calls that build the stack it unwinds.                                   *)
(*                                                                         *)
(* The stack is a row of cells, the newest last; rsp is how many there are. *)
(* One callee-saved register, rbp, stands for all of them.                  *)
(***************************************************************************)
EXTENDS Integers, SequencesExt

CONSTANTS
  SehImages,     \* function tables: sequences of functions, by address
  SehData,       \* an address of data
  SehMaxDepth,   \* bound: calls in progress
  SehMaxWalk     \* frames a search looks at, 16 in the code

\* What a compiler and a linker guarantee of a table: entries are apart, chained ones
\* listed and of one link; and a prologue that sets its frame register has pushed it
\* before, and only makes room after.
SehFramed(codes, k) ==
  /\ codes[k] = "fpreg"
  /\ \E p \in DOMAIN codes :
       /\ k < p /\ codes[p] = "push"
       /\ \A j \in DOMAIN codes \ {k} :
            (j < p => codes[j] = "alloc") /\ (p < j => codes[j] # "fpreg")
SehImage(image) ==
  \A n \in DOMAIN image :
    LET f == image[n]
    IN /\ f.begin \in Nat \ {0} /\ f.end \in Nat /\ f.begin < f.end
       /\ f.chain # 0 => f.chain \in DOMAIN image /\ image[f.chain].chain = 0 /\ f.listed
       /\ \A m \in DOMAIN image \ {n} :
            f.listed /\ image[m].listed => f.end <= image[m].begin \/ image[m].end <= f.begin
       /\ f.codes \in Seq({"push", "alloc", "fpreg"})
       /\ "fpreg" \in ToSet(f.codes) => \E k \in DOMAIN f.codes : SehFramed(f.codes, k)

ASSUME SehAssumption ==
  /\ SehMaxDepth \in Nat \ {0} /\ SehMaxWalk \in Nat \ {0}
  /\ SehData \in Int
  /\ \A image \in SehImages : 0 \notin DOMAIN image /\ SehImage(image)

VARIABLES
  sehImage,   \* the function table
  sehCalls,   \* calls in progress, innermost last: function, rip, prologue done
  sehCells,   \* the stack
  sehRbp,     \* rbp
  sehFault,   \* "none", or the kind of the fault: "opcode", "page"
  sehCtx,     \* the context the search is at
  sehWalked,  \* frames it has left
  sehAsked,   \* verdicts of the filters it called, with the frame
  sehOutcome  \* "none", or how the dispatch ended

sehVars == <<sehImage, sehCalls, sehCells, sehRbp, sehFault, sehCtx, sehWalked, sehAsked,
             sehOutcome>>

-----------------------------------------------------------------------------
(* A function: [begin, end), the function it is chained to (0 for none), its *)
(* prologue as unwind codes in the order they are undone, its scopes, and    *)
(* whether the table has it at all (a leaf function is not in it).          *)

SehMarker == -1      \* the address callFunction returns to
SehNothing == 0

SehNoCtx == [rip |-> SehNothing, rsp |-> 0, rbp |-> 0]
SehTop == sehCalls[Len(sehCalls)]

\* lookupRuntimeFunction, on a table that is sorted and disjoint.
SehLookup(rip) ==
  {n \in DOMAIN sehImage : sehImage[n].listed /\ rip \in sehImage[n].begin..sehImage[n].end - 1}

\* resolveUnwindInfo: the codes and scopes are the last link's alone.
SehResolve(n) == IF sehImage[n].chain = 0 THEN sehImage[n] ELSE sehImage[sehImage[n].chain]

\* Mutant: the codes are undone in the order the prologue did them.
SehCodesForward(ui) == Reverse(ui.codes)

\* The codes as the table has them, the last of the prologue first.
SehCodes(ui) == ui.codes

SehCell(rsp) == IF rsp \in 1..Len(sehCells) THEN sehCells[rsp] ELSE SehNothing

\* One code undone.
SehUndo(regs, code) ==
  CASE code = "push" -> [rsp |-> regs.rsp - 1, rbp |-> SehCell(regs.rsp)]
    [] code = "alloc" -> [regs EXCEPT !.rsp = @ - 1]
    [] code = "fpreg" -> [regs EXCEPT !.rsp = regs.rbp]

\* unwindFrame: every code, wherever in the function rip is, and the return address.
SehUnwind(ctx, ui) ==
  LET codes == SehCodes(ui)
      undone[k \in 0..Len(codes)] ==
        IF k = 0 THEN [rsp |-> ctx.rsp, rbp |-> ctx.rbp] ELSE SehUndo(undone[k - 1], codes[k])
      regs == undone[Len(codes)]
  IN [rip |-> SehCell(regs.rsp), rsp |-> regs.rsp - 1, rbp |-> regs.rbp]

-----------------------------------------------------------------------------
(* The driver runs.                                                         *)

SehRunning == sehFault = "none"

SehInit ==
  /\ sehImage \in SehImages
  /\ \E n \in DOMAIN sehImage :
       /\ sehImage[n].chain = 0
       /\ sehCalls = <<[fn |-> n, rip |-> sehImage[n].begin, done |-> 0]>>
  /\ sehCells = <<SehMarker>> /\ sehRbp = 0
  /\ sehFault = "none" /\ sehCtx = SehNoCtx /\ sehWalked = 0 /\ sehAsked = <<>>
  /\ sehOutcome = "none"

SehPrologueLeft == Len(sehImage[SehTop.fn].codes) - SehTop.done

\* The next instruction of the prologue.
SehPrologue ==
  /\ SehRunning /\ SehPrologueLeft > 0
  /\ LET code == sehImage[SehTop.fn].codes[SehPrologueLeft]
     IN /\ sehCells' = CASE code = "push" -> Append(sehCells, sehRbp)
                         [] code = "alloc" -> Append(sehCells, SehNothing)
                         [] code = "fpreg" -> sehCells
        /\ sehRbp' = IF code = "fpreg" THEN Len(sehCells) ELSE sehRbp
  /\ sehCalls' = [sehCalls EXCEPT ![Len(sehCalls)].done = @ + 1]
  /\ UNCHANGED <<sehImage, sehFault, sehCtx, sehWalked, sehAsked, sehOutcome>>

\* Somewhere else in the body, chained parts included.  A function with a frame
\* register may have moved rsp by then.
SehBody(n) ==
  UNION {sehImage[m].begin..sehImage[m].end - 1 :
           m \in {k \in DOMAIN sehImage : k = n \/ sehImage[k].chain = n}}

SehMove ==
  /\ SehRunning /\ SehPrologueLeft = 0
  /\ \E rip \in SehBody(SehTop.fn) :
       sehCalls' = [sehCalls EXCEPT ![Len(sehCalls)].rip = rip]
  /\ \E more \in IF "fpreg" \in ToSet(sehImage[SehTop.fn].codes) /\ Last(sehCells) # SehData
                 THEN {<<>>, <<SehData>>} ELSE {<<>>} :
       sehCells' = sehCells \o more
  /\ UNCHANGED <<sehImage, sehRbp, sehFault, sehCtx, sehWalked, sehAsked, sehOutcome>>

\* A call; what it returns to lies in the same scopes.
SehCall(n) ==
  /\ SehRunning /\ SehPrologueLeft = 0 /\ Len(sehCalls) < SehMaxDepth
  /\ sehImage[n].chain = 0
  /\ sehCells' = Append(sehCells, SehTop.rip)
  /\ sehCalls' = Append(sehCalls, [fn |-> n, rip |-> sehImage[n].begin, done |-> 0])
  /\ UNCHANGED <<sehImage, sehRbp, sehFault, sehCtx, sehWalked, sehAsked, sehOutcome>>

\* A fault.  The error names an instruction, but a page fault names the address
\* that was accessed, and that is what the search starts from.
SehRaise(kind) ==
  /\ SehRunning
  /\ sehFault' = kind
  /\ sehCtx' = [rip |-> IF kind = "page" THEN SehData ELSE SehTop.rip,
                rsp |-> Len(sehCells), rbp |-> sehRbp]
  /\ UNCHANGED <<sehImage, sehCalls, sehCells, sehRbp, sehWalked, sehAsked, sehOutcome>>

-----------------------------------------------------------------------------
(* tryDispatchException, one frame at a time.                               *)

SehVerdicts == {"search", "execute", "resume", "other", "fault"}

SehSearching == sehFault # "none" /\ sehOutcome = "none"

SehEnd(outcome) ==
  /\ sehOutcome' = outcome
  /\ UNCHANGED <<sehCtx, sehWalked>>

\* The caller's frame, or the end of the walk.
SehOn(ui) ==
  LET next == SehUnwind(sehCtx, ui)
  IN IF next.rip = SehNothing \/ next.rsp >= sehCtx.rsp THEN SehEnd("unhandled")
     ELSE /\ sehCtx' = next
          /\ sehWalked' = sehWalked + 1
          /\ UNCHANGED sehOutcome

SehScopesAt(ui, rip) == {k \in DOMAIN ui.scopes : rip \in ui.scopes[k].range}

\* No entry for the address, or too many frames.
SehGiveUp ==
  /\ SehSearching
  /\ SehLookup(sehCtx.rip) = {} \/ sehWalked = SehMaxWalk
  /\ SehEnd("unhandled")
  /\ UNCHANGED <<sehImage, sehCalls, sehCells, sehRbp, sehFault, sehAsked>>

SehWalk ==
  /\ SehSearching /\ sehWalked < SehMaxWalk
  /\ \E n \in SehLookup(sehCtx.rip) :
       LET ui == SehResolve(n)
       IN /\ SehScopesAt(ui, sehCtx.rip) = {}
          /\ SehOn(ui)
  /\ UNCHANGED <<sehImage, sehCalls, sehCells, sehRbp, sehFault, sehAsked>>

\* The first scope around the address: a __finally is run and ends the search; a
\* filter is asked; a filter that is always true is not.  A filter that declines has
\* the search go on in the caller, and one that faults counts as one that accepts.
SehConsult ==
  /\ SehSearching /\ sehWalked < SehMaxWalk
  /\ \E n \in SehLookup(sehCtx.rip) :
       LET ui == SehResolve(n)
           at == SehScopesAt(ui, sehCtx.rip)
           scope == ui.scopes[CHOOSE k \in at : \A j \in at : k <= j]
       IN /\ at # {}
          /\ \E v \in IF scope.kind = "filter" THEN SehVerdicts ELSE {"execute"} :
               /\ sehAsked' = Append(sehAsked, [frame |-> sehWalked, verdict |-> v])
               /\ CASE scope.kind = "finally" -> SehEnd("finally")
                    [] scope.kind # "finally" /\ v = "search" -> SehOn(ui)
                    [] scope.kind # "finally" /\ v = "resume" -> SehEnd("resumed")
                    [] scope.kind # "finally" /\ v = "other" -> SehEnd("unhandled")
                    [] scope.kind # "finally" /\ v \in {"execute", "fault"} ->
                         \E returns \in BOOLEAN :
                           SehEnd(IF returns THEN "handled" ELSE "unhandled")
  /\ UNCHANGED <<sehImage, sehCalls, sehCells, sehRbp, sehFault>>

SehNext ==
  \/ SehPrologue \/ SehMove \/ \E n \in DOMAIN sehImage : SehCall(n)
  \/ \E kind \in {"opcode", "page"} : SehRaise(kind)
  \/ SehGiveUp \/ SehWalk \/ SehConsult

SehSpec == SehInit /\ [][SehNext]_sehVars

-----------------------------------------------------------------------------
SehTypeOK ==
  /\ sehImage \in SehImages
  /\ sehCalls \in Seq([fn : DOMAIN sehImage, rip : Nat, done : Nat])
  /\ Len(sehCalls) \in 1..SehMaxDepth
  /\ sehCells \in Seq(Int) /\ sehRbp \in Nat /\ sehFault \in {"none", "opcode", "page"}
  /\ sehCtx \in [rip : Int, rsp : Nat, rbp : Int] /\ sehWalked \in 0..SehMaxWalk
  /\ sehAsked \in Seq([frame : Nat, verdict : SehVerdicts])
  /\ sehOutcome \in {"none", "handled", "resumed", "finally", "unhandled"}

\* The function of frame k, counted from the fault, and where it is.
SehFrame(k) == sehCalls[Len(sehCalls) - k]
SehFrameListed(k) == sehImage[SehFrame(k).fn].listed

\* Frames the walk can get past: all but a leaf, and but a prologue cut short.
SehSound(k) ==
  /\ \A j \in 0..k : SehFrameListed(j)
  /\ SehPrologueLeft = 0

\* The search follows the calls: the k-th frame it looks at is the k-th call from
\* the fault, at the place that call has got to, so that scopes are those of the
\* driver's own __try blocks, innermost call first and none skipped; and it ends
\* unhandled only behind the last call, at its limit, or as a filter or handler had it.
SehSearchFollowsCalls ==
  sehFault = "opcode" =>
    /\ sehWalked < Len(sehCalls) /\ SehSound(sehWalked) => sehCtx.rip = SehFrame(sehWalked).rip
    /\ sehWalked = Len(sehCalls) /\ SehSound(sehWalked - 1) => sehCtx.rip = SehMarker
    /\ \A j \in DOMAIN sehAsked : \A k \in 1..j - 1 : sehAsked[k].frame < sehAsked[j].frame
    /\ sehOutcome = "unhandled" /\ SehSound(Len(sehCalls) - 1) =>
         \/ sehWalked \in {Len(sehCalls), SehMaxWalk}
         \/ sehAsked # <<>> /\ Last(sehAsked).verdict \in {"other", "execute", "fault"}

===============================================================================

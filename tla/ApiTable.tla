-------------------------------- MODULE ApiTable --------------------------------
(***************************************************************************)
(* The exported API surface of the simulated kernel: the thunks, what serves   *)
(* them and what the reports say of it, their detours and the service table,    *)
(* and the code hook that serves a call                                        *)
(* (packages/ntsim/src/kernel.mjs, ssdt.mjs, MmGetSystemRoutineAddress).        *)
(*                                                                         *)
(* The implementation of an API is host code and may call the guest, which may *)
(* call an API again.  The stack pointer counts slots below the top.            *)
(***************************************************************************)
EXTENDS Naturals, Sequences, FiniteSets

CONSTANTS
  AtModeled,    \* exports with an implementation of their own
  AtShallowSet, \* SHALLOW_EXPORTS
  AtUnknown,    \* other names with a signature in API_META
  AtData,       \* data exports MmGetSystemRoutineAddress knows as such
  AtVoid,       \* names of type void
  AtTargets,    \* where a detour may lead
  AtNear,       \* those a 32-bit displacement reaches
  AtLimit,      \* apiTraceLimit
  AtTableLimit, \* the limit of the service table
  AtMaxDepth, AtMaxRsp  \* bounds: calls in each other, slots in use

AtNames == AtModeled \cup AtShallowSet \cup AtUnknown
AtExports == AtNames \cup AtData

ASSUME AtAssumption ==
  /\ AtNear \subseteq AtTargets /\ AtNames \cap AtData = {} /\ AtVoid \subseteq AtNames
  /\ "hlt" \notin AtTargets  \* a target is an address
  /\ AtModeled \cap AtShallowSet = {} /\ AtModeled \cap AtUnknown = {}
  /\ AtShallowSet \cap AtUnknown = {}
  /\ {AtLimit, AtTableLimit, AtMaxDepth, AtMaxRsp} \subseteq Nat

VARIABLES
  atImpl,      \* what serves each name with a thunk: "model", "shallow", "stub", "default"
  atSlots,     \* dataExports
  atShallow,   \* shallowStubs
  atUnmodeled, \* unmodeledExports
  atBytes,     \* the prologue of each thunk: "hlt", or where the E9 there decodes to
  atServices,  \* the entries of the service table
  atDetours,   \* ghost: the detours installed and not repaired, name -> target
  atCalls,     \* calls in progress, innermost last
  atRsp, atRax, \* the registers
  atAt,        \* "host": the implementation runs, or the host itself; "guest": the guest does
  atTrace,     \* apiTrace
  atEnded      \* ghost: the calls that ended, in order, with what the guest saw

atTableVars == <<atImpl, atSlots, atShallow, atUnmodeled, atBytes, atServices, atDetours>>
atCallVars == <<atCalls, atRsp, atRax, atAt, atTrace, atEnded>>
atVars == <<atTableVars, atCallVars>>

-----------------------------------------------------------------------------
AtInit ==
  /\ atImpl = [n \in AtModeled |-> "model"] /\ atBytes = [n \in AtModeled |-> "hlt"]
  /\ atSlots = {} /\ atShallow = <<>> /\ atUnmodeled = <<>> /\ atServices = <<>>
  /\ atDetours = <<>> /\ atCalls = <<>> /\ atRsp = 0 /\ atRax = "own" /\ atAt = "host"
  /\ atTrace = <<>> /\ atEnded = <<>>

AtWith(f, n, v) == [x \in DOMAIN f \cup {n} |-> IF x = n THEN v ELSE f[x]]

\* A name served already keeps its thunk and its prologue.
AtDefined(n, impl) ==
  /\ atImpl' = AtWith(atImpl, n, impl)
  /\ atBytes' = IF n \in DOMAIN atBytes THEN atBytes ELSE AtWith(atBytes, n, "hlt")

\* Mutant: without the early return a name is provisioned, and listed, again.
AtProvisionAgain(n) ==
  atUnmodeled' = Append(atUnmodeled, n) /\ AtDefined(n, "stub") /\ UNCHANGED atShallow

provisionUnknownApi(n) ==
  IF n \in DOMAIN atImpl THEN UNCHANGED <<atImpl, atBytes, atShallow, atUnmodeled>>
  ELSE atUnmodeled' = Append(atUnmodeled, n) /\ AtDefined(n, "stub") /\ UNCHANGED atShallow

AtResolveImport(n) ==
  IF n \in DOMAIN atImpl THEN UNCHANGED <<atImpl, atBytes, atShallow, atUnmodeled, atSlots>>
  ELSE IF n \in AtData
  THEN atSlots' = atSlots \cup {n} /\ UNCHANGED <<atImpl, atBytes, atShallow, atUnmodeled>>
  ELSE IF n \in AtShallowSet
  THEN /\ atShallow' = Append(atShallow, n) /\ AtDefined(n, "shallow")
       /\ UNCHANGED <<atUnmodeled, atSlots>>
  ELSE provisionUnknownApi(n) /\ UNCHANGED atSlots

\* The implementation of a call in progress runs, or, without one, the host itself.
AtHostTurn == atAt = "host"

AtImport(n) ==
  /\ atCalls = <<>> /\ AtHostTurn /\ AtResolveImport(n)
  /\ UNCHANGED <<atServices, atDetours, atCallVars>>

\* An API a driver calls.  A shallow export looked up here is a stub, and listed as one.
MmGetSystemRoutineAddress(n) ==
  /\ AtHostTurn
  /\ IF n \in AtData THEN AtResolveImport(n)
     ELSE provisionUnknownApi(n) /\ UNCHANGED atSlots
  /\ UNCHANGED <<atServices, atDetours, atCallVars>>

\* defineApi for a name the reports already call shallow or a stub.
AtModel(n) ==
  /\ atCalls = <<>> /\ AtHostTurn /\ AtDefined(n, "model")
  /\ UNCHANGED <<atSlots, atShallow, atUnmodeled, atServices, atDetours, atCallVars>>

-----------------------------------------------------------------------------
\* The displacement is cut to 32 bits: farther targets decode to another address.
installDetour(n, target) ==
  /\ atCalls = <<>> /\ AtHostTurn /\ n \in DOMAIN atImpl
  /\ atBytes' = [atBytes EXCEPT ![n] = IF target \in AtNear THEN target ELSE "elsewhere"]
  /\ atDetours' = AtWith(atDetours, n, target)
  /\ UNCHANGED <<atImpl, atSlots, atShallow, atUnmodeled, atServices, atCallVars>>

isDetoured(n) == atBytes[n] # "hlt"

\* Idempotent for the export, not for the table.  A name without a thunk gets the
\* implementation that is passed, or a default that returns 0.
AtAddService(n, impl) ==
  /\ atCalls = <<>> /\ AtHostTurn /\ Len(atServices) < AtTableLimit
  /\ IF n \in DOMAIN atImpl THEN UNCHANGED <<atImpl, atBytes>> ELSE AtDefined(n, impl)
  /\ atServices' = Append(atServices, n)
  /\ UNCHANGED <<atSlots, atShallow, atUnmodeled, atDetours, atCallVars>>

AtServed == { atServices[i] : i \in DOMAIN atServices }
AtHooked == { i \in DOMAIN atServices : isDetoured(atServices[i]) }

scanHooks ==
  { [index |-> i, name |-> atServices[i], target |-> atBytes[atServices[i]]] : i \in AtHooked }

\* Without an index every service that is hooked gets its pristine prologue back.
AtRepair(names) ==
  /\ atCalls = <<>> /\ AtHostTurn
  /\ atBytes' = [n \in DOMAIN atBytes |-> IF n \in names THEN "hlt" ELSE atBytes[n]]
  /\ atDetours' = [n \in DOMAIN atDetours \ names |-> atDetours[n]]
  /\ UNCHANGED <<atImpl, atSlots, atShallow, atUnmodeled, atServices, atCallVars>>

-----------------------------------------------------------------------------
(* Calls.                                                                   *)

\* callFunction: the stack is aligned and moved, and not moved back afterwards.
AtCallGuest ==
  /\ AtHostTurn /\ Len(atCalls) < AtMaxDepth /\ atAt' = "guest" /\ atRsp' = atRsp + 1
  /\ atRsp < AtMaxRsp /\ UNCHANGED <<atCalls, atRax, atTrace, atEnded, atTableVars>>

\* Guest code uses RAX and leaves, to the host that called it: it returns, or ends on a
\* fault with a status.
AtGuestReturns ==
  /\ atAt = "guest" /\ atAt' = "host" /\ atRax' \in {"guest", atRax}
  /\ UNCHANGED <<atCalls, atRsp, atTrace, atEnded, atTableVars>>

\* The hook takes the return address, RSP and RAX before the implementation runs.  A
\* detour on the thunk is never run.
AtCall(n) ==
  /\ atAt = "guest" /\ n \in DOMAIN atImpl /\ Len(atCalls) < AtMaxDepth /\ atRsp < AtMaxRsp
  /\ atCalls' = Append(atCalls, [name |-> n, rsp |-> atRsp + 1, rax |-> atRax])
  /\ atRsp' = atRsp + 1 /\ atAt' = "host" /\ UNCHANGED <<atRax, atTrace, atEnded, atTableVars>>

AtTop == atCalls[Len(atCalls)]
AtPopped == SubSeq(atCalls, 1, Len(atCalls) - 1)

AtPoppedRsp == AtTop.rsp - 1

\* Whatever ran meanwhile, the caller finds its stack, and its RAX if the API is void.
AtEnd(result) ==
  /\ AtHostTurn /\ atCalls # <<>> /\ atCalls' = AtPopped /\ atAt' = "guest"
  /\ atRsp' = AtPoppedRsp
  /\ atRax' = IF AtTop.name \in AtVoid THEN AtTop.rax ELSE result
  /\ atTrace' = IF Len(atTrace) < AtLimit
                THEN Append(atTrace, [name |-> AtTop.name,
                                      ret |-> IF AtTop.name \in AtVoid THEN "none" ELSE result])
                ELSE atTrace
  /\ atEnded' = IF Len(atEnded) <= AtLimit
                THEN Append(atEnded, [name |-> AtTop.name, result |-> result, before |-> AtTop.rax,
                                      after |-> atRax', moved |-> AtTop.rsp - atRsp'])
                ELSE atEnded
  /\ UNCHANGED atTableVars

\* An implementation that throws.  A CpuError, as of an access to memory, ends the run that
\* made the call: the host code around it gets a fault status, and goes on.  Another error
\* goes on to the host code that catches it, n calls further out or all of them.
AtThrows(n) ==
  /\ AtHostTurn /\ n \in DOMAIN atCalls /\ atCalls' = SubSeq(atCalls, 1, n - 1)
  /\ UNCHANGED <<atAt, atRsp, atRax, atTrace, atEnded, atTableVars>>

AtTableStep ==
  \/ \E n \in AtShallowSet \cup AtUnknown \cup AtData :
       AtImport(n) \/ MmGetSystemRoutineAddress(n)
  \/ \E n \in DOMAIN atImpl : AtModel(n)
  \/ \E n \in AtExports, impl \in {"model", "default"} : AtAddService(n, impl)
  \/ \E n \in DOMAIN atImpl, target \in AtTargets : installDetour(n, target)
  \/ \E n \in AtServed : AtRepair({n})
  \/ AtRepair(AtServed)

AtCallStep ==
  \/ AtCallGuest \/ AtGuestReturns
  \/ \E n \in DOMAIN atCalls : AtThrows(n)
  \/ \E n \in DOMAIN atImpl : AtCall(n)
  \/ \E result \in {"ok", "failed"} : AtEnd(result)

AtNext == AtTableStep \/ AtCallStep

AtSpec == AtInit /\ [][AtNext]_atVars

-----------------------------------------------------------------------------
AtTypeOK ==
  /\ DOMAIN atImpl \subseteq AtExports /\ DOMAIN atBytes = DOMAIN atImpl /\ atSlots \subseteq AtData
  /\ atAt \in {"host", "guest"} /\ atRsp \in 0..AtMaxRsp /\ Len(atCalls) <= AtMaxDepth
  /\ Len(atServices) <= AtTableLimit

AtCount(list, n) == Cardinality({ i \in DOMAIN list : list[i] = n })

\* What is not a model of its own is listed for what it is, once, but for what a service
\* table defined by default: that is in no list, whatever looks it up afterwards.
AtListsHonest ==
  \A n \in DOMAIN atImpl :
    /\ AtCount(atUnmodeled, n) + AtCount(atShallow, n) <= 1
    /\ atImpl[n] = "stub" => AtCount(atUnmodeled, n) = 1
    /\ atImpl[n] = "shallow" => AtCount(atShallow, n) = 1
    /\ atImpl[n] = "default" => AtCount(atUnmodeled, n) = 0 /\ AtCount(atShallow, n) = 0

\* The scan of the services tells the detours there are, and, where the displacement
\* reaches, where they lead; the same export may be there twice.
AtScanTells ==
  /\ { atServices[h.index] : h \in scanHooks } = AtServed \cap DOMAIN atDetours
  /\ \A h \in scanHooks : atDetours[h.name] \in AtNear => h.target = atDetours[h.name]

\* The return address of every call in progress is where its caller put it: nothing that ran
\* since, calls it ended, faulted or threw out of included, has come back above it.
AtFramesKept ==
  \A i \in DOMAIN atCalls :
    /\ atCalls[i].rsp <= atRsp
    /\ \A j \in DOMAIN atCalls : i < j => atCalls[i].rsp < atCalls[j].rsp

\* The trace has the calls in the order they ended, up to the limit; each popped one
\* slot, and none changed RAX but to what it returned.
AtCallsReturn ==
  /\ \A i \in DOMAIN atEnded :
       /\ atEnded[i].moved = 1
       /\ atEnded[i].after =
            IF atEnded[i].name \in AtVoid THEN atEnded[i].before ELSE atEnded[i].result
  /\ Len(atTrace) = IF Len(atEnded) < AtLimit THEN Len(atEnded) ELSE AtLimit
  /\ \A i \in DOMAIN atTrace :
       /\ atTrace[i].name = atEnded[i].name
       /\ atTrace[i].name \notin AtVoid => atTrace[i].ret = atEnded[i].result

(* What the reports tell of the API surface is so, through imports, look-ups at run    *)
(* time, service tables, detours, repairs and calls that call the guest in turn and     *)
(* fail at any depth.                                                                   *)
AtReportsTrue == AtListsHonest /\ AtScanTells /\ AtFramesKept /\ AtCallsReturn
=============================================================================

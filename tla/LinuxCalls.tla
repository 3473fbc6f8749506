------------------------------- MODULE LinuxCalls -------------------------------
(***************************************************************************)
(* Calls of module code by the simulated Linux kernel, and of the kernel by  *)
(* module code: callLinuxFunction, the code hook on the thunks and the table *)
(* of exports of packages/linux-sim/src/linux-kernel.mjs, on the             *)
(* interpreter, on Unicorn and on the hybrid of both.                         *)
(*                                                                         *)
(* The stack pointer is a number of 8-byte slots below the top of the stack. *)
(***************************************************************************)
EXTENDS Naturals, Sequences

CONSTANTS
  LcBudget,   \* steps of an engine, over all calls
  LcKnown,    \* exports with an implementation
  LcVoid,     \* those of type void
  LcUnknown,  \* other names module code imports or looks up
  LcMaxCalls, LcMaxDepth  \* bounds: calls, and slots the code called has in use

ASSUME LcAssumption ==
  /\ LcBudget \in Nat /\ LcMaxCalls \in Nat /\ LcMaxDepth \in Nat
  /\ LcVoid \subseteq LcKnown /\ LcKnown \cap LcUnknown = {}

VARIABLES
  lcKind,     \* the back end: "js", "uc" or "hybrid"
  lcActive,   \* the engine in use
  lcSteps,    \* steps of each engine so far
  lcLimit,    \* what the run in progress may bring lcSteps to
  lcHooks,    \* hooks on the return marker in each engine
  lcStopOn,   \* stopOnRip of the interpreter is the marker
  lcDebug,    \* lastDebugStop of the interpreter is set
  lcHalted,   \* the interpreter has met hlt
  lcFault,    \* fault of Unicorn is set
  lcRsp,      \* the stack pointer
  lcStack,    \* what the code called has on the stack, the marker below all
  lcStatus,   \* "idle", "running", or what the last call returned
  lcTable,    \* the names with a thunk
  lcListed,   \* unmodeledExports
  lcRax,      \* who set RAX last: "code", "api"
  lcCalls,
  lcTruth     \* ghost: how the last call ended: "returned" with steps to spare, "fault",
              \* "stop", "halt" or "budget"

lcFlags == <<lcDebug, lcHalted, lcFault>>
lcEngineVars == <<lcKind, lcActive, lcSteps, lcLimit, lcHooks, lcStopOn, lcFlags>>
lcTableVars == <<lcTable, lcListed>>
lcVars == <<lcEngineVars, lcTableVars, lcRsp, lcStack, lcStatus, lcRax, lcCalls, lcTruth>>

-----------------------------------------------------------------------------
LcEngines == {"js", "uc"}
LcSpent == lcSteps["js"] + lcSteps["uc"]

\* The steps the hybrid gives an engine are what is left of all steps.
LcAllowed(spent) == IF lcKind # "hybrid" THEN LcBudget
                    ELSE IF spent < LcBudget THEN LcBudget - spent ELSE 0

LcInit ==
  /\ lcKind \in {"js", "uc", "hybrid"} /\ lcActive = IF lcKind = "uc" THEN "uc" ELSE "js"
  /\ lcSteps = [e \in LcEngines |-> 0] /\ lcLimit = 0 /\ lcHooks = [e \in LcEngines |-> 0]
  /\ lcStopOn = FALSE /\ lcDebug = FALSE /\ lcHalted = FALSE /\ lcFault = FALSE
  /\ lcRsp = 1 /\ lcStack = <<>> /\ lcStatus = "idle" /\ lcTable = LcKnown /\ lcListed = {}
  /\ lcRax = "code" /\ lcCalls = 0 /\ lcTruth = "none"

\* The pointer is moved to a multiple of 16 below, and by another slot.
LcAligned(rsp) == rsp + (rsp % 2) + 1

callLinuxFunction ==
  /\ lcStatus # "running" /\ lcCalls < LcMaxCalls
  /\ lcCalls' = lcCalls + 1 /\ lcStatus' = "running" /\ lcTruth' = "none"
  /\ lcRsp' = LcAligned(lcRsp) + 1 /\ lcStack' = <<"marker">>
  /\ lcStopOn' = (lcKind = "js") /\ lcLimit' = LcAllowed(LcSpent)
  /\ lcHooks' = [e \in LcEngines |->
       lcHooks[e] + IF lcKind = "hybrid" \/ (lcKind = "uc" /\ e = "uc") THEN 1 ELSE 0]
  /\ UNCHANGED <<lcKind, lcActive, lcSteps, lcFlags, lcTableVars, lcRax>>

\* Mutant: a call that ends otherwise than by returning keeps its hooks.
LcEndLeaky(status, truth) ==
  /\ lcStatus' = status /\ lcTruth' = truth /\ lcStopOn' = FALSE
  /\ lcHooks' = IF status = "ok" THEN [e \in LcEngines |-> 0] ELSE lcHooks

\* Every way out of the call takes its hooks away.
LcEnd(status, truth) ==
  /\ lcStatus' = status /\ lcTruth' = truth /\ lcStopOn' = FALSE
  /\ lcHooks' = [e \in LcEngines |->
       IF lcHooks[e] > 0 /\ (lcKind = "hybrid" \/ lcKind = e) THEN lcHooks[e] - 1 ELSE lcHooks[e]]

\* No step is made by a halted interpreter, nor by Unicorn with a fault set.
LcCanStep ==
  /\ lcStatus = "running" /\ lcSteps[lcActive] < lcLimit
  /\ IF lcActive = "js" THEN ~lcHalted ELSE ~lcFault

\* The interpreter charges a step; Unicorn charges whole chunks when they end.
LcStepped ==
  \E n \in IF lcActive = "js" THEN {1} ELSE 0..(lcLimit - lcSteps["uc"]) :
    lcSteps' = [lcSteps EXCEPT ![lcActive] = @ + n]

\* An instruction of the code called, that pushes or leaves the stack alone.
LcInsn ==
  /\ LcCanStep /\ LcStepped /\ lcRax' = "code"
  /\ \/ UNCHANGED <<lcRsp, lcStack>>
     \/ /\ Len(lcStack) < LcMaxDepth
        /\ \E kind \in {"return", "data"} : lcStack' = Append(lcStack, kind)
        /\ lcRsp' = lcRsp + 1
  /\ UNCHANGED <<lcKind, lcActive, lcLimit, lcHooks, lcStopOn, lcFlags, lcTableVars, lcStatus,
                 lcCalls, lcTruth>>

\* A pop, or a return to the code itself.
LcPop ==
  /\ LcCanStep /\ LcStepped /\ Len(lcStack) > 1
  /\ lcStack' = SubSeq(lcStack, 1, Len(lcStack) - 1) /\ lcRsp' = lcRsp - 1
  /\ UNCHANGED <<lcKind, lcActive, lcLimit, lcHooks, lcStopOn, lcFlags, lcTableVars, lcStatus,
                 lcRax, lcCalls, lcTruth>>

LcToMarker == lcStack = <<"marker">> /\ lcStack' = <<>> /\ lcRsp' = lcRsp - 1

\* The return to the marker.  The budget is tested before the marker: the step that uses
\* it up is a timeout.  A hook on the marker, unlike stopOnRip, ends no run: it is met
\* over and over, until the budget is used up.
LcReturn ==
  /\ LcCanStep /\ LcToMarker
  /\ \/ /\ lcActive = "js" => lcSteps["js"] + 1 < lcLimit
        /\ lcSteps' = [lcSteps EXCEPT ![lcActive] = IF lcKind = "js" THEN @ + 1 ELSE lcLimit]
        /\ LcEnd("ok", "returned")
     \/ /\ lcActive = "js" => lcSteps["js"] + 1 = lcLimit
        /\ lcSteps' = [lcSteps EXCEPT ![lcActive] = lcLimit]
        /\ LcEnd("timeout", "budget")
  /\ UNCHANGED <<lcKind, lcActive, lcLimit, lcFlags, lcTableVars, lcRax, lcCalls>>

LcTakenUp ==
  /\ lcLimit' = LcAllowed(LcSpent + 1)
  /\ UNCHANGED <<lcStatus, lcTruth, lcStopOn, lcHooks>>

\* int3 on the interpreter: the run is taken up again, unless a debug stop is remembered,
\* be it of an earlier call.  Unicorn's run goes on by itself.
LcInt3 ==
  /\ LcCanStep /\ LcStepped /\ lcActive = "js"
  /\ IF lcDebug THEN LcEnd("debug-stop", "stop") /\ UNCHANGED lcLimit ELSE LcTakenUp
  /\ UNCHANGED <<lcKind, lcActive, lcFlags, lcTableVars, lcRsp, lcStack, lcRax, lcCalls>>

\* A debug exception nobody handles, after an instruction that may be the return to the
\* marker.  The hybrid has no lastDebugStop: it goes on, unless it is at the marker.
LcTrap ==
  /\ LcCanStep /\ LcStepped /\ lcActive = "js" /\ lcDebug' = (lcDebug \/ lcKind = "js")
  /\ \/ lcKind = "js" /\ LcEnd("debug-stop", "stop") /\ UNCHANGED lcLimit
        /\ (LcToMarker \/ UNCHANGED <<lcRsp, lcStack>>)
     \/ lcKind = "hybrid" /\ LcToMarker /\ LcEnd("ok", "returned") /\ UNCHANGED lcLimit
     \/ lcKind = "hybrid" /\ LcTakenUp /\ UNCHANGED <<lcRsp, lcStack>>
  /\ UNCHANGED <<lcKind, lcActive, lcHalted, lcFault, lcTableVars, lcRax, lcCalls>>

\* Unicorn does not forget it.
LcFaults ==
  /\ LcCanStep /\ LcStepped /\ LcEnd("fault", "fault") /\ lcFault' = (lcActive = "uc")
  /\ UNCHANGED <<lcKind, lcActive, lcLimit, lcDebug, lcHalted, lcTableVars, lcRsp, lcStack, lcRax,
                 lcCalls>>

\* A run with a fault set returns at once, and the call starts it again, for ever.
LcSpin ==
  /\ lcStatus = "running" /\ lcActive = "uc" /\ lcFault /\ lcSteps["uc"] < lcLimit
  /\ lcLimit' = LcAllowed(LcSpent)
  /\ UNCHANGED <<lcKind, lcActive, lcSteps, lcHooks, lcStopOn, lcFlags, lcTableVars, lcRsp, lcStack,
                 lcStatus, lcRax, lcCalls, lcTruth>>

\* hlt on the interpreter, now or in an earlier call.  Unicorn's halted is set by a hook
\* that this kernel never installs.
LcHalt ==
  /\ \/ LcCanStep /\ LcStepped /\ lcActive = "js"
     \/ lcStatus = "running" /\ lcHalted /\ UNCHANGED lcSteps
  /\ lcHalted' = TRUE /\ LcEnd("halted", "halt")
  /\ UNCHANGED <<lcKind, lcActive, lcLimit, lcDebug, lcFault, lcTableVars, lcRsp, lcStack, lcRax,
                 lcCalls>>

\* What the interpreter does not know the hybrid hands to Unicorn, for good.
LcHandoff ==
  /\ LcCanStep /\ LcStepped /\ lcKind = "hybrid" /\ lcActive = "js" /\ lcActive' = "uc"
  /\ lcFault' = FALSE /\ lcLimit' = LcAllowed(LcSpent + 1)
  /\ UNCHANGED <<lcKind, lcHooks, lcStopOn, lcDebug, lcHalted, lcTableVars, lcRsp, lcStack, lcStatus,
                 lcRax, lcCalls, lcTruth>>

LcTimeout ==
  /\ lcStatus = "running" /\ lcSteps[lcActive] >= lcLimit /\ ~lcHalted
  /\ LcEnd("timeout", "budget")
  /\ UNCHANGED <<lcKind, lcActive, lcSteps, lcLimit, lcFlags, lcTableVars, lcRsp, lcStack, lcRax,
                 lcCalls>>

-----------------------------------------------------------------------------
(* Exports.                                                                 *)

\* A call of a thunk, at its address or the alias: the hook runs what implements it and
\* pops the return address.  A routine that throws returns 0, a void one too.
LcApi(name, throws) ==
  /\ LcCanStep /\ LcStepped /\ name \in lcTable
  /\ lcRax' = IF name \in LcVoid /\ ~throws THEN lcRax ELSE "api"
  /\ UNCHANGED <<lcKind, lcActive, lcLimit, lcHooks, lcStopOn, lcFlags, lcTableVars, lcRsp,
                 lcStack, lcStatus, lcCalls, lcTruth>>

\* An import with no implementation gets one, and is listed.
resolveImportProvisioned(name) ==
  /\ lcStatus # "running" /\ name \notin lcTable
  /\ lcTable' = lcTable \cup {name} /\ lcListed' = lcListed \cup {name}
  /\ UNCHANGED <<lcEngineVars, lcRsp, lcStack, lcStatus, lcRax, lcCalls, lcTruth>>

\* A name looked up gets one too, and is not listed, then or later.
kallsyms_lookup_name(name) ==
  /\ LcCanStep /\ LcStepped /\ lcRax' = "api" /\ lcTable' = lcTable \cup {name}
  /\ UNCHANGED <<lcKind, lcActive, lcLimit, lcHooks, lcStopOn, lcFlags, lcListed, lcRsp,
                 lcStack, lcStatus, lcCalls, lcTruth>>

LcNext ==
  \/ callLinuxFunction \/ LcInsn \/ LcPop \/ LcReturn \/ LcInt3 \/ LcTrap \/ LcFaults
  \/ LcSpin \/ LcHalt \/ LcHandoff \/ LcTimeout
  \/ \E name \in LcKnown \cup LcUnknown, throws \in BOOLEAN : LcApi(name, throws)
  \/ \E name \in LcUnknown : resolveImportProvisioned(name) \/ kallsyms_lookup_name(name)

LcSpec == LcInit /\ [][LcNext]_lcVars

-----------------------------------------------------------------------------
LcTypeOK ==
  /\ lcKind \in {"js", "uc", "hybrid"} /\ lcActive \in LcEngines
  /\ lcKind # "hybrid" => lcActive = lcKind
  /\ lcSteps \in [LcEngines -> Nat] /\ lcLimit \in Nat
  /\ lcHooks \in [LcEngines -> 0..1] /\ {lcStopOn, lcDebug, lcHalted, lcFault} \subseteq BOOLEAN
  /\ lcRsp \in Nat /\ lcStack \in Seq({"marker", "return", "data"})
  /\ lcListed \subseteq LcUnknown /\ lcListed \subseteq lcTable
  /\ lcStatus \in {"idle", "running", "ok", "fault", "timeout", "debug-stop", "halted"}
  /\ lcCalls \in 0..LcMaxCalls

(* What a call reports is what happened, on every back end and whatever calls     *)
(* before it left behind: "ok" exactly when the code returned to the marker with   *)
(* steps to spare; a fault exactly when it faulted, never for the fault of an       *)
(* earlier call; a debug stop only of the interpreter, after a debug exception       *)
(* nobody handled, "halted" only of an interpreter that has met hlt, be either in    *)
(* an earlier call; a timeout only when the budget is used up.  And no call leaves   *)
(* a hook or a stop on the marker that the next would run into.                      *)
LcOutcomeTrue ==
  lcStatus # "running" =>
    /\ (lcStatus = "ok") = (lcTruth = "returned")
    /\ lcStatus = "ok" => lcStack = <<>>
    /\ (lcStatus = "fault") = (lcTruth = "fault")
    /\ lcStatus = "debug-stop" => lcKind = "js" /\ lcDebug
    /\ lcStatus = "halted" => lcActive = "js" /\ lcHalted
    /\ lcStatus = "timeout" => lcSteps[lcActive] >= lcLimit
    /\ lcHooks = [e \in LcEngines |-> 0] /\ ~lcStopOn

=============================================================================

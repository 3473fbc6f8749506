---------------------------------- MODULE CpuRun ----------------------------------
(***************************************************************************)
(* The run loop of the interpreter (packages/ntsim/src/cpu.mjs): step with  *)
(* its breakpoint gate and hooks, run with the trap flag and the window     *)
(* behind MOV SS, callFunction and its resumption.                         *)
(*                                                                         *)
(* What an instruction computes is Cpu's; here it is one of a few kinds.   *)
(* The implementation of an API is a hook, and may call the guest again, so *)
(* that calls nest.  rip is known only as ordinary code, a debugger's       *)
(* breakpoint, or the marker callFunction returns to.                      *)
(***************************************************************************)
EXTENDS Naturals, Sequences

CONSTANTS
  RunPolicy,    \* breakpointPolicy: "continue" or "pause"
  RunMaxSteps,  \* the budget of run, ten million in the code
  RunMaxDepth   \* bound: how deep calls nest

ASSUME RunAssumption ==
  /\ RunPolicy \in {"continue", "pause"}
  /\ RunMaxSteps \in Nat \ {0} /\ RunMaxDepth \in Nat \ {0}

VARIABLES
  runAt,       \* rip
  runTf,       \* tf
  runWindow,   \* inhibitWindow
  runHalted,   \* halted
  runSteps,    \* steps, counted since the last reset
  runStop,     \* stopOnRip
  runDebug,    \* lastDebugStop is set
  runFault,    \* the stopOnRip in faultFrame, NoFrame without one
  runFrames,   \* runs in progress, innermost last
  runHandled,  \* faults callFunctionSeh dispatches, innermost last
  runSlipped,  \* ghost: an armed instruction ended without its trap
  runTainted   \* ghost: a host error went through a call, or a call was resumed with
               \* the frame of another

runVars == <<runAt, runTf, runWindow, runHalted, runSteps, runStop, runDebug, runFault,
             runFrames, runHandled, runSlipped, runTainted>>

-----------------------------------------------------------------------------
RunPlaces == {"code", "bp", "marker"}
RunStops == {"none", "marker"}
NoFrame == "no frame"

\* armed: TF when the step in progress began; inApi: that step is in a hook.
RunFrame == [via : {"run", "call", "resumed"}, saved : RunStops, armed : BOOLEAN, inApi : BOOLEAN]

RunDepth == Len(runFrames)
RunTop == runFrames[RunDepth]
RunPopped == SubSeq(runFrames, 1, RunDepth - 1)
RunHostTurn == IF runFrames = <<>> THEN TRUE ELSE RunTop.inApi

RunInit ==
  /\ runAt = "code" /\ runTf = FALSE /\ runWindow = 0 /\ runHalted = FALSE /\ runSteps = 0
  /\ runStop = "none" /\ runDebug = FALSE /\ runFault = NoFrame /\ runFrames = <<>>
  /\ runHandled = <<>> /\ runSlipped = FALSE /\ runTainted = FALSE

-----------------------------------------------------------------------------
\* reset.  stopOnRip and the fault frame stay.
RunReset ==
  /\ runFrames = <<>>
  /\ runHalted' = FALSE /\ runSteps' = 0 /\ runTf' = FALSE /\ runWindow' = 0
  /\ runDebug' = FALSE
  /\ UNCHANGED <<runAt, runStop, runFault, runFrames, runHandled, runSlipped, runTainted>>

\* The host, or the debugger, arms the trap flag.
RunArm ==
  /\ RunHostTurn /\ ~runTf
  /\ runTf' = TRUE
  /\ UNCHANGED <<runAt, runWindow, runHalted, runSteps, runStop, runDebug, runFault, runFrames,
                 runHandled, runSlipped, runTainted>>

RunPush(via) ==
  Append(runFrames, [via |-> via, saved |-> runStop, armed |-> FALSE, inApi |-> FALSE])

\* run, from the host alone.
RunRun ==
  /\ runFrames = <<>>
  /\ runFrames' = RunPush("run")
  /\ runAt' \in {"code", "bp"}
  /\ UNCHANGED <<runTf, runWindow, runHalted, runSteps, runStop, runDebug, runFault,
                 runHandled, runSlipped, runTainted>>

\* callFunction, from the host or from an API.
RunCall ==
  /\ RunHostTurn /\ RunDepth < RunMaxDepth
  /\ runFrames' = RunPush("call")
  /\ runStop' = "marker" /\ runFault' = NoFrame
  /\ runAt' \in {"code", "bp"}
  /\ UNCHANGED <<runTf, runWindow, runHalted, runSteps, runDebug, runHandled, runSlipped, runTainted>>

-----------------------------------------------------------------------------
(* callFunctionSeh of kernel.mjs.  A call that faulted is dispatched: filters   *)
(* and handlers are calls of their own, and clear the fault frame.          *)

RunDispatching == runHandled # <<>> /\ runHandled[Len(runHandled)].depth = RunDepth
RunSettled == SubSeq(runHandled, 1, Len(runHandled) - 1)

\* The fault is not handled, or its handler was called in place of the rest.
RunSettle ==
  /\ RunHostTurn /\ RunDispatching
  /\ runHandled' = RunSettled
  /\ UNCHANGED <<runAt, runTf, runWindow, runHalted, runSteps, runStop, runDebug, runFault,
                 runFrames, runSlipped, runTainted>>

\* A filter continues execution: resumeFromFault goes on with the call, from the
\* fault frame that is there, which a call made by the filter may have left.
RunResume ==
  /\ RunHostTurn /\ RunDispatching /\ RunDepth < RunMaxDepth
  /\ LET kept == runHandled[Len(runHandled)].saved
         used == IF runFault = NoFrame THEN kept ELSE runFault
     IN /\ runFrames' = Append(runFrames, [via |-> "resumed", saved |-> used, armed |-> FALSE,
                                           inApi |-> FALSE])
        /\ runTainted' = (runTainted \/ used # kept)
  /\ runHandled' = RunSettled
  /\ runStop' = "marker" /\ runFault' = NoFrame
  /\ runHalted' = FALSE /\ runDebug' = FALSE
  /\ runAt' = "code"
  /\ UNCHANGED <<runTf, runWindow, runSteps, runSlipped>>

-----------------------------------------------------------------------------
RunsGuest == runFrames # <<>> /\ ~RunTop.inApi

\* The loop of run goes round again.
RunMayStep ==
  /\ RunsGuest /\ ~runHalted /\ runSteps < RunMaxSteps
  /\ runStop = "none" \/ runAt # runStop

\* The innermost run ends; a call puts stopOnRip back.
RunEnd(keepsFault) ==
  /\ runFrames' = RunPopped
  /\ runStop' = IF RunTop.via # "run" THEN RunTop.saved ELSE runStop
  /\ runFault' = IF keepsFault /\ RunTop.via # "run" THEN RunTop.saved ELSE runFault

\* run returns "breakpoint", debug saying whether lastDebugStop is set: a call
\* takes it for a debug stop if so, and otherwise pauses or goes on.
RunBroke(debug) ==
  IF RunTop.via # "run" /\ ~debug /\ RunPolicy = "continue"
  THEN /\ runDebug' = FALSE
       /\ UNCHANGED <<runFrames, runStop, runFault>>
  ELSE /\ runDebug' = IF RunTop.via # "run" THEN FALSE ELSE debug
       /\ RunEnd(FALSE)

\* What run does when an instruction or a hook is done: MOV SS holds the debug
\* exception back, until the next instruction is done; delivered, it clears TF
\* and goes to the sink.
RunAfterStep(armed, tf, window, halted) ==
  LET left == IF window > 0 THEN window - 1 ELSE 0
      fires == armed /\ ~halted /\ left = 0
  IN /\ runWindow' = left
     /\ runHalted' = halted
     /\ runTf' = IF fires THEN FALSE ELSE tf
     /\ \/ /\ fires
           /\ RunBroke(TRUE)
        \/ /\ UNCHANGED <<runStop, runDebug, runFault>>
           /\ runFrames' = [runFrames EXCEPT ![RunDepth].inApi = FALSE]

\* Mutant: the breakpoint gate does not count as a step.
RunGateFree ==
  /\ RunMayStep /\ runAt = "bp"
  /\ RunBroke(runDebug)
  /\ UNCHANGED <<runAt, runTf, runWindow, runHalted, runSteps, runHandled, runSlipped, runTainted>>

\* A breakpoint of the debugger: rip stays on it.
RunGate ==
  /\ RunMayStep /\ runAt = "bp"
  /\ runSteps' = runSteps + 1
  /\ RunBroke(runDebug)
  /\ UNCHANGED <<runAt, runTf, runWindow, runHalted, runHandled, runSlipped, runTainted>>

\* Mutant: the window behind MOV SS is open for one instruction too many.
RunWindowOfLong(kind) == IF kind = "movss" THEN 3 ELSE runWindow

\* MOV SS opens the window, which counts its own step.
RunWindowOf(kind) == IF kind = "movss" THEN 2 ELSE runWindow

\* An instruction; popf loads TF, armed or not.
RunInstruction(kind) ==
  /\ RunMayStep /\ runAt # "bp"
  /\ runSteps' = runSteps + 1
  /\ runAt' \in RunPlaces
  /\ \E tf \in IF kind = "popf" THEN BOOLEAN ELSE {runTf} :
       RunAfterStep(runTf, tf, RunWindowOf(kind), kind = "hlt")
  /\ runSlipped' = (runSlipped \/ (runTf /\ kind \in {"plain", "popf"} /\ runTf' /\ runWindow' > 0))
  /\ UNCHANGED <<runHandled, runTainted>>

\* int3: the trap of an armed TF is left for the next instruction.
RunInt3 ==
  /\ RunMayStep /\ runAt # "bp"
  /\ runSteps' = runSteps + 1
  /\ runAt' = "code"
  /\ RunBroke(runDebug)
  /\ UNCHANGED <<runTf, runWindow, runHalted, runHandled, runSlipped, runTainted>>

\* A CpuError ends the run; a call keeps a frame to resume from, and may have been
\* made by callFunctionSeh, as a filter or a handler is not.
RunFails ==
  /\ RunMayStep /\ runAt # "bp"
  /\ runSteps' = runSteps + 1
  /\ RunEnd(TRUE)
  /\ \/ UNCHANGED runHandled
     \/ /\ RunTop.via = "call"
        /\ runHandled # <<>> => runHandled[Len(runHandled)].depth < RunDepth - 1
        /\ runHandled' = Append(runHandled, [depth |-> RunDepth - 1, saved |-> RunTop.saved])
  /\ UNCHANGED <<runAt, runTf, runWindow, runHalted, runDebug, runSlipped, runTainted>>

\* A hook takes the step, and can call the guest.
RunEnterApi ==
  /\ RunMayStep /\ runAt = "code"
  /\ runFrames' = [runFrames EXCEPT ![RunDepth].inApi = TRUE, ![RunDepth].armed = runTf]
  /\ UNCHANGED <<runAt, runTf, runWindow, runHalted, runSteps, runStop, runDebug, runFault,
                 runHandled, runSlipped, runTainted>>

RunApiReturns ==
  /\ runFrames # <<>> /\ RunTop.inApi /\ ~RunDispatching
  /\ runSteps' = IF runSteps < RunMaxSteps THEN runSteps + 1 ELSE runSteps
  /\ runAt' \in RunPlaces
  /\ RunAfterStep(RunTop.armed, runTf, runWindow, runHalted)
  /\ UNCHANGED <<runHandled, runSlipped, runTainted>>

\* An error of the host that is no CpuError leaves run and callFunction as it is
\* thrown: stopOnRip stays what the call set it to.
RunThrows ==
  /\ runFrames # <<>> /\ RunTop.inApi
  /\ runFrames' = RunPopped
  /\ runHandled' = IF RunDispatching THEN RunSettled ELSE runHandled
  /\ runTainted' = TRUE
  /\ UNCHANGED <<runAt, runTf, runWindow, runHalted, runSteps, runStop, runDebug, runFault,
                 runSlipped>>

\* The marker is reached, the cpu has halted, or the budget is used up.
RunReturns ==
  /\ RunsGuest /\ ~RunMayStep
  /\ RunEnd(FALSE)
  /\ runDebug' = IF RunTop.via # "run" /\ ~runHalted /\ runSteps < RunMaxSteps THEN FALSE
                 ELSE runDebug
  /\ UNCHANGED <<runAt, runTf, runWindow, runHalted, runSteps, runHandled, runSlipped, runTainted>>

RunStep ==
  \/ RunGate \/ RunInt3 \/ RunFails \/ RunEnterApi \/ RunReturns
  \/ \E kind \in {"plain", "popf", "movss", "hlt"} : RunInstruction(kind)

RunNext ==
  \/ RunStep \/ RunApiReturns \/ RunThrows
  \/ RunReset \/ RunArm \/ RunRun \/ RunCall \/ RunResume \/ RunSettle

\* The loop is one of JavaScript and goes on; an API implementation, and the
\* dispatcher of exceptions, makes finitely many calls and is then done.
RunFairness ==
  /\ WF_runVars(RunStep)
  /\ \A d \in 0..RunMaxDepth : SF_runVars(RunDepth = d /\ (RunResume \/ RunSettle))
  /\ \A d \in 1..RunMaxDepth : SF_runVars(RunDepth = d /\ (RunApiReturns \/ RunThrows))

RunSpec == RunInit /\ [][RunNext]_runVars /\ RunFairness

-----------------------------------------------------------------------------
RunTypeOK ==
  /\ runAt \in RunPlaces /\ runTf \in BOOLEAN /\ runWindow \in 0..1
  /\ runHalted \in BOOLEAN /\ runSteps \in 0..RunMaxSteps /\ runStop \in RunStops
  /\ runDebug \in BOOLEAN /\ runFault \in RunStops \cup {NoFrame}
  /\ runFrames \in Seq(RunFrame) /\ RunDepth <= RunMaxDepth
  /\ runHandled \in Seq([depth : 0..RunMaxDepth, saved : RunStops])
  /\ runSlipped \in BOOLEAN /\ runTainted \in BOOLEAN

\* An instruction that began with TF armed is followed by its debug exception, also
\* right behind MOV SS, through nested calls, breakpoints and faults; and when
\* nothing runs, stopOnRip is what it was, unless a host error left a call without
\* restoring it or a resumption took the frame of another call.
RunOrderly ==
  /\ ~runSlipped
  /\ runFrames = <<>> /\ ~runTainted => runStop = "none"

\* Every run and every call ends: a breakpoint that is run into again and again
\* uses up the steps, as nothing but reset gives them back.
RunEnds == \A d \in 1..RunMaxDepth : RunDepth >= d ~> RunDepth < d

===============================================================================

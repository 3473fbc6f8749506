-------------------------------- MODULE MCEngines --------------------------------
(***************************************************************************)
(* The engines that execute guest code, for TLC: the run loop of the        *)
(* interpreter and the hand-off of the hybrid backend.  They share no       *)
(* variable and each property reads one of them, so a behaviour moves the   *)
(* chosen one.                                                              *)
(***************************************************************************)
EXTENDS MCHybrid, CpuRun

VARIABLE chosen

-----------------------------------------------------------------------------
EnginesInit ==
  /\ chosen \in {"loop", "hybrid"}
  /\ HybridInit /\ RunInit

EnginesNext ==
  \/ chosen = "loop" /\ RunNext /\ UNCHANGED <<chosen, hybridVars>>
  \/ chosen = "hybrid" /\ HybridNext /\ UNCHANGED <<chosen, runVars>>

\* When it is not chosen, the loop has not begun, and there is nothing it must do.
EnginesSpec == EnginesInit /\ [][EnginesNext]_<<chosen, hybridVars, runVars>> /\ RunFairness

-----------------------------------------------------------------------------
\* Every component keeps its variables in their types.
EnginesTypeOK == HybridTypeOK /\ RunTypeOK
=============================================================================

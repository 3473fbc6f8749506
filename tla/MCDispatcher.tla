---------------------------- MODULE MCDispatcher ----------------------------
(***************************************************************************)
(* Instances of Dispatcher for TLC.                                        *)
(***************************************************************************)
EXTENDS Dispatcher, TLC

CONSTANTS d1, d2, t1, t2

SymDpcs   == Permutations({d1, d2})
SymTimers == Permutations({t1, t2})
=============================================================================

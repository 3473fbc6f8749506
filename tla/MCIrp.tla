--------------------------------- MODULE MCIrp ---------------------------------
(***************************************************************************)
(* Irp for TLC: one IRP of two locations that goes through two devices, and  *)
(* two IRPs of one device that are pending together.                        *)
(***************************************************************************)
EXTENDS Irp, TLC

CONSTANTS dev1, dev2, irp1, irp2

\* The device of the pending IRPs, NoDevice when one IRP goes through all.
VARIABLE only

Symmetry == Permutations(Devices) \cup Permutations(Irps)

-----------------------------------------------------------------------------
MCInit == IrpInit /\ only \in Devices \cup {NoDevice}

OneIrp == Cardinality(Known') <= 1

\* One device, whose driver neither registers completion routines nor nests.
OneDevice ==
  /\ \A k \in DOMAIN calls' : calls'[k].dev \in {only, NoDevice}
  /\ Len(calls') <= 2
  /\ Devices \ devices' \subseteq {only} /\ UNCHANGED attached
  /\ \A i \in Irps : irps'[i].count <= 1 /\ \A l \in Locs : ~slots'[i][l].routine

MCNext == IrpNext /\ UNCHANGED only /\ IF only = NoDevice THEN OneIrp ELSE OneDevice

MCSpec == MCInit /\ [][MCNext]_<<irpVars, only>>

=============================================================================

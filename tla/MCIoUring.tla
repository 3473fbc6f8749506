------------------------------- MODULE MCIoUring -------------------------------
(* Instances of IoUring for TLC. *)
EXTENDS IoUring, TLC

CONSTANTS drive1, drive2

Symmetry == Permutations(Drives)

=============================================================================

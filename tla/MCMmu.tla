--------------------------------- MODULE MCMmu ---------------------------------
(***************************************************************************)
(* Mmu for TLC: two indices, so that a table has a neighbour for every     *)
(* entry, two levels, and a TSEG of one page.                              *)
(***************************************************************************)
EXTENDS Mmu

TwoIdx == {0, 1}

\* Two pages of one table and one of another, which is TSEG.
ThreePages == {<<0, 0>>, <<1, 0>>, <<1, 1>>}
AndHole == ThreePages \cup {Hole}
FirstPage == {<<0, 0>>}
LastPage == {<<1, 1>>}

\* KUSER_SHARED_DATA's flags, and those of code the user may run.
KuserFlags == {[write |-> FALSE, user |-> FALSE, nx |-> TRUE]}
UserFlags == {[write |-> FALSE, user |-> TRUE, nx |-> FALSE]}

=============================================================================

---------------------------------- MODULE Kept ----------------------------------
(***************************************************************************)
(* Array.prototype.filter, as lists of callbacks and hooks are cut with it: *)
(* the elements at the indices of a set, in their order.  SelectSeq is the   *)
(* same with a predicate, but is not defined where it can be reasoned about. *)
(***************************************************************************)
EXTENDS Naturals, Sequences

Kept(s, I) ==
  LET upto[n \in 0..Len(s)] ==
        IF n = 0 THEN <<>>
        ELSE IF n \in I THEN Append(upto[n - 1], s[n]) ELSE upto[n - 1]
  IN  upto[Len(s)]
=============================================================================

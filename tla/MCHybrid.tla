------------------------------- MODULE MCHybrid -------------------------------
(* Instances of Hybrid for TLC. *)
EXTENDS Hybrid, SequencesExt

Plain == [kind |-> "plain", prefixed |-> FALSE]
Api   == [kind |-> "api", prefixed |-> FALSE]
New   == [kind |-> "new", prefixed |-> FALSE]
Sse   == [kind |-> "new", prefixed |-> TRUE]

\* Every function of one or two instructions.
Short == BoundedSeq({Plain, Api, New, Sse}, 2) \ {<<>>}

\* Without most of those a refused instruction has no prefixes in.
Shorter == (BoundedSeq({Plain, Api, Sse}, 2) \ {<<>>}) \cup {<<New>>, <<Api, New>>, <<New, Api>>}

=============================================================================

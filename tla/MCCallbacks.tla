------------------------------ MODULE MCCallbacks ------------------------------
(* Instances of Callbacks for TLC. *)
EXTENDS Callbacks

CONSTANTS cb1, cb2, reg1, reg2

\* The first registration has two operation entries.
PreOf  == [r \in Registrations |-> IF r = reg1 THEN <<cb1, cb2>> ELSE <<cb1>>]
PostOf == [r \in Registrations |-> IF r = reg1 THEN <<cb2>> ELSE <<>>]

=============================================================================

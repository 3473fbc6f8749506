--------------------------------- MODULE ArchState ---------------------------------
(***************************************************************************)
(* Privileged state and its tamper checks: the model-specific registers     *)
(* with the hypervisor's intercepts, IDT and GDT, and the scan and the probe *)
(* over them (packages/ntsim/src/msr.mjs).                                  *)
(***************************************************************************)
EXTENDS Naturals, Sequences

CONSTANTS
  ArMsrs,        \* the registers that are modelled, ArLstar among them
  ArLstar,
  ArOtherMsrs,   \* registers the file does not hold when it is installed
  ArVectors,     \* entries of the IDT
  ArEntries,     \* entries of the GDT
  ArValues,      \* what a register, an entry or a handler can be given
  ArMaxWrites    \* bound: writes of the driver

ASSUME ArAssumption ==
  /\ ArLstar \in ArMsrs /\ ArMsrs \cap ArOtherMsrs = {} /\ ArMaxWrites \in Nat

VARIABLES
  arFile,       \* msrFile
  arIntercepts, \* msrIntercepts: register -> what the handler makes of any value
  arHvci,       \* hvciMode
  arIdt, arGdt, \* entries that differ from their baseline, with what they hold
  arHalted,     \* the CPU was halted by a refused write
  arRefused,    \* ghost: a write was refused
  arIntercepted,\* ghost: registers a handler has stored a value in
  arWrites      \* writes so far

arVars == <<arFile, arIntercepts, arHvci, arIdt, arGdt, arHalted,
            arRefused, arIntercepted, arWrites>>

-----------------------------------------------------------------------------
ArPristine == "pristine"
ArAll == ArMsrs \cup ArOtherMsrs
ArNone == "none"

\* installArchState; hvciMode is the kernel's.
ArInit ==
  /\ arFile = [m \in ArMsrs |-> ArPristine]
  /\ arIntercepts = <<>> /\ arHvci \in BOOLEAN
  /\ arIdt = [v \in ArVectors |-> ArPristine] /\ arGdt = [e \in ArEntries |-> ArPristine]
  /\ arHalted = FALSE /\ arRefused = FALSE /\ arIntercepted = {} /\ arWrites = 0

ArStored(m) == IF m \in DOMAIN arFile THEN arFile[m] ELSE ArNone

ArStore(m, v) ==
  arFile' = [k \in DOMAIN arFile \cup {m} |-> IF k = m THEN v ELSE arFile[k]]

ArWrite == /\ ~arHalted /\ arWrites < ArMaxWrites /\ arWrites' = arWrites + 1

\* installMsrIntercept: the hypervisor is not the guest and needs no permission.
ArIntercept(m, v) ==
  /\ ArWrite
  /\ arIntercepts' = [k \in DOMAIN arIntercepts \cup {m} |->
                        IF k = m THEN v ELSE arIntercepts[k]]
  /\ UNCHANGED <<arFile, arHvci, arIdt, arGdt, arHalted, arRefused,
                 arIntercepted>>

\* Mutant: the write is stored before it is refused.
ArRefuseLate(m, v) ==
  /\ arHvci /\ m \notin DOMAIN arIntercepts
  /\ ArStore(m, v) /\ arHalted' = TRUE /\ arRefused' = TRUE
  /\ UNCHANGED arIntercepted

\* With memory integrity every write is refused, to whichever register.
ArRefuse(m, v) ==
  /\ arHvci /\ m \notin DOMAIN arIntercepts
  /\ arHalted' = TRUE /\ arRefused' = TRUE
  /\ UNCHANGED <<arFile, arIntercepted>>

\* wrmsr: an intercept comes before the refusal, and what it returns is stored.
ArWrmsr(m, v) ==
  /\ ArWrite
  /\ \/ /\ m \in DOMAIN arIntercepts
        /\ ArStore(m, arIntercepts[m])
        /\ arIntercepted' = arIntercepted \cup {m}
        /\ UNCHANGED <<arHalted, arRefused>>
     \/ ArRefuse(m, v)
     \/ /\ ~arHvci /\ m \notin DOMAIN arIntercepts
        /\ ArStore(m, v)
        /\ UNCHANGED <<arHalted, arRefused, arIntercepted>>
  /\ UNCHANGED <<arIntercepts, arHvci, arIdt, arGdt>>

\* rdmsr.
ArRdmsr(m) == IF m \in DOMAIN arIntercepts THEN arIntercepts[m] ELSE ArStored(m)

\* setIdtHandler, and writes to the descriptor table, are plain stores.
ArSetIdt(vec, v) ==
  /\ ArWrite /\ arIdt' = [arIdt EXCEPT ![vec] = v]
  /\ UNCHANGED <<arFile, arIntercepts, arHvci, arGdt, arHalted,
                 arRefused, arIntercepted>>

ArSetGdt(e, v) ==
  /\ ArWrite /\ arGdt' = [arGdt EXCEPT ![e] = v]
  /\ UNCHANGED <<arFile, arIntercepts, arHvci, arIdt, arHalted,
                 arRefused, arIntercepted>>

ArNext ==
  \/ \E m \in ArAll, v \in ArValues : ArIntercept(m, v)
  \/ \E m \in ArAll, v \in ArValues \cup {ArPristine} : ArWrmsr(m, v)
  \/ \E vec \in ArVectors, v \in ArValues \cup {ArPristine} : ArSetIdt(vec, v)
  \/ \E e \in ArEntries, v \in ArValues \cup {ArPristine} : ArSetGdt(e, v)

ArSpec == ArInit /\ [][ArNext]_arVars

-----------------------------------------------------------------------------
(* The checks.                                                              *)

\* scanArchTamper: registers of the baseline, vectors with whether they point
\* outside the kernel, descriptors.
ArTampered ==
  {<<"msr", m>> : m \in {k \in ArMsrs : arFile[k] # ArPristine}} \cup
  {<<"idt", v>> : v \in {k \in ArVectors : arIdt[k] # ArPristine}} \cup
  {<<"gdt", e>> : e \in {k \in ArEntries : arGdt[k] # ArPristine}}

\* probeSyscall, by the value the guest reads.
ArProbeHonest == ArRdmsr(ArLstar) = ArPristine

-----------------------------------------------------------------------------
ArTypeOK ==
  /\ \A m \in DOMAIN arFile : m \in ArAll /\ arFile[m] \in ArValues \cup {ArPristine}
  /\ \A m \in DOMAIN arIntercepts : m \in ArAll /\ arIntercepts[m] \in ArValues
  /\ {arHvci, arHalted, arRefused} \subseteq BOOLEAN
  /\ arIntercepted \subseteq ArAll /\ arWrites \in 0..ArMaxWrites

\* The two oracles of a redirected system call agree unless the hypervisor stands
\* between them; under memory integrity no register holds a value but the
\* pristine one or a handler's, however writes and intercepts are ordered.
ArOraclesAgree ==
  /\ ArLstar \notin DOMAIN arIntercepts =>
       (ArProbeHonest <=> <<"msr", ArLstar>> \notin ArTampered)
  /\ arHvci => \A m \in DOMAIN arFile : arFile[m] = ArPristine \/ m \in arIntercepted
  /\ arRefused => arHalted /\ arHvci

===============================================================================

-------------------------------- MODULE MCKernels --------------------------------
(***************************************************************************)
(* What the two simulated kernels keep for the code they run, for TLC: the  *)
(* containers, handles, pool and exports of the one, the registrations,     *)
(* calls, modules and rings of the other.  They share no variable and each  *)
(* property reads one of them, so a behaviour moves the one in focus.       *)
(***************************************************************************)
EXTENDS MCIoUring, GuestLists, Handles, Pool, ApiTable, LinuxRegistry, LinuxCalls, KoLoader

VARIABLE focus

-----------------------------------------------------------------------------
\* Where a structure was placed once.
Fixed == {<<16, 1>>}

\* Two tables of file operations: one reads and has two ways to an ioctl, one writes.
NoFops == [o \in Range(LxRawOps) |-> "0"]
FopsTable ==
  [f1 |-> [NoFops EXCEPT !["read"] = "h1", !["unlocked_ioctl"] = "h2", !["compat_ioctl"] = "h2"],
   f2 |-> [NoFops EXCEPT !["write"] = "f"]]

\* A key that is spelled in two ways, and one that is asked for below one of them.
Lower == [k \in HnKeys |-> IF k = "Svc" THEN "svc" ELSE k]
Above == [k \in HnKeys |-> IF k = "a" THEN {"Svc"} ELSE {}]

\* Modules of a section of code and one of data, loaded, bare or without bits; and
\* linked ones, one whose code is at 0 among them.
Section(addr, size, align, text) ==
  [alloc |-> TRUE, bits |-> TRUE, addr |-> addr, size |-> size, align |-> align, text |-> text]
Code == { Section(0, size, align, TRUE) : size \in {1, 2}, align \in {0, 1, 4} }
DataSections ==
  [alloc : BOOLEAN, bits : BOOLEAN, addr : {0, 4}, size : {1, 2}, align : {1, 2}, text : {FALSE}]
SectionLists ==
  { <<code, data>> : code \in Code \cup {Section(2, 1, 1, TRUE)}, data \in DataSections }
  \cup { <<Section(addr, 1, 1, TRUE), [Section(4, 1, 1, TRUE) EXCEPT !.bits = FALSE],
           Section(6, 1, 1, FALSE)>> : addr \in {0, 2} }
  \cup { <<Section(2, 1, 1, FALSE)>> }

-----------------------------------------------------------------------------
\* Lists and tables, the registry and handles, the table of exports and calls of them,
\* have bounds of their own.
Foci == {"rings", "table", "registry", "handles", "pool", "exports", "calls", "modules",
         "linux calls", "module file", "uring"}

\* Out of focus a component is at one of its beginnings.
MCInit ==
  /\ focus \in Foci
  /\ Init /\ GlInit /\ HnInit /\ HpInit /\ AtInit /\ LxInit /\ LcInit
  /\ focus # "handles" => hnProtected = {}
  /\ focus # "pool" => ~hpNt /\ ~hpAslr
  /\ focus # "linux calls" => lcKind = "js"
  /\ \/ focus = "module file"
     \/ /\ focus # "module file"
        /\ koFile = [fault |-> "none", sections |-> CHOOSE l \in SectionLists : TRUE,
                     relocs |-> <<>>]
        /\ koUsed = FALSE
  /\ KoInit

guestVars == <<glVars, hnVars, hpVars, atVars>>
linuxVars == <<lxVars, lcVars, koVars, vars>>

MCNext ==
  /\ UNCHANGED focus
  /\ \/ /\ focus = "rings" /\ GlRingStep
        /\ UNCHANGED <<hnVars, hpVars, atVars, linuxVars>>
     \/ /\ focus = "table" /\ GlTableStep
        /\ UNCHANGED <<hnVars, hpVars, atVars, linuxVars>>
     \/ /\ focus = "registry" /\ HnRegistryStep
        /\ UNCHANGED <<glVars, hpVars, atVars, linuxVars>>
     \/ /\ focus = "handles" /\ HnHandleStep
        /\ UNCHANGED <<glVars, hpVars, atVars, linuxVars>>
     \/ /\ focus = "pool" /\ HpStep
        /\ UNCHANGED <<glVars, hnVars, atVars, linuxVars>>
     \/ /\ focus = "exports" /\ AtTableStep
        /\ UNCHANGED <<glVars, hnVars, hpVars, linuxVars>>
     \/ /\ focus = "calls" /\ AtCallStep
        /\ UNCHANGED <<glVars, hnVars, hpVars, linuxVars>>
     \/ /\ focus = "modules" /\ LxNext
        /\ UNCHANGED <<lcVars, koVars, vars, guestVars>>
     \/ /\ focus = "linux calls" /\ LcNext
        /\ UNCHANGED <<lxVars, koVars, vars, guestVars>>
     \/ /\ focus = "module file" /\ KoNext
        /\ UNCHANGED <<lxVars, lcVars, vars, guestVars>>
     \/ /\ focus = "uring" /\ Next
        /\ UNCHANGED <<lxVars, lcVars, koVars, guestVars>>

MCSpec == MCInit /\ [][MCNext]_<<focus, guestVars, linuxVars>>

-----------------------------------------------------------------------------
\* Every component keeps its variables in their types.
MCTypeOK ==
  /\ GlTypeOK /\ HnTypeOK /\ HpTypeOK /\ AtTypeOK /\ LxTypeOK /\ LcTypeOK /\ KoTypeOK
  /\ TypeOK
=============================================================================

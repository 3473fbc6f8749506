--------------------------------- MODULE Handles ---------------------------------
(***************************************************************************)
(* Handles, the virtual registry and its write log, and access to processes  *)
(* by handle (packages/ntsim/src/winapi.mjs, winapi-ext.mjs,                 *)
(* winapi-extra.mjs).                                                       *)
(*                                                                         *)
(* A key is its name as it is spelled; names are compared without case in     *)
(* some places and as they are in others.  Where several spellings are found, *)
(* any of them is taken (the code takes the oldest).  The handle numbers of   *)
(* the several sequences never meet.                                        *)
(***************************************************************************)
EXTENDS Naturals, Sequences, FiniteSets

CONSTANTS
  HnKeys,       \* names of registry keys, as spelled
  HnFold,       \* a name without its case
  HnSeeded,     \* those the scenario seeds
  HnRegistry,   \* those under \Registry\
  HnAbove,      \* the prefixes of a name that contain "services"
  HnNames,      \* value names; "Dummy" is the one auto-creation sets
  HnSizes,      \* what a driver sets; a value is its size
  HnSynth,      \* the size of a value the simulator makes up
  HnLogLimit,   \* registryWriteLog keeps so many entries
  HnAutoLimit,  \* registryAutoCreated
  HnPids,       \* processes
  HnSystem,     \* the one with pid 4
  HnMaxHandles  \* bound: handles issued

ASSUME HnAssumption ==
  /\ HnSeeded \cup HnRegistry \subseteq HnKeys /\ HnAbove \in [HnKeys -> SUBSET HnKeys]
  /\ "Dummy" \in HnNames /\ "none" \notin HnNames
  /\ HnSynth \notin HnSizes /\ 0 \notin HnSizes \cup {HnSynth}
  /\ HnLogLimit \in Nat /\ HnMaxHandles \in Nat

VARIABLES
  hnTable,      \* kernel.handles: [h, kind, of]
  hnOpen,       \* kernel.openHandles: [h, pid, write]
  hnIssued,     \* handles issued
  hnKeys,       \* kernel.registry: its keys
  hnVal,        \* their values; 0 for none
  hnLog,        \* registryWriteLog
  hnAuto,       \* registryAutoCreated
  hnUnlisted,   \* ghost: keys made up that the list has no room for
  hnStray,      \* ghost: values whose last set was logged and stored nowhere
  hnProtected,  \* processes with a Protection byte set
  hnWrote,      \* ghost: pids written through a handle
  hnGranted,    \* ghost: pids a handle to write with was given for, not protected then
  hnObClosed    \* ghost: handles ObCloseHandle closed, and used to write since

hnRegistryVars == <<hnKeys, hnVal, hnLog, hnAuto, hnUnlisted, hnStray>>
hnProcessVars == <<hnOpen, hnProtected, hnWrote, hnGranted, hnObClosed>>
hnVars == <<hnTable, hnIssued, hnRegistryVars, hnProcessVars>>

-----------------------------------------------------------------------------
HnInit ==
  /\ hnTable = {} /\ hnOpen = {} /\ hnIssued = 0
  /\ hnKeys = HnSeeded /\ hnVal = [k \in HnKeys |-> [n \in HnNames |-> 0]]
  /\ hnLog = <<>> /\ hnAuto = {} /\ hnUnlisted = {} /\ hnStray = {}
  /\ hnProtected \in SUBSET HnPids
  /\ hnWrote = {} /\ hnGranted = {} /\ hnObClosed = {}

HnIssue(kind, of) ==
  /\ hnIssued < HnMaxHandles
  /\ hnIssued' = hnIssued + 1
  /\ hnTable' = hnTable \cup {[h |-> hnIssued', kind |-> kind, of |-> of]}

HnKeyHandles == {r \in hnTable : r.kind = "key"}

HnLogged(entry) ==
  hnLog' = IF Len(hnLog) < HnLogLimit THEN Append(hnLog, entry) ELSE hnLog

\* The keys a name is found to be.
HnFound(k) == {key \in hnKeys : HnFold[key] = HnFold[k]}

\* An unknown key under \Registry\ is made up, with the services keys above it.  The
\* key alone is listed as such, as long as there is room.
ZwOpenKey(k) ==
  IF HnFound(k) # {}
  THEN /\ \E key \in HnFound(k) : HnIssue("key", key)
       /\ UNCHANGED <<hnRegistryVars, hnProcessVars>>
  ELSE /\ k \in HnRegistry
       /\ HnIssue("key", k)
       /\ hnKeys' = hnKeys \cup {k} \cup HnAbove[k]
       /\ hnVal' = [hnVal EXCEPT ![k]["Dummy"] = HnSynth]
       /\ IF Cardinality(hnAuto) < HnAutoLimit
          THEN hnAuto' = hnAuto \cup {k} /\ UNCHANGED hnUnlisted
          ELSE hnUnlisted' = hnUnlisted \cup {k} /\ UNCHANGED hnAuto
       /\ UNCHANGED <<hnLog, hnStray, hnProcessVars>>

ZwCreateKey(k) ==
  IF HnFound(k) # {}
  THEN /\ \E key \in HnFound(k) : HnIssue("key", key)
       /\ UNCHANGED <<hnRegistryVars, hnProcessVars>>
  ELSE /\ HnIssue("key", k)
       /\ hnKeys' = hnKeys \cup {k}
       /\ HnLogged([op |-> "create", key |-> k, name |-> "none", size |-> 0])
       /\ UNCHANGED <<hnVal, hnAuto, hnUnlisted, hnStray, hnProcessVars>>

\* Looks for the key in any case, and gives a handle on the spelling it was asked for.
ObOpenObjectByName(k) ==
  /\ HnFound(k) # {}
  /\ HnIssue("key", k)
  /\ UNCHANGED <<hnRegistryVars, hnProcessVars>>

\* Through a handle on a spelling that is no key a set is logged all the same.
ZwSetValueKey(r, n, size) ==
  /\ r \in HnKeyHandles
  /\ IF r.of \in hnKeys
     THEN /\ hnVal' = [hnVal EXCEPT ![r.of][n] = size]
          /\ hnStray' = hnStray \ {<<r.of, n>>}
     ELSE /\ hnStray' = hnStray \cup {<<r.of, n>>}
          /\ UNCHANGED hnVal
  /\ HnLogged([op |-> "set", key |-> r.of, name |-> n, size |-> size])
  /\ UNCHANGED <<hnTable, hnIssued, hnKeys, hnAuto, hnUnlisted, hnProcessVars>>

ZwDeleteValueKey(r, n) ==
  /\ r \in HnKeyHandles /\ hnVal[r.of][n] # 0
  /\ hnVal' = [hnVal EXCEPT ![r.of][n] = 0]
  /\ hnStray' = hnStray \ {<<r.of, n>>}
  /\ HnLogged([op |-> "delete-value", key |-> r.of, name |-> n, size |-> 0])
  /\ UNCHANGED <<hnTable, hnIssued, hnKeys, hnAuto, hnUnlisted, hnProcessVars>>

\* A value asked for under \Registry\ that is not there is made up.
ZwQueryValueKey(r, n) ==
  /\ r \in HnKeyHandles /\ r.of \in hnKeys \cap HnRegistry /\ hnVal[r.of][n] = 0
  /\ hnVal' = [hnVal EXCEPT ![r.of][n] = HnSynth]
  /\ UNCHANGED <<hnTable, hnIssued, hnKeys, hnLog, hnAuto, hnUnlisted, hnStray,
                 hnProcessVars>>

-----------------------------------------------------------------------------
(* Processes by handle: these handles are kept apart from the others.       *)

\* The later of two definitions of ZwOpenProcess holds.  It refuses a protected process,
\* but for the one with pid 4.
ZwOpenProcess(pid, write) ==
  /\ pid \notin hnProtected \/ pid = HnSystem
  /\ hnIssued < HnMaxHandles
  /\ hnIssued' = hnIssued + 1
  /\ hnOpen' = hnOpen \cup {[h |-> hnIssued', pid |-> pid, write |-> write]}
  /\ hnGranted' = IF write /\ pid \notin hnProtected THEN hnGranted \cup {pid} ELSE hnGranted
  /\ UNCHANGED <<hnTable, hnProtected, hnWrote, hnObClosed, hnRegistryVars>>

ZwWriteVirtualMemory(r) ==
  /\ r \in hnOpen /\ r.write
  /\ hnWrote' = hnWrote \cup {r.pid}
  /\ UNCHANGED <<hnTable, hnIssued, hnOpen, hnProtected, hnGranted, hnObClosed, hnRegistryVars>>

\* A rootkit driver writes the Protection byte of an _EPROCESS.
HnSetProtection(pid) ==
  /\ hnProtected' = IF pid \in hnProtected THEN hnProtected \ {pid} ELSE hnProtected \cup {pid}
  /\ UNCHANGED <<hnTable, hnIssued, hnOpen, hnWrote, hnGranted, hnObClosed, hnRegistryVars>>

ObOpenObjectByPointer ==
  /\ HnIssue("object", "o")
  /\ UNCHANGED <<hnRegistryVars, hnProcessVars>>

\* Of a handle that is not in the table, a process handle too, only the number is kept.
ObDuplicateObject(h) ==
  LET recs == {r \in hnTable : r.h = h}
  IN /\ IF recs = {} THEN HnIssue("dup", "h")
        ELSE \E r \in recs : HnIssue(r.kind, r.of)
     /\ UNCHANGED <<hnRegistryVars, hnProcessVars>>

\* ZwClose knows the table only: a process handle stays open.
ZwClose(h) ==
  /\ \E r \in hnTable : r.h = h
  /\ hnTable' = {r \in hnTable : r.h # h}
  /\ UNCHANGED <<hnIssued, hnRegistryVars, hnProcessVars>>

\* Mutant: ObCloseHandle knows the table only, as ZwClose.
ObCloseTableOnly(h) ==
  /\ \E r \in hnTable \cup hnOpen : r.h = h
  /\ hnTable' = {r \in hnTable : r.h # h}
  /\ hnObClosed' = hnObClosed \cup {h}
  /\ UNCHANGED <<hnIssued, hnRegistryVars, hnOpen, hnProtected, hnWrote, hnGranted>>

ObCloseHandle(h) ==
  /\ \E r \in hnTable \cup hnOpen : r.h = h
  /\ hnTable' = {r \in hnTable : r.h # h}
  /\ hnOpen' = {r \in hnOpen : r.h # h}
  /\ hnObClosed' = hnObClosed \cup {h}
  /\ UNCHANGED <<hnIssued, hnRegistryVars, hnProtected, hnWrote, hnGranted>>

HnRegistryStep ==
  \/ \E k \in HnKeys : ZwOpenKey(k) \/ ZwCreateKey(k) \/ ObOpenObjectByName(k)
  \/ \E r \in hnTable, n \in HnNames :
       \/ ZwDeleteValueKey(r, n) \/ ZwQueryValueKey(r, n)
       \/ \E size \in HnSizes : ZwSetValueKey(r, n, size)

HnHandleStep ==
  \/ \E pid \in HnPids, write \in BOOLEAN : ZwOpenProcess(pid, write)
  \/ \E r \in hnOpen : ZwWriteVirtualMemory(r)
  \/ \E pid \in HnPids : HnSetProtection(pid)
  \/ ObOpenObjectByPointer
  \/ \E h \in 1..hnIssued : ObDuplicateObject(h) \/ ZwClose(h) \/ ObCloseHandle(h)

HnNext == HnRegistryStep \/ HnHandleStep
HnSpec == HnInit /\ [][HnNext]_hnVars

-----------------------------------------------------------------------------
\* Keys the simulator made up itself.
HnMadeUp == hnAuto \cup hnUnlisted

HnTypeOK ==
  /\ hnIssued \in 0..HnMaxHandles
  /\ \A r \in hnTable \cup hnOpen : r.h \in 1..hnIssued
  /\ hnKeys \subseteq HnKeys /\ HnMadeUp \subseteq hnKeys /\ Len(hnLog) <= HnLogLimit
  /\ hnVal \in [HnKeys -> [HnNames -> HnSizes \cup {0, HnSynth}]]
  /\ hnStray \subseteq HnKeys \X HnNames

\* Where the log is about a value, and where it was last.
HnAbout(k, n) == {i \in DOMAIN hnLog : hnLog[i].key = k /\ hnLog[i].name = n}
HnLast(k, n) == {i \in HnAbout(k, n) : \A j \in HnAbout(k, n) : j <= i}

HnCreated == {hnLog[i].key : i \in {j \in DOMAIN hnLog : hnLog[j].op = "create"}}

(* Until it is full, the write log tells what the driver did to the registry: a  *)
(* value a driver set is in the log with the size it has now, and one the log    *)
(* has as deleted is not there unless it was made up since.  The exceptions are   *)
(* values set through a spelling that ObOpenObjectByName gave: nobody made that   *)
(* key, another spelling of it is the key.  Every key is seeded, logged as       *)
(* created, made up or above one made up; and a key made up is listed as such    *)
(* unless that list is full.                                                    *)
HnLogTells ==
  Len(hnLog) < HnLogLimit =>
    /\ \A k \in HnKeys, n \in HnNames : <<k, n>> \notin hnStray =>
         \/ \E i \in HnLast(k, n) : hnLog[i].op = "set" /\ hnVal[k][n] = hnLog[i].size
         \/ /\ \A i \in HnLast(k, n) : hnLog[i].op # "set"
            /\ hnVal[k][n] \in {0, HnSynth}
    /\ \A k \in HnKeys, n \in HnNames : <<k, n>> \in hnStray =>
         k \notin HnSeeded \cup HnMadeUp \cup HnCreated /\ HnFound(k) \ {k} # {}
    /\ \A k \in hnKeys \ (HnSeeded \cup HnMadeUp \cup HnCreated) :
         \E a \in HnMadeUp : k \in HnAbove[a]
    /\ hnUnlisted # {} => ~(Cardinality(hnAuto) < HnAutoLimit)

(* No handle that ObCloseHandle closed is left to write with, and every process  *)
(* a driver wrote into by handle was open to it for writing when it was not      *)
(* protected, the one with pid 4 excepted, whatever was protected, closed or     *)
(* duplicated in between.                                                       *)
HnClosedIsClosed ==
  /\ \A r \in hnOpen \cup hnTable : r.h \notin hnObClosed
  /\ hnWrote \subseteq hnGranted \cup {HnSystem}

\* The log and the tables of handles say what the driver did and may do.
HnExact == HnLogTells /\ HnClosedIsClosed
=============================================================================

-------------------------------- MODULE ProcessList --------------------------------
(***************************************************************************)
(* The list of processes: bootstrap and the walks over it in                *)
(* packages/ntsim/src/kernel.mjs, the table of process ids, and the scan of *)
(* packages/ntsim/src/integrity.mjs that compares the list with the         *)
(* processes that were seeded.  The links are guest memory: a driver may    *)
(* write any of them.                                                      *)
(***************************************************************************)
EXTENDS Integers, FiniteSets, SequencesExt

CONSTANTS
  PlProcs,      \* the seeded processes, a sequence
  PlPid,        \* their ids
  PlOther,      \* memory of the driver's that a link can point to
  PlMaxWalk,    \* MAX_PROCESS_WALK, 512 in the code
  PlCidLimit,   \* entries of PspCidTable, 1024 in the code
  PlMaxPatches  \* bound: writes of the driver

ASSUME PlAssumption ==
  /\ PlProcs \in Seq(ToSet(PlProcs)) \ {<<>>} /\ IsInjective(PlProcs) /\ Len(PlProcs) < PlMaxWalk
  /\ PlMaxWalk \in Nat /\ PlMaxPatches \in Nat
  /\ PlPid \in [ToSet(PlProcs) -> Nat \ {0}]
  /\ IsFiniteSet(PlOther) /\ PlOther \cap ToSet(PlProcs) = {}
  /\ {"head", "null"} \cap (PlOther \cup ToSet(PlProcs)) = {}

VARIABLES
  plFlink, plBlink,  \* the links of every node
  plCid,             \* PspCidTable: what its entries hold, <<>> before it is made
  plPatches          \* writes so far

plVars == <<plFlink, plBlink, plCid, plPatches>>

-----------------------------------------------------------------------------
PlHead == "head"
PlNull == "null"
PlSeeded == ToSet(PlProcs)
PlNodes == {PlHead} \cup PlSeeded \cup PlOther

\* Memory nobody wrote reads as zero.
PlNext(n) == IF n = PlNull THEN PlNull ELSE plFlink[n]
PlPrev(n) == IF n = PlNull THEN PlNull ELSE plBlink[n]

\* bootstrap: a ring through the head.
PlInit ==
  LET ring == <<PlHead>> \o PlProcs \o <<PlHead>>
      at(n) == CHOOSE i \in 1..Len(PlProcs) + 1 : ring[i] = n
      before(n) == IF n = PlHead THEN Last(PlProcs) ELSE ring[at(n) - 1]
      own == PlNodes \ PlOther
  IN /\ plFlink = [n \in PlNodes |-> IF n \in own THEN ring[at(n) + 1] ELSE PlNull]
     /\ plBlink = [n \in PlNodes |-> IF n \in own THEN before(n) ELSE PlNull]
     /\ plCid = <<>> /\ plPatches = 0

-----------------------------------------------------------------------------
(* What a driver does to the links.                                         *)

PlPatched ==
  /\ plPatches < PlMaxPatches
  /\ plPatches' = plPatches + 1
  /\ UNCHANGED plCid

PlPatchFlink(n, v) ==
  /\ PlPatched
  /\ plFlink' = [plFlink EXCEPT ![n] = v]
  /\ UNCHANGED plBlink

PlPatchBlink(n, v) ==
  /\ PlPatched
  /\ plBlink' = [plBlink EXCEPT ![n] = v]
  /\ UNCHANGED plFlink

\* A process is taken out, its own links left as they are.
PlUnlink(p) ==
  /\ PlPatched
  /\ PlNext(p) # PlNull /\ PlPrev(p) # PlNull
  /\ plFlink' = [plFlink EXCEPT ![plBlink[p]] = plFlink[p]]
  /\ plBlink' = [plBlink EXCEPT ![plFlink[p]] = plBlink[p]]

\* #createPspCidTable, from the map of names, when a driver first imports it: the
\* entry of an id is at that index, and an id past the table has none.
PlCreateCidTable ==
  /\ plCid = <<>>
  /\ plCid' = [k \in {PlPid[p] : p \in {q \in PlSeeded : PlPid[q] < PlCidLimit}} |->
                 CHOOSE p \in PlSeeded : PlPid[p] = k]
  /\ UNCHANGED <<plFlink, plBlink, plPatches>>

PlStep ==
  \/ \E n \in PlNodes, v \in PlNodes \cup {PlNull} : PlPatchFlink(n, v) \/ PlPatchBlink(n, v)
  \/ \E p \in PlSeeded : PlUnlink(p)
  \/ PlCreateCidTable

PlSpec == PlInit /\ [][PlStep]_plVars

-----------------------------------------------------------------------------
(* The walks.                                                               *)

\* Where findEprocessByPid and listProcesses are after k entries: they go on until
\* the head or a null link.
PlWalked[k \in 0..Cardinality(PlNodes) + 1] ==
  IF k = 0 THEN plFlink[PlHead]
  ELSE LET n == PlWalked[k - 1] IN IF n \in {PlHead, PlNull} THEN n ELSE PlNext(n)

\* Past every node there is, they are in a cycle that the head is not in.
PlHangs == PlWalked[Cardinality(PlNodes) + 1] \notin {PlHead, PlNull}

\* Mutant: the last entry's way back is not compared with the head's.
PlBackOpen(n) == IF PlNext(n) = PlHead THEN n ELSE PlPrev(PlNext(n))

\* The link back from the next entry, or from the head.
PlBack(n) == IF PlNext(n) = PlHead THEN plBlink[PlHead] ELSE PlPrev(PlNext(n))

\* The loop of scanProcessList, after k rounds: it stops at the head, at a null link
\* and at its limit.
PlRound(s) ==
  IF s.at \in {PlHead, PlNull} \/ s.over THEN s
  ELSE LET null == PlNull \in {PlNext(s.at), PlPrev(s.at)}
       IN [at |-> IF null THEN s.at ELSE PlNext(s.at),
           reached |-> s.reached \cup {s.at},
           walked |-> IF null THEN s.walked ELSE s.walked + 1,
           over |-> null]
PlScan[k \in 0..PlMaxWalk] ==
  IF k = 0 THEN [at |-> plFlink[PlHead], reached |-> {}, walked |-> 0, over |-> FALSE]
  ELSE PlRound(PlScan[k - 1])

\* scanProcessList says "ok".
PlScanOk ==
  LET s == PlScan[PlMaxWalk]
  IN /\ s.reached = PlSeeded                          \* none unlinked, none foreign
     /\ ~s.over /\ \A n \in s.reached : PlBack(n) = n  \* no broken links
     /\ s.walked < PlMaxWalk                          \* no cycle

-----------------------------------------------------------------------------
PlTypeOK ==
  /\ plFlink \in [PlNodes -> PlNodes \cup {PlNull}]
  /\ plBlink \in [PlNodes -> PlNodes \cup {PlNull}]
  /\ \A k \in DOMAIN plCid : k < PlCidLimit /\ plCid[k] \in PlSeeded
  /\ plPatches \in 0..PlMaxPatches

\* An order of the processes in which the links are a ring; first says whether the
\* way back from the first process counts.
PlIsRing(s, first) ==
  LET ring == <<PlHead>> \o s \o <<PlHead>>
  IN \A i \in 1..Len(s) + 1 :
       /\ plFlink[ring[i]] = ring[i + 1]
       /\ (i = 1 => first) => plBlink[ring[i + 1]] = ring[i]

PlOrders == {s \in [1..Len(PlProcs) -> PlSeeded] : IsInjective(s)}

\* The scan accepts exactly the lists that are a ring of the seeded processes, in any
\* order, the way back from the first of them being anything but null; and a list on
\* which the walks without a limit never end is not one of them.
PlScanExact ==
  /\ PlScanOk <=> \E s \in PlOrders : PlIsRing(s, FALSE) /\ plBlink[s[1]] # PlNull
  /\ PlHangs => ~PlScanOk

===============================================================================

----------------------------- MODULE KernelsProofs -----------------------------
(***************************************************************************)
(* What TLAPS proves of what the two simulated kernels keep for the code   *)
(* they run. For drivers: the table of exports, the pool and its guards,   *)
(* handles and the registry's log, and the lists, the ring and the tables  *)
(* in guest memory, for every set of names, sizes, keys and entries, and   *)
(* any number of calls. For Linux modules: the rings of io_uring, the      *)
(* calls into module code, the module loader and what a module registers,  *)
(* for every length of the rings, every budget, every file, any number of  *)
(* drives and calls, and every set of structures, handlers and hooks. And  *)
(* of both kernels together, as the instances of MCKernels compose them.   *)
(***************************************************************************)
EXTENDS MCKernels, StackLemmas, FiniteSetTheorems

-----------------------------------------------------------------------------
(***************************************************************************)
(* The exported API surface (ApiTable).                                    *)
(***************************************************************************)

\* A list without repetitions.
AtOnce(list) == \A i, j \in DOMAIN list : list[i] = list[j] => i = j
AtIn(list) == { list[i] : i \in DOMAIN list }

\* What was not in such a list may be appended to it.
LEMMA AtOnceAppended ==
  ASSUME NEW S, NEW list \in Seq(S), NEW n \in S, AtOnce(list), n \notin AtIn(list)
  PROVE  /\ Append(list, n) \in Seq(S) /\ AtOnce(Append(list, n))
         /\ AtIn(Append(list, n)) = AtIn(list) \cup {n}
<1> DEFINE more == Append(list, n)
<1>1. /\ more \in Seq(S) /\ DOMAIN list = 1..Len(list) /\ DOMAIN more = 1..(Len(list) + 1)
      /\ Len(list) \in Nat /\ more[Len(list) + 1] = n
      /\ \A i \in DOMAIN list : more[i] = list[i]
  BY Appended
<1> HIDE DEF more
<1>2. \A i \in DOMAIN more : i \in DOMAIN list \/ i = Len(list) + 1
  BY <1>1
<1>3. DOMAIN list \subseteq DOMAIN more /\ Len(list) + 1 \in DOMAIN more
  BY <1>1
<1>4. AtIn(more) = AtIn(list) \cup {n}
  BY <1>1, <1>2, <1>3 DEF AtIn
<1>5. AtOnce(more)
  BY <1>1, <1>2 DEF AtOnce, AtIn
<1> QED  BY <1>1, <1>4, <1>5 DEF more

\* It has each of its names once.
LEMMA AtOnceCounts ==
  ASSUME NEW S, NEW list \in Seq(S), AtOnce(list), NEW n
  PROVE  AtCount(list, n) = IF n \in AtIn(list) THEN 1 ELSE 0
<1> DEFINE places == { i \in DOMAIN list : list[i] = n }
<1>1. CASE n \in AtIn(list)
  <2>1. PICK i \in DOMAIN list : list[i] = n
    BY <1>1 DEF AtIn
  <2>2. places = {i}
    BY <2>1 DEF AtOnce
  <2> QED  BY <1>1, <2>2, FS_Singleton DEF AtCount
<1>2. CASE n \notin AtIn(list)
  <2>1. places = {}
    BY <1>2 DEF AtIn
  <2> QED  BY <1>2, <2>1, FS_EmptySet DEF AtCount
<1> QED  BY <1>1, <1>2

-----------------------------------------------------------------------------
\* Every name of the reports has a thunk, is in one list, and once.
AtListsInv ==
  /\ DOMAIN atImpl \subseteq AtExports /\ DOMAIN atBytes = DOMAIN atImpl /\ atSlots \subseteq AtData
  /\ atUnmodeled \in Seq(AtExports) /\ atShallow \in Seq(AtExports)
  /\ AtOnce(atUnmodeled) /\ AtOnce(atShallow)
  /\ AtIn(atUnmodeled) \cup AtIn(atShallow) \subseteq DOMAIN atImpl
  /\ AtIn(atUnmodeled) \cap AtIn(atShallow) = {}
  /\ \A n \in DOMAIN atImpl : /\ atImpl[n] = "stub" => n \in AtIn(atUnmodeled)
                              /\ atImpl[n] = "shallow" => n \in AtIn(atShallow)
                              /\ atImpl[n] = "default" =>
                                   n \notin AtIn(atUnmodeled) /\ n \notin AtIn(atShallow)

\* The prologues tell the detours.
AtDetoursInv ==
  /\ atServices \in Seq(AtExports) /\ AtServed \subseteq DOMAIN atImpl
  /\ Len(atServices) <= AtTableLimit
  /\ DOMAIN atDetours \subseteq DOMAIN atImpl
  /\ \A n \in DOMAIN atImpl : isDetoured(n) <=> n \in DOMAIN atDetours
  /\ \A n \in DOMAIN atDetours : atDetours[n] \in AtNear => atBytes[n] = atDetours[n]

\* What RAX may hold.
AtResults == {"own", "guest", "ok", "failed"}
AtFrame == [name : AtExports, rsp : 1..AtMaxRsp, rax : AtResults]
AtEndedCall == [name : AtExports, result : AtResults, before : AtResults, after : AtResults,
                moved : Int]

AtCallsInv ==
  /\ atCalls \in Seq(AtFrame) /\ Len(atCalls) <= AtMaxDepth
  /\ atRsp \in 0..AtMaxRsp /\ atRax \in AtResults /\ atAt \in {"host", "guest"}
  /\ atTrace \in Seq([name : AtExports, ret : AtResults \cup {"none"}])
  /\ atEnded \in Seq(AtEndedCall)
  /\ AtFramesKept /\ AtCallsReturn

AtInv == AtListsInv /\ AtDetoursInv /\ AtCallsInv

LEMMA AtInvInit == AtInit => AtInv
<1> SUFFICES ASSUME AtInit
             PROVE  AtInv
  OBVIOUS
<1>1. AtListsInv
  BY EmptySeq DEF AtInit, AtListsInv, AtExports, AtNames, AtOnce, AtIn
<1>2. AtDetoursInv
  BY AtAssumption DEF AtInit, AtDetoursInv, AtServed, isDetoured
<1>3. AtCallsInv
  BY AtAssumption DEF AtInit, AtCallsInv, AtFramesKept, AtCallsReturn, AtResults
<1> QED  BY <1>1, <1>2, <1>3 DEF AtInv

\* A thunk for a name that has none is pristine, and one that is there is left alone.
LEMMA AtDefinedStep ==
  ASSUME AtInv, NEW n \in AtExports, NEW impl, AtDefined(n, impl),
         UNCHANGED <<atServices, atDetours>>
  PROVE  /\ DOMAIN atImpl' = DOMAIN atImpl \cup {n} /\ DOMAIN atBytes' = DOMAIN atImpl'
         /\ atImpl'[n] = impl /\ \A m \in DOMAIN atImpl : m # n => atImpl'[m] = atImpl[m]
         /\ AtDetoursInv'
<1>1. /\ DOMAIN atImpl' = DOMAIN atImpl \cup {n}
      /\ \A m \in DOMAIN atImpl' : atImpl'[m] = IF m = n THEN impl ELSE atImpl[m]
  BY DEF AtDefined, AtWith
<1>2. /\ DOMAIN atBytes' = DOMAIN atImpl'
      /\ \A m \in DOMAIN atBytes' : atBytes'[m] = IF m \in DOMAIN atImpl THEN atBytes[m] ELSE "hlt"
  BY <1>1 DEF AtDefined, AtWith, AtInv, AtListsInv
<1>3. AtDetoursInv'
  BY <1>1, <1>2 DEF AtInv, AtDetoursInv, AtServed, isDetoured
<1> QED  BY <1>1, <1>2, <1>3

LEMMA AtProvisionStep ==
  ASSUME AtInv, NEW n \in AtExports,
         provisionUnknownApi(n), UNCHANGED <<atSlots, atServices, atDetours>>
  PROVE  AtListsInv' /\ AtDetoursInv'
<1>1. CASE n \in DOMAIN atImpl
  BY <1>1 DEF provisionUnknownApi, AtInv, AtListsInv, AtDetoursInv, AtServed, isDetoured
<1>2. CASE n \notin DOMAIN atImpl
  <2>1. atUnmodeled' = Append(atUnmodeled, n) /\ AtDefined(n, "stub") /\ UNCHANGED atShallow
    BY <1>2 DEF provisionUnknownApi
  <2>2. n \in AtExports /\ n \notin AtIn(atUnmodeled) /\ n \notin AtIn(atShallow)
    BY <1>2 DEF AtInv, AtListsInv
  <2>3. /\ DOMAIN atImpl' = DOMAIN atImpl \cup {n} /\ DOMAIN atBytes' = DOMAIN atImpl'
        /\ atImpl'[n] = "stub" /\ \A m \in DOMAIN atImpl : m # n => atImpl'[m] = atImpl[m]
        /\ AtDetoursInv'
    BY <2>1, <2>2, AtDefinedStep
  <2>4. /\ atUnmodeled' \in Seq(AtExports) /\ AtOnce(atUnmodeled')
        /\ AtIn(atUnmodeled') = AtIn(atUnmodeled) \cup {n}
    BY <2>1, <2>2, AtOnceAppended DEF AtInv, AtListsInv
  <2> QED  BY <2>1, <2>2, <2>3, <2>4 DEF AtInv, AtListsInv
<1> QED  BY <1>1, <1>2

LEMMA AtImportStep ==
  ASSUME AtInv, NEW n \in AtShallowSet \cup AtUnknown \cup AtData, AtResolveImport(n),
         UNCHANGED <<atServices, atDetours>>
  PROVE  AtListsInv' /\ AtDetoursInv'
<1>1. CASE n \in DOMAIN atImpl
  BY <1>1 DEF AtResolveImport, AtInv, AtListsInv, AtDetoursInv, AtServed, isDetoured
<1>2. CASE n \notin DOMAIN atImpl /\ n \in AtData
  BY <1>2 DEF AtResolveImport, AtInv, AtListsInv, AtDetoursInv, AtServed, isDetoured
<1>3. CASE n \notin DOMAIN atImpl /\ n \notin AtData /\ n \in AtShallowSet
  <2>1. /\ atShallow' = Append(atShallow, n) /\ AtDefined(n, "shallow")
        /\ UNCHANGED <<atUnmodeled, atSlots>>
    BY <1>3 DEF AtResolveImport
  <2>2. n \in AtExports /\ n \notin AtIn(atUnmodeled) /\ n \notin AtIn(atShallow)
    BY <1>3 DEF AtInv, AtListsInv, AtExports, AtNames
  <2>3. /\ DOMAIN atImpl' = DOMAIN atImpl \cup {n} /\ DOMAIN atBytes' = DOMAIN atImpl'
        /\ atImpl'[n] = "shallow" /\ \A m \in DOMAIN atImpl : m # n => atImpl'[m] = atImpl[m]
        /\ AtDetoursInv'
    BY <2>1, <2>2, AtDefinedStep
  <2>4. /\ atShallow' \in Seq(AtExports) /\ AtOnce(atShallow')
        /\ AtIn(atShallow') = AtIn(atShallow) \cup {n}
    BY <2>1, <2>2, AtOnceAppended DEF AtInv, AtListsInv
  <2> QED  BY <2>1, <2>2, <2>3, <2>4 DEF AtInv, AtListsInv
<1>4. CASE n \notin DOMAIN atImpl /\ n \notin AtData /\ n \notin AtShallowSet
  BY <1>4, AtProvisionStep DEF AtResolveImport, AtExports, AtNames
<1> QED  BY <1>1, <1>2, <1>3, <1>4

LEMMA AtDetourStep ==
  ASSUME AtInv, NEW n \in DOMAIN atImpl, NEW target \in AtTargets, installDetour(n, target)
  PROVE  AtListsInv' /\ AtDetoursInv'
<1>1. AtListsInv'
  BY DEF installDetour, AtInv, AtListsInv
<1>2. /\ DOMAIN atBytes' = DOMAIN atImpl /\ DOMAIN atDetours' = DOMAIN atDetours \cup {n}
      /\ atBytes'[n] = IF target \in AtNear THEN target ELSE "elsewhere"
      /\ atDetours'[n] = target
      /\ \A m \in DOMAIN atImpl : m # n => atBytes'[m] = atBytes[m]
      /\ \A m \in DOMAIN atDetours : m # n => atDetours'[m] = atDetours[m]
  BY DEF installDetour, AtInv, AtListsInv, AtWith
<1>3. atBytes'[n] # "hlt"
  BY <1>2, AtAssumption
<1> QED  BY <1>1, <1>2, <1>3 DEF AtInv, AtDetoursInv, AtServed, isDetoured, installDetour

LEMMA AtRepairStep ==
  ASSUME AtInv, NEW names, AtRepair(names)
  PROVE  AtListsInv' /\ AtDetoursInv'
<1>1. AtListsInv'
  BY DEF AtRepair, AtInv, AtListsInv
<1>2. /\ DOMAIN atBytes' = DOMAIN atImpl /\ DOMAIN atDetours' = DOMAIN atDetours \ names
      /\ \A m \in DOMAIN atImpl : atBytes'[m] = IF m \in names THEN "hlt" ELSE atBytes[m]
      /\ \A m \in DOMAIN atDetours' : atDetours'[m] = atDetours[m]
  BY DEF AtRepair, AtInv, AtListsInv
<1> QED  BY <1>1, <1>2 DEF AtInv, AtDetoursInv, AtServed, isDetoured, AtRepair

\* A service more, of a name that has a thunk or gets one.
LEMMA AtServiceAppended ==
  ASSUME AtInv, NEW n \in AtExports, Len(atServices) < AtTableLimit,
         atServices' = Append(atServices, n)
  PROVE  /\ atServices' \in Seq(AtExports) /\ AtServed' = AtServed \cup {n}
         /\ Len(atServices') <= AtTableLimit
<1>1. atServices \in Seq(AtExports)
  BY DEF AtInv, AtDetoursInv
<1>2. /\ atServices' \in Seq(AtExports) /\ DOMAIN atServices' = 1..(Len(atServices) + 1)
      /\ DOMAIN atServices = 1..Len(atServices) /\ Len(atServices') = Len(atServices) + 1
      /\ atServices'[Len(atServices) + 1] = n /\ Len(atServices) \in Nat
      /\ \A i \in DOMAIN atServices : atServices'[i] = atServices[i]
  BY <1>1, Appended
<1>3. \A i \in DOMAIN atServices' : i \in DOMAIN atServices \/ i = Len(atServices) + 1
  BY <1>2
<1>4. DOMAIN atServices \subseteq DOMAIN atServices' /\ Len(atServices) + 1 \in DOMAIN atServices'
  BY <1>2
<1>5. AtServed' = AtServed \cup {n}
  BY <1>2, <1>3, <1>4 DEF AtServed
<1> QED  BY <1>2, <1>5, AtAssumption

LEMMA AtServedStep ==
  ASSUME AtInv, NEW n \in DOMAIN atImpl, Len(atServices) < AtTableLimit,
         atServices' = Append(atServices, n),
         UNCHANGED <<atImpl, atBytes, atSlots, atShallow, atUnmodeled, atDetours>>
  PROVE  AtListsInv' /\ AtDetoursInv'
<1>1. n \in AtExports /\ AtListsInv'
  BY DEF AtInv, AtListsInv
<1>2. /\ atServices' \in Seq(AtExports) /\ AtServed' = AtServed \cup {n}
      /\ Len(atServices') <= AtTableLimit
  BY <1>1, AtServiceAppended
<1> QED  BY <1>1, <1>2 DEF AtInv, AtDetoursInv, isDetoured

LEMMA AtServiceStep ==
  ASSUME AtInv, NEW n \in AtExports, NEW impl \in {"model", "default"}, AtAddService(n, impl)
  PROVE  AtListsInv' /\ AtDetoursInv'
<1>1. CASE n \in DOMAIN atImpl
  BY <1>1, AtServedStep DEF AtAddService
<1>2. CASE n \notin DOMAIN atImpl
  <2>1. /\ AtDefined(n, impl) /\ UNCHANGED <<atUnmodeled, atShallow, atSlots, atDetours>>
    BY <1>2 DEF AtAddService
  <2>2. n \notin AtIn(atUnmodeled) /\ n \notin AtIn(atShallow)
    BY <1>2 DEF AtInv, AtListsInv
  <2>3. /\ DOMAIN atImpl' = DOMAIN atImpl \cup {n} /\ atImpl'[n] = impl
        /\ \A m \in DOMAIN atImpl : m # n => atImpl'[m] = atImpl[m]
        /\ DOMAIN atBytes' = DOMAIN atImpl'
        /\ \A m \in DOMAIN atBytes' :
              atBytes'[m] = IF m \in DOMAIN atImpl THEN atBytes[m] ELSE "hlt"
    BY <2>1 DEF AtDefined, AtWith, AtInv, AtListsInv
  <2>4. AtListsInv'
    BY <2>1, <2>2, <2>3 DEF AtInv, AtListsInv
  <2>5. /\ atServices' \in Seq(AtExports) /\ AtServed' = AtServed \cup {n}
        /\ Len(atServices') <= AtTableLimit
    BY AtServiceAppended DEF AtAddService
  <2>6. AtDetoursInv'
    BY <1>2, <2>1, <2>3, <2>5 DEF AtInv, AtDetoursInv, isDetoured
  <2> QED  BY <2>4, <2>6
<1> QED  BY <1>1, <1>2

LEMMA AtTableKeeps == AtInv /\ AtTableStep => AtInv'
<1> SUFFICES ASSUME AtInv, AtTableStep
             PROVE  AtInv'
  OBVIOUS
<1>1. ASSUME NEW n \in AtShallowSet \cup AtUnknown \cup AtData, AtImport(n)
      PROVE  AtInv'
  <2>1. AtListsInv' /\ AtDetoursInv'
    BY <1>1, AtImportStep DEF AtImport
  <2> QED  BY <1>1, <2>1 DEF AtInv, AtImport, atCallVars, AtCallsInv, AtFramesKept, AtCallsReturn
<1>2. ASSUME NEW n \in AtShallowSet \cup AtUnknown \cup AtData, MmGetSystemRoutineAddress(n)
      PROVE  AtInv'
  <2>1. AtListsInv' /\ AtDetoursInv'
    <3>1. CASE n \in AtData
      BY <1>2, <3>1, AtImportStep DEF MmGetSystemRoutineAddress
    <3>2. CASE n \notin AtData
      BY <1>2, <3>2, AtProvisionStep DEF MmGetSystemRoutineAddress, AtExports, AtNames
    <3> QED  BY <3>1, <3>2
  <2> QED  BY <1>2, <2>1 DEF AtInv, MmGetSystemRoutineAddress, atCallVars, AtCallsInv, AtFramesKept, AtCallsReturn
<1>3. ASSUME NEW n \in DOMAIN atImpl, AtModel(n)
      PROVE  AtInv'
  <2>1. n \in AtExports
    BY DEF AtInv, AtListsInv
  <2>2. /\ DOMAIN atImpl' = DOMAIN atImpl \cup {n} /\ DOMAIN atBytes' = DOMAIN atImpl'
        /\ atImpl'[n] = "model" /\ \A m \in DOMAIN atImpl : m # n => atImpl'[m] = atImpl[m]
        /\ AtDetoursInv'
    BY <1>3, <2>1, AtDefinedStep DEF AtModel
  <2>3. AtListsInv'
    BY <1>3, <2>2 DEF AtModel, AtInv, AtListsInv
  <2> QED  BY <1>3, <2>2, <2>3 DEF AtInv, AtModel, atCallVars, AtCallsInv, AtFramesKept, AtCallsReturn
<1>4. ASSUME NEW n \in AtExports, NEW impl \in {"model", "default"}, AtAddService(n, impl)
      PROVE  AtInv'
  BY <1>4, AtServiceStep DEF AtInv, AtAddService, atCallVars, AtCallsInv, AtFramesKept, AtCallsReturn
<1>5. ASSUME NEW n \in DOMAIN atImpl, NEW target \in AtTargets, installDetour(n, target)
      PROVE  AtInv'
  BY <1>5, AtDetourStep DEF AtInv, installDetour, atCallVars, AtCallsInv, AtFramesKept, AtCallsReturn
<1>6. ASSUME NEW names, AtRepair(names)
      PROVE  AtInv'
  BY <1>6, AtRepairStep DEF AtInv, AtRepair, atCallVars, AtCallsInv, AtFramesKept, AtCallsReturn
<1> QED
  BY <1>1, <1>2, <1>3, <1>4, <1>5, <1>6 DEF AtTableStep

-----------------------------------------------------------------------------
\* A call that ends is added to what ended, and to the trace while that is not full.
LEMMA AtEndStep ==
  ASSUME AtInv, NEW result \in {"ok", "failed"}, AtEnd(result)
  PROVE  AtCallsInv'
<1> USE DEF AtInv, AtCallsInv
<1>1. /\ Len(atCalls) \in Nat \ {0} /\ AtPopped \in Seq(AtFrame) /\ Len(AtPopped) = Len(atCalls) - 1
      /\ AtTop \in AtFrame
  <2>1. atCalls # <<>>
    BY DEF AtEnd
  <2>2. /\ Len(atCalls) \in Nat \ {0} /\ AtPopped \in Seq(AtFrame)
        /\ Len(AtPopped) = Len(atCalls) - 1
    BY <2>1, FrontProperties DEF AtPopped
  <2>3. AtTop \in AtFrame
    BY <2>2, ElementOfSeq DEF AtTop
  <2> QED  BY <2>2, <2>3
<1>2. /\ AtTop.name \in AtExports /\ AtTop.rsp \in 1..AtMaxRsp /\ AtTop.rax \in AtResults
  BY <1>1 DEF AtFrame
<1>3. /\ atCalls' \in Seq(AtFrame) /\ Len(atCalls') <= AtMaxDepth
      /\ atRsp' = AtTop.rsp - 1 /\ atAt' \in {"host", "guest"}
  <2>1. Len(atCalls) \in Nat /\ Len(atCalls) <= AtMaxDepth /\ AtMaxDepth \in Nat
    BY <1>1, AtAssumption
  <2> QED  BY <1>1, <2>1 DEF AtEnd, AtPoppedRsp
<1>g. atRsp' \in 0..AtMaxRsp
  BY <1>2, <1>3, AtAssumption
<1>k. AtFramesKept'
  <2>1. PICK m \in Nat : m = Len(atCalls) /\ m >= 1 /\ DOMAIN atCalls = 1..m
    BY <1>1, LenProperties
  <2>2. DOMAIN atCalls' = 1..(m - 1) /\ \A i \in 1..(m - 1) : atCalls'[i] = atCalls[i]
    <3>1. atCalls' = AtPopped
      BY DEF AtEnd
    <3>2. atCalls # <<>>
      BY DEF AtEnd
    <3>3. Len(AtPopped) = m - 1 /\ \A i \in 1..(m - 1) : AtPopped[i] = atCalls[i]
      BY <2>1, <3>2, FrontProperties DEF AtPopped
    <3>4. DOMAIN AtPopped = 1..(m - 1)
      BY <1>1, <3>3, LenProperties
    <3> QED  BY <3>1, <3>3, <3>4
  <2>3. ASSUME NEW i \in 1..(m - 1)
        PROVE  /\ atCalls[i].rsp <= atRsp'
               /\ \A j \in 1..(m - 1) : i < j => atCalls[i].rsp < atCalls[j].rsp
    <3>1. i \in DOMAIN atCalls /\ m \in DOMAIN atCalls /\ i < m /\ 1..(m - 1) \subseteq DOMAIN atCalls
      BY <2>1
    <3>2. atCalls[i].rsp < atCalls[m].rsp
          /\ \A j \in 1..(m - 1) : i < j => atCalls[i].rsp < atCalls[j].rsp
      BY <3>1 DEF AtFramesKept
    <3>3. atCalls[i] \in AtFrame
      BY <2>1, <3>1, ElementOfSeq
    <3>4. atCalls[i].rsp \in Int /\ atCalls[m].rsp = AtTop.rsp
      BY <2>1, <3>3 DEF AtFrame, AtTop
    <3>5. atCalls[i].rsp <= atRsp'
      <4>1. PICK a \in Int, b \in Int : a = atCalls[i].rsp /\ b = AtTop.rsp
        BY <1>2, <3>4
      <4>2. a < b /\ atRsp' = b - 1
        BY <1>3, <3>2, <3>4, <4>1
      <4> QED  BY <4>1, <4>2
    <3> QED  BY <3>2, <3>5
  <2>4. \A i \in 1..(m - 1) :
          /\ atCalls'[i].rsp <= atRsp'
          /\ \A j \in 1..(m - 1) : i < j => atCalls'[i].rsp < atCalls'[j].rsp
    <3> HIDE DEF AtInv, AtCallsInv
    <3> QED  BY <2>2, <2>3
  <2> HIDE DEF AtInv, AtCallsInv
  <2> QED  BY <2>2, <2>4, Zenon DEF AtFramesKept
<1>4. atRax' \in AtResults /\ atRax' = IF AtTop.name \in AtVoid THEN AtTop.rax ELSE result
  BY <1>2 DEF AtEnd, AtResults
<1> DEFINE call == [name |-> AtTop.name, result |-> result, before |-> AtTop.rax,
                    after |-> atRax', moved |-> AtTop.rsp - atRsp']
           entry == [name |-> AtTop.name, ret |-> IF AtTop.name \in AtVoid THEN "none" ELSE result]
           Entry == [name : AtExports, ret : AtResults \cup {"none"}]
<1>5. call \in AtEndedCall /\ call.moved = 1 /\ call.after = atRax' /\ call.name = AtTop.name
      /\ call.before = AtTop.rax /\ call.result = result
  <2>1. AtTop.rsp - atRsp' = 1
    BY <1>2, AtAssumption DEF AtEnd, AtPoppedRsp
  <2> QED  BY <1>2, <1>4, <2>1 DEF AtEndedCall, AtResults
<1>6. /\ entry \in Entry /\ entry.name = call.name
      /\ entry.name \notin AtVoid => entry.ret = call.result
  BY <1>2, <1>5 DEF AtResults
<1>7. /\ atTrace' = IF Len(atTrace) < AtLimit THEN Append(atTrace, entry) ELSE atTrace
      /\ atEnded' = IF Len(atEnded) <= AtLimit THEN Append(atEnded, call) ELSE atEnded
  BY DEF AtEnd
<1>8. call.after = IF call.name \in AtVoid THEN call.before ELSE call.result
  BY <1>4, <1>5
<1> HIDE DEF call, entry, AtInv, AtCallsInv
<1>h. Len(atTrace) \in Nat /\ Len(atEnded) \in Nat /\ AtLimit \in Nat
  BY AtAssumption, LenProperties DEF AtInv, AtCallsInv
<1>9. /\ atTrace \in Seq(Entry) /\ atEnded \in Seq(AtEndedCall)
      /\ DOMAIN atTrace = 1..Len(atTrace) /\ DOMAIN atEnded = 1..Len(atEnded)
  BY LenProperties DEF AtInv, AtCallsInv
<1>f. Len(atTrace) = IF Len(atEnded) < AtLimit THEN Len(atEnded) ELSE AtLimit
  BY DEF AtInv, AtCallsInv, AtFramesKept, AtCallsReturn
<1>a. /\ Append(atEnded, call) \in Seq(AtEndedCall)
      /\ Len(Append(atEnded, call)) = Len(atEnded) + 1
      /\ DOMAIN Append(atEnded, call) = 1..(Len(atEnded) + 1)
      /\ Append(atEnded, call)[Len(atEnded) + 1] = call
      /\ \A i \in DOMAIN atEnded : Append(atEnded, call)[i] = atEnded[i]
  BY <1>5, <1>9, Appended
<1>b. /\ Append(atTrace, entry) \in Seq(Entry)
      /\ Len(Append(atTrace, entry)) = Len(atTrace) + 1
      /\ DOMAIN Append(atTrace, entry) = 1..(Len(atTrace) + 1)
      /\ Append(atTrace, entry)[Len(atTrace) + 1] = entry
      /\ \A i \in DOMAIN atTrace : Append(atTrace, entry)[i] = atTrace[i]
  BY <1>6, <1>9, Appended
<1>c. CASE Len(atTrace) < AtLimit
  <2>1. Len(atEnded) = Len(atTrace) /\ Len(atEnded) < AtLimit
    BY <1>h, <1>f, <1>c
  <2>2. atTrace' = Append(atTrace, entry) /\ atEnded' = Append(atEnded, call)
    BY <1>7, <1>h, <1>c, <2>1
  <2>3. AtCallsReturn'
    BY <1>5, <1>6, <1>8, <1>9, <1>h, <1>a, <1>b, <2>1, <2>2 DEF AtInv, AtCallsInv, AtFramesKept, AtCallsReturn
  <2> QED  BY <1>3, <1>4, <1>a, <1>b, <1>g, <1>k, <2>2, <2>3 DEF AtCallsInv
<1>d. CASE ~(Len(atTrace) < AtLimit) /\ Len(atEnded) <= AtLimit
  <2>1. Len(atEnded) = AtLimit /\ Len(atTrace) = AtLimit
    BY <1>h, <1>f, <1>d
  <2>2. atTrace' = atTrace /\ atEnded' = Append(atEnded, call)
    BY <1>7, <1>h, <1>d, <2>1
  <2>3. AtCallsReturn'
    BY <1>5, <1>8, <1>9, <1>h, <1>a, <2>1, <2>2 DEF AtInv, AtCallsInv, AtFramesKept, AtCallsReturn
  <2> QED  BY <1>3, <1>4, <1>9, <1>h, <1>a, <1>g, <1>k, <2>2, <2>3 DEF AtCallsInv
<1>e. CASE ~(Len(atTrace) < AtLimit) /\ ~(Len(atEnded) <= AtLimit)
  <2>1. atTrace' = atTrace /\ atEnded' = atEnded
    BY <1>7, <1>h, <1>e
  <2> QED  BY <1>3, <1>4, <1>9, <1>g, <1>k, <2>1 DEF AtInv, AtCallsInv, AtFramesKept, AtCallsReturn
<1> QED  BY <1>c, <1>d, <1>e

LEMMA AtCallKeeps == AtInv /\ AtCallStep => AtInv'
<1> SUFFICES ASSUME AtInv, AtCallStep
             PROVE  AtInv'
  OBVIOUS
<1>1. UNCHANGED atTableVars
  BY DEF AtCallStep, AtCallGuest, AtGuestReturns, AtThrows, AtCall, AtEnd
<1>2. AtListsInv' /\ AtDetoursInv'
  BY <1>1 DEF atTableVars, AtInv, AtListsInv, AtDetoursInv, AtServed, isDetoured
<1>3. AtCallsInv'
  <2>1. CASE AtCallGuest
    <3>1. /\ atRsp' = atRsp + 1 /\ atRsp \in Nat /\ atRsp' \in 0..AtMaxRsp
          /\ UNCHANGED <<atCalls, atRax, atTrace, atEnded>> /\ atAt' = "guest"
      BY <2>1, AtAssumption DEF AtCallGuest, AtInv, AtCallsInv
    <3>2. ASSUME NEW i \in DOMAIN atCalls
          PROVE  atCalls[i].rsp <= atRsp'
      <4>1. atCalls[i].rsp <= atRsp /\ atCalls[i] \in AtFrame
        BY LenProperties, ElementOfSeq DEF AtInv, AtCallsInv, AtFramesKept
      <4>2. atCalls[i].rsp \in Nat
        BY <4>1, AtAssumption DEF AtFrame
      <4> QED  BY <3>1, <4>1, <4>2
    <3>3. AtFramesKept'
      BY <3>1, <3>2 DEF AtInv, AtCallsInv, AtFramesKept
    <3> QED  BY <3>1, <3>3 DEF AtInv, AtCallsInv, AtCallsReturn
  <2>2. CASE AtGuestReturns
    BY <2>2 DEF AtGuestReturns, AtInv, AtCallsInv, AtFramesKept, AtCallsReturn, AtResults
  <2>3. ASSUME NEW n \in DOMAIN atCalls, AtThrows(n)
        PROVE  AtCallsInv'
    <3>1. /\ atCalls \in Seq(AtFrame) /\ Len(atCalls) \in Nat /\ n \in 1..Len(atCalls)
          /\ DOMAIN atCalls = 1..Len(atCalls) /\ Len(atCalls) <= AtMaxDepth
      BY LenProperties DEF AtInv, AtCallsInv
    <3>2. /\ atCalls' \in Seq(AtFrame) /\ Len(atCalls') = n - 1 /\ DOMAIN atCalls' = 1..(n - 1)
          /\ \A i \in 1..(n - 1) : atCalls'[i] = atCalls[i]
      <4>1. n - 1 \in 0..Len(atCalls)
        BY <3>1
      <4>2. atCalls' = SubSeq(atCalls, 1, n - 1)
        BY <2>3 DEF AtThrows
      <4>3. /\ atCalls' \in Seq(AtFrame) /\ Len(atCalls') = n - 1
            /\ \A i \in 1..(n - 1) : atCalls'[i] = atCalls[i]
        BY <3>1, <4>1, <4>2, PrefixProperties
      <4> QED  BY <4>3, LenProperties
    <3>3. AtFramesKept'
      <4>1. \A i \in 1..(n - 1) : i \in DOMAIN atCalls
        BY <3>1
      <4>2. atRsp' = atRsp
        BY <2>3 DEF AtThrows
      <4> QED  BY <3>2, <4>1, <4>2 DEF AtInv, AtCallsInv, AtFramesKept
    <3>4. Len(atCalls') <= AtMaxDepth
      BY <3>1, <3>2, AtAssumption
    <3> QED  BY <2>3, <3>2, <3>3, <3>4 DEF AtThrows, AtInv, AtCallsInv, AtCallsReturn
  <2>4. ASSUME NEW n \in DOMAIN atImpl, AtCall(n)
        PROVE  AtCallsInv'
    <3>1. [name |-> n, rsp |-> atRsp + 1, rax |-> atRax] \in AtFrame
      BY <2>4, AtAssumption DEF AtCall, AtInv, AtListsInv, AtCallsInv, AtFrame
    <3>2. atCalls' \in Seq(AtFrame) /\ Len(atCalls') <= AtMaxDepth
      <4>1. atCalls' = Append(atCalls, [name |-> n, rsp |-> atRsp + 1, rax |-> atRax])
        BY <2>4 DEF AtCall
      <4> QED  BY <2>4, <3>1, <4>1, Appended, AtAssumption DEF AtCall, AtInv, AtCallsInv
    <3>3. AtFramesKept'
      <4>1. PICK c : c = [name |-> n, rsp |-> atRsp + 1, rax |-> atRax]
        OBVIOUS
      <4>2. c \in AtFrame /\ c.rsp = atRsp + 1 /\ atCalls \in Seq(AtFrame) /\ atRsp \in Nat
            /\ atRsp' = atRsp + 1 /\ atCalls' = Append(atCalls, c)
        BY <2>4, <3>1, <4>1, AtAssumption DEF AtCall, AtInv, AtCallsInv
      <4>3. PICK m \in Nat : m = Len(atCalls)
        BY <4>2, LenProperties
      <4>4. /\ DOMAIN atCalls = 1..m /\ DOMAIN atCalls' = 1..(m + 1) /\ atCalls'[m + 1] = c
            /\ \A i \in 1..m : atCalls'[i] = atCalls[i]
        BY <4>2, <4>3, Appended
      <4>5. \A i \in 1..m : atCalls[i].rsp \in Int
        <5>1. \A i \in 1..m : atCalls[i] \in AtFrame
          BY <4>2, <4>3, <4>4, ElementOfSeq
        <5> QED  BY <5>1 DEF AtFrame
      <4>6. \A i \in 1..m : /\ atCalls[i].rsp <= atRsp
                            /\ \A j \in 1..m : i < j => atCalls[i].rsp < atCalls[j].rsp
        BY <4>4 DEF AtInv, AtCallsInv, AtFramesKept
      <4>7. \A i \in 1..(m + 1) : i \in 1..m \/ i = m + 1
        BY <4>3
      <4>8. ASSUME NEW i \in 1..(m + 1)
            PROVE  /\ atCalls'[i].rsp <= atRsp'
                   /\ \A j \in 1..(m + 1) : i < j => atCalls'[i].rsp < atCalls'[j].rsp
        <5>1. CASE i = m + 1
          <6>1. \A j \in 1..(m + 1) : ~(i < j)
            BY <4>3, <5>1
          <6> QED  BY <4>2, <4>4, <5>1, <6>1
        <5>2. CASE i \in 1..m
          <6>1. atCalls'[i].rsp = atCalls[i].rsp /\ atCalls[i].rsp < atRsp + 1
            BY <4>2, <4>4, <4>5, <4>6, <5>2
          <6>2. ASSUME NEW j \in 1..(m + 1), i < j
                PROVE  atCalls'[i].rsp < atCalls'[j].rsp
            <7>1. CASE j = m + 1
              BY <4>2, <4>4, <6>1, <7>1
            <7>2. CASE j \in 1..m
              BY <4>4, <4>6, <5>2, <6>1, <6>2, <7>2
            <7> QED  BY <4>7, <7>1, <7>2
          <6>3. atCalls'[i].rsp <= atRsp'
            BY <4>2, <4>5, <5>2, <6>1
          <6> QED  BY <6>2, <6>3
        <5> QED  BY <4>7, <5>1, <5>2
      <4> QED  BY <4>4, <4>8, Zenon DEF AtFramesKept
    <3> QED
      BY <2>4, <3>2, <3>3, AtAssumption DEF AtCall, AtInv, AtCallsInv, AtFramesKept, AtCallsReturn
  <2> QED  BY <2>1, <2>2, <2>3, <2>4, AtEndStep DEF AtCallStep
<1> QED  BY <1>2, <1>3 DEF AtInv

LEMMA AtInvNext == AtInv /\ [AtNext]_atVars => AtInv'
<1>1. CASE UNCHANGED atVars
  BY <1>1 DEF atVars, atTableVars, atCallVars, AtInv, AtListsInv, AtDetoursInv, AtCallsInv,
     AtFramesKept, AtCallsReturn, AtServed, isDetoured
<1> QED  BY <1>1, AtTableKeeps, AtCallKeeps DEF AtNext

-----------------------------------------------------------------------------
\* What the reports say follows.
LEMMA AtInvTells == AtInv => AtReportsTrue
<1> SUFFICES ASSUME AtInv
             PROVE  AtReportsTrue
  OBVIOUS
<1>1. AtListsHonest
  <2> SUFFICES ASSUME NEW n \in DOMAIN atImpl
               PROVE  /\ AtCount(atUnmodeled, n) + AtCount(atShallow, n) <= 1
                      /\ atImpl[n] = "stub" => AtCount(atUnmodeled, n) = 1
                      /\ atImpl[n] = "shallow" => AtCount(atShallow, n) = 1
                      /\ atImpl[n] = "default" =>
                           AtCount(atUnmodeled, n) = 0 /\ AtCount(atShallow, n) = 0
    BY DEF AtListsHonest
  <2>1. AtCount(atUnmodeled, n) = IF n \in AtIn(atUnmodeled) THEN 1 ELSE 0
    BY AtOnceCounts DEF AtInv, AtListsInv
  <2>2. AtCount(atShallow, n) = IF n \in AtIn(atShallow) THEN 1 ELSE 0
    BY AtOnceCounts DEF AtInv, AtListsInv
  <2> QED  BY <2>1, <2>2 DEF AtInv, AtListsInv
<1>2. AtScanTells
  <2>1. \A n \in AtServed : isDetoured(n) <=> n \in DOMAIN atDetours
    BY DEF AtInv, AtDetoursInv
  <2>2. { atServices[h.index] : h \in scanHooks } = { atServices[i] : i \in AtHooked }
    <3>1. ASSUME NEW h \in scanHooks
          PROVE  h.index \in AtHooked
      BY DEF scanHooks
    <3>2. ASSUME NEW i \in AtHooked
          PROVE  \E h \in scanHooks : h.index = i
      <4>1. [index |-> i, name |-> atServices[i], target |-> atBytes[atServices[i]]] \in scanHooks
        BY DEF scanHooks
      <4> QED  BY <4>1
    <3> HIDE DEF scanHooks
    <3> QED  BY <3>1, <3>2
  <2>3. { atServices[i] : i \in AtHooked } = AtServed \cap DOMAIN atDetours
    BY <2>1 DEF AtHooked, AtServed
  <2>4. ASSUME NEW h \in scanHooks, atDetours[h.name] \in AtNear
        PROVE  h.target = atDetours[h.name]
    <3>1. PICK i \in AtHooked : /\ h.name = atServices[i] /\ h.target = atBytes[atServices[i]]
      BY DEF scanHooks
    <3>2. h.name \in DOMAIN atDetours
      BY <2>1, <3>1 DEF AtHooked, AtServed
    <3> QED  BY <2>4, <3>1, <3>2 DEF AtInv, AtDetoursInv
  <2> QED  BY <2>2, <2>3, <2>4 DEF AtScanTells
<1> QED  BY <1>1, <1>2 DEF AtReportsTrue, AtInv, AtCallsInv

\* Every variable keeps its type.
THEOREM AtTypeCorrect == AtSpec => []AtTypeOK
<1>1. AtInv => AtTypeOK
  BY DEF AtInv, AtListsInv, AtDetoursInv, AtCallsInv, AtTypeOK
<1> QED  BY <1>1, AtInvInit, AtInvNext, PTL DEF AtSpec

\* Through imports, look-ups, service tables, detours, repairs and calls that call the guest
\* in turn and fail at any depth: an export without a model is listed once and for what it is,
\* but for the default of a service table, which no list has; the scan finds the detours there
\* are and where they lead; return addresses stay where callers put them; and the trace has
\* the calls in the order they ended.
THEOREM ReportsTrue == AtSpec => []AtReportsTrue
BY AtInvTells, AtInvInit, AtInvNext, PTL DEF AtSpec

-----------------------------------------------------------------------------
(***************************************************************************)
(* The pool and its guards (Pool).                                         *)
(***************************************************************************)

\* Rounding a size keeps it or adds a cell, below the half of the 32 bits.
LEMMA HpAlignedBounds ==
  ASSUME NEW n \in Nat, n + 1 < HpHalf
  PROVE  HpAligned(n) \in n..(n + 1)
<1> DEFINE m == ((n + 1) \div 2) * 2
<1>1. m \in n..(n + 1)
  OBVIOUS
<1>2. HpHalf \in Nat /\ HpHalf > 0
  BY HpAssumption
<1> HIDE DEF m
<1>3. m % (2 * HpHalf) = m
  <2> DEFINE h == 2 * HpHalf
  <2>1. h \in Nat \ {0} /\ m \in Nat /\ m < h
    BY <1>1, <1>2
  <2> HIDE DEF h
  <2>2. m % h = m
    <3>1. m \div h \in Int /\ m = h * (m \div h) + (m % h) /\ m % h \in 0..(h - 1)
      BY <2>1
    <3>2. m \div h = 0
      BY <2>1
    <3> QED  BY <2>1, <3>1, <3>2
  <2> QED  BY <2>2 DEF h
<1>4. HpSigned(m) = m
  BY <1>1, <1>2, <1>3 DEF HpSigned
<1> QED  BY <1>1, <1>4 DEF HpAligned, m

-----------------------------------------------------------------------------
HpValues == {"none", "magic", "guard", "zero", "data"}
HpBlock == [addr : Nat, size : Nat, freed : BOOLEAN]

\* A block of the pool ends before the next one, or a scenario placed it.
HpOurs(b) ==
  \/ 2 <= b.addr /\ b.addr + b.size + 2 <= hpNext /\ b.addr + b.size + 2 <= HpEnd
  \/ <<b.addr, b.size>> \in HpFixed

\* Two blocks of different addresses, headers and guards included, are apart.
HpApart(b, c) == b.addr < c.addr => b.addr + b.size + 2 <= c.addr - 2

\* A cell of a guard holds the pattern unless the driver wrote it.
HpGuarded(b) == \A c \in HpGuard(b) : hpMem[c] = "guard" \/ c \in hpForeign

HpTyped ==
  /\ hpMem \in [HpAddrs -> HpValues] /\ hpNext \in Nat /\ hpForeign \subseteq HpAddrs
  /\ hpAllocs \in Seq(HpBlock) /\ hpUser \in Seq([addr : Int, size : Int])
  /\ HpAllocated <= HpMaxAllocs
  /\ hpCode \in {"none", "BAD_POOL_CALLER"}
  /\ {hpNt, hpStrict, hpAslr} \subseteq BOOLEAN /\ (hpStrict => hpNt)

HpBlocks ==
  /\ \A i \in DOMAIN hpAllocs : HpOurs(hpAllocs[i]) /\ HpGuarded(hpAllocs[i])
  /\ \A i, k \in DOMAIN hpAllocs : HpApart(hpAllocs[i], hpAllocs[k])

\* Sizes that are rounded as numbers of 32 bits.
HpSmall == \A n \in HpSizes : n + 1 < HpHalf

HpInv == HpTyped /\ HpBlocks

\* Every block is somewhere in the memory there is.
LEMMA HpWithin ==
  ASSUME NEW b \in HpBlock, HpOurs(b)
  PROVE  /\ 2 <= b.addr /\ b.addr + b.size + 2 <= HpCells
         /\ HpGuard(b) \subseteq HpAddrs
<1>1. b.addr \in Nat /\ b.size \in Nat
  BY DEF HpBlock
<1>2. 2 <= b.addr /\ b.addr + b.size + 2 <= HpCells
  <2>1. CASE <<b.addr, b.size>> \in HpFixed
    <3>1. HpEnd + 2 <= b.addr /\ b.addr + b.size + 2 <= HpCells
      BY <2>1, HpAssumption
    <3> QED  BY <1>1, <3>1, HpAssumption
  <2>2. CASE b.addr + b.size + 2 <= HpEnd /\ 2 <= b.addr
    BY <1>1, <2>2, HpAssumption
  <2> QED  BY <2>1, <2>2 DEF HpOurs
<1> QED  BY <1>1, <1>2, HpAssumption DEF HpGuard, HpSpan, HpAddrs

LEMMA HpInvInit == HpInit => HpInv
<1> SUFFICES ASSUME HpInit
             PROVE  HpInv
  OBVIOUS
<1>1. HpAllocated <= HpMaxAllocs
  BY HpAssumption, EmptySeq DEF HpInit, HpAllocated
<1>2. hpAllocs \in Seq(HpBlock) /\ hpUser \in Seq([addr : Int, size : Int])
  BY EmptySeq DEF HpInit
<1>3. hpMem \in [HpAddrs -> HpValues]
  BY DEF HpInit, HpValues
<1>4. hpStrict \in BOOLEAN /\ (hpStrict => hpNt) /\ hpNt \in BOOLEAN /\ hpAslr \in BOOLEAN
  <2>1. hpNt \in BOOLEAN /\ hpAslr \in BOOLEAN /\ (hpStrict = FALSE \/ hpStrict = hpNt)
    BY DEF HpInit
  <2>2. CASE hpStrict = FALSE
    BY <2>1, <2>2
  <2>3. CASE hpStrict = hpNt
    <3>1. hpStrict => hpNt
      BY <2>3, Zenon
    <3>2. hpStrict \in BOOLEAN
      BY <2>1, <2>3, Zenon
    <3> QED  BY <2>1, <3>1, <3>2
  <2> QED  BY <2>1, <2>2, <2>3
<1>5. HpTyped
  BY <1>1, <1>2, <1>3, <1>4 DEF HpInit, HpTyped
<1> QED  BY <1>5 DEF HpInit, HpInv, HpBlocks

\* Marking a block writes its header, its guard, and in between what is given.
LEMMA HpMarkedCells ==
  ASSUME HpTyped, NEW a \in Nat, NEW n \in Nat, NEW value,
         \A c \in HpAddrs : c \in HpSpan(a, n) => value[c] \in HpValues
  PROVE  /\ HpMarked(a, n, value) \in [HpAddrs -> HpValues]
         /\ \A c \in HpAddrs : c \in HpSpan(a + n, 2) => HpMarked(a, n, value)[c] = "guard"
         /\ \A c \in HpAddrs : c \notin HpSpan(a - 2, n + 4) => HpMarked(a, n, value)[c] = hpMem[c]
<1> DEFINE m == HpMarked(a, n, value)
<1>1. \A c \in HpAddrs :
        m[c] = IF c = a - 2 THEN "magic" ELSE IF c \in HpSpan(a + n, 2) THEN "guard"
               ELSE IF c \in HpSpan(a, n) THEN value[c] ELSE hpMem[c]
  BY DEF HpMarked
<1>2. m = [c \in HpAddrs |-> m[c]]
  BY DEF HpMarked
<1> HIDE DEF m
<1>3. \A c \in HpAddrs : m[c] \in HpValues
  BY <1>1 DEF HpTyped, HpValues
<1>4. \A c \in HpAddrs : c \in HpSpan(a + n, 2) => m[c] = "guard"
  <2>1. a - 2 \notin HpSpan(a + n, 2)
    BY DEF HpSpan
  <2> QED  BY <1>1, <2>1
<1>5. \A c \in HpAddrs : c \notin HpSpan(a - 2, n + 4) => m[c] = hpMem[c]
  <2>1. /\ a - 2 \in HpSpan(a - 2, n + 4) /\ HpSpan(a + n, 2) \subseteq HpSpan(a - 2, n + 4)
        /\ HpSpan(a, n) \subseteq HpSpan(a - 2, n + 4)
    BY DEF HpSpan
  <2> QED  BY <1>1, <2>1
<1> QED  BY <1>2, <1>3, <1>4, <1>5 DEF m

\* Blocks of the same extent.
HpSame(b, c) == b.addr = c.addr /\ b.size = c.size

\* The list has one more block; those that were there may have been freed.
HpExtended(b) ==
  /\ hpAllocs' \in Seq(HpBlock) /\ Len(hpAllocs') = Len(hpAllocs) + 1
  /\ \A i \in DOMAIN hpAllocs : HpSame(hpAllocs'[i], hpAllocs[i])
  /\ HpSame(hpAllocs'[Len(hpAllocs) + 1], b)

\* It is as good as the old one when the block is apart from those that were there, its
\* guard is pristine and no other was disturbed.
LEMMA HpListStep ==
  ASSUME HpInv, NEW b \in HpBlock, HpExtended(b),
         hpNext' \in Nat, hpNext <= hpNext', HpOurs(b)',
         \A i \in DOMAIN hpAllocs : HpApart(hpAllocs[i], b) /\ HpApart(b, hpAllocs[i]),
         \A c \in HpGuard(b) : hpMem'[c] = "guard",
         \A i \in DOMAIN hpAllocs : \A c \in HpGuard(hpAllocs[i]) :
           (hpMem'[c] = hpMem[c] /\ (c \in hpForeign => c \in hpForeign')) \/ hpMem'[c] = "guard"
  PROVE  HpBlocks'
<1>1. /\ DOMAIN hpAllocs = 1..Len(hpAllocs) /\ DOMAIN hpAllocs' = 1..(Len(hpAllocs) + 1)
      /\ Len(hpAllocs) \in Nat
  BY LenProperties DEF HpExtended, HpInv, HpTyped
<1>2. ASSUME NEW i \in DOMAIN hpAllocs'
      PROVE  (i \in DOMAIN hpAllocs /\ HpSame(hpAllocs'[i], hpAllocs[i])) \/ HpSame(hpAllocs'[i], b)
  BY <1>1 DEF HpExtended
<1>3. \A i \in DOMAIN hpAllocs : hpAllocs[i].addr \in Nat /\ hpAllocs[i].size \in Nat
  <2>1. \A i \in DOMAIN hpAllocs : hpAllocs[i] \in HpBlock
    BY <1>1, ElementOfSeq DEF HpInv, HpTyped
  <2> QED  BY <2>1 DEF HpBlock
<1>4. ASSUME NEW i \in DOMAIN hpAllocs'
      PROVE  HpOurs(hpAllocs[i])' /\ HpGuarded(hpAllocs[i])'
  <2>1. CASE i \in DOMAIN hpAllocs /\ HpSame(hpAllocs'[i], hpAllocs[i])
    <3>1. HpOurs(hpAllocs[i]) /\ HpGuarded(hpAllocs[i]) /\ hpNext \in Nat
      BY <2>1 DEF HpInv, HpBlocks, HpTyped
    <3>2. HpOurs(hpAllocs[i])'
      BY <1>3, <2>1, <3>1, HpAssumption DEF HpOurs, HpSame
    <3>3. HpGuarded(hpAllocs[i])'
      BY <2>1, <3>1 DEF HpGuarded, HpGuard, HpSame
    <3> QED  BY <3>2, <3>3
  <2>2. CASE HpSame(hpAllocs'[i], b)
    BY <2>2 DEF HpOurs, HpGuarded, HpGuard, HpSame
  <2> QED  BY <1>2, <2>1, <2>2
<1>5. HpApart(b, b)
  BY DEF HpApart, HpBlock
<1>6. \A i, k \in DOMAIN hpAllocs : HpApart(hpAllocs[i], hpAllocs[k])
  BY DEF HpInv, HpBlocks
<1>7. ASSUME NEW i \in DOMAIN hpAllocs', NEW k \in DOMAIN hpAllocs'
      PROVE  HpApart(hpAllocs'[i], hpAllocs'[k])
  BY <1>2, <1>5, <1>6 DEF HpApart, HpSame
<1> QED  BY <1>4, <1>7 DEF HpBlocks

\* A block the pool gives out is apart from all there are.
LEMMA HpPlacedStep ==
  ASSUME HpInv, HpSmall, NEW n \in HpSizes, NEW j \in HpJitters \cup {0}, NEW value,
         \A c \in HpAddrs : value[c] \in HpValues,
         HpPlaced(n, j, value), UNCHANGED <<hpMode, hpUser, hpCode>>,
         HpExtended([addr |-> hpNext + j + 2, size |-> n, freed |-> FALSE])
  PROVE  HpInv'
<1>0. n \in Nat /\ n + 1 < HpHalf /\ j \in Nat /\ hpNext \in Nat
  <2>1. n \in Nat /\ n + 1 < HpHalf /\ hpNext \in Nat
    BY HpAssumption DEF HpSmall, HpInv, HpTyped
  <2>2. HpJitters \subseteq Nat
    BY HpAssumption
  <2> QED  BY <2>1, <2>2
<1>a. PICK a \in Nat : a = hpNext + j + 2
  BY <1>0
<1>b. PICK b : b = [addr |-> a, size |-> n, freed |-> FALSE]
  OBVIOUS
<1>1. /\ n \in Nat /\ n + 1 < HpHalf /\ j \in Nat /\ hpNext \in Nat /\ a \in Nat
      /\ HpEnd \in Nat /\ HpEnd <= HpCells /\ HpCells \in Nat
  BY <1>0, HpAssumption
<1>2. hpNext' \in Nat /\ a + n + 2 <= hpNext' /\ hpNext <= a - 2
  <2>1. HpAligned(n) \in n..(n + 1)
    BY <1>1, HpAlignedBounds
  <2>2. hpNext' = a + HpAligned(n) + 2 + (IF hpAslr THEN 2 ELSE 0)
    BY <1>a DEF HpPlaced
  <2>3. hpNext' \in Nat /\ a + n + 2 <= hpNext'
    BY <1>1, <2>1, <2>2
  <2> QED  BY <1>1, <1>a, <2>3
<1>3. a + n + 2 <= HpEnd
  <2>1. HpSpan(a - 2, n + 4) \subseteq 0..(HpEnd - 1)
    BY <1>a DEF HpPlaced
  <2>2. a + n + 1 \in HpSpan(a - 2, n + 4)
    BY <1>1 DEF HpSpan
  <2>3. a + n + 1 \in 0..(HpEnd - 1)
    BY <2>1, <2>2
  <2> QED  BY <1>1, <2>3
<1>4. hpMem' = HpMarked(a, n, value) /\ hpForeign' = hpForeign \ ({a - 2} \cup HpSpan(a, n + 2))
  BY <1>a DEF HpPlaced
<1>5. HpAllocated < HpMaxAllocs
  BY DEF HpPlaced
<1>6. HpExtended(b)
  BY <1>a, <1>b
<1>7. b \in HpBlock /\ b.addr = a /\ b.size = n
  BY <1>1, <1>b DEF HpBlock
<1>8. /\ hpMem' \in [HpAddrs -> HpValues]
      /\ \A c \in HpAddrs : c \in HpSpan(a + n, 2) => hpMem'[c] = "guard"
      /\ \A c \in HpAddrs : c \notin HpSpan(a - 2, n + 4) => hpMem'[c] = hpMem[c]
  BY <1>1, <1>4, HpMarkedCells DEF HpInv
<1>9. HpOurs(b)'
  BY <1>1, <1>2, <1>3, <1>7 DEF HpOurs
<1>10. ASSUME NEW i \in DOMAIN hpAllocs
       PROVE  /\ HpApart(hpAllocs[i], b) /\ HpApart(b, hpAllocs[i])
              /\ HpGuard(hpAllocs[i]) \subseteq HpAddrs
              /\ HpGuard(hpAllocs[i]) \cap HpSpan(a - 2, n + 4) = {}
  <2> DEFINE o == hpAllocs[i]
  <2>1. o \in HpBlock /\ HpOurs(o)
    BY ElementOfSeq, LenProperties DEF HpInv, HpTyped, HpBlocks
  <2> HIDE DEF o
  <2>2. o.addr \in Nat /\ o.size \in Nat /\ HpGuard(o) \subseteq HpAddrs /\ 2 <= o.addr
    BY <2>1, HpWithin DEF HpBlock
  <2>3. o.addr + o.size + 2 <= a - 2 \/ a + n + 2 <= o.addr - 2
    <3>1. CASE o.addr + o.size + 2 <= hpNext
      BY <1>1, <1>2, <2>2, <3>1
    <3>2. CASE <<o.addr, o.size>> \in HpFixed
      <4>1. HpEnd + 2 <= o.addr
        BY <3>2, HpAssumption
      <4> QED  BY <1>1, <1>3, <2>2, <4>1
    <3> QED  BY <2>1, <3>1, <3>2 DEF HpOurs
  <2>4. HpApart(o, b) /\ HpApart(b, o)
    BY <1>1, <1>7, <2>2, <2>3 DEF HpApart
  <2>5. HpGuard(o) \cap HpSpan(a - 2, n + 4) = {}
    BY <1>1, <2>2, <2>3 DEF HpGuard, HpSpan
  <2> QED  BY <2>2, <2>4, <2>5 DEF o
<1>11. \A c \in HpGuard(b) : hpMem'[c] = "guard"
  <2>1. HpGuard(b) = HpSpan(a + n, 2)
    BY <1>7 DEF HpGuard
  <2>2. HpGuard(b) \subseteq HpAddrs
    BY <1>1, <1>3, <2>1 DEF HpSpan, HpAddrs
  <2> QED  BY <1>8, <2>1, <2>2
<1>12. ({a - 2} \cup HpSpan(a, n + 2)) \subseteq HpSpan(a - 2, n + 4)
  BY <1>1 DEF HpSpan
<1>13. \A i \in DOMAIN hpAllocs : \A c \in HpGuard(hpAllocs[i]) :
          hpMem'[c] = hpMem[c] /\ (c \in hpForeign => c \in hpForeign')
  BY <1>4, <1>8, <1>10, <1>12
<1>14. hpAllocs' \in Seq(HpBlock) /\ Len(hpAllocs') = Len(hpAllocs) + 1 /\ HpBlocks'
  <2>1. \A i \in DOMAIN hpAllocs : HpApart(hpAllocs[i], b) /\ HpApart(b, hpAllocs[i])
    BY <1>10
  <2>2. hpNext <= hpNext'
    BY <1>1, <1>2
  <2>3. HpBlocks'
    BY <1>2, <1>6, <1>7, <1>9, <1>11, <1>13, <2>1, <2>2, HpListStep
  <2> QED  BY <1>6, <2>3 DEF HpExtended
<1>15. HpAllocated' <= HpMaxAllocs
  <2>1. Len(hpAllocs) \in Nat /\ Len(hpUser) \in Nat
    BY LenProperties DEF HpInv, HpTyped
  <2>2. HpAllocated \in Nat /\ HpAllocated' = HpAllocated + 1
    BY <1>14, <2>1 DEF HpAllocated
  <2> QED  BY <1>5, <2>2, HpAssumption
<1>16. HpTyped'
  BY <1>2, <1>4, <1>8, <1>14, <1>15 DEF HpInv, HpTyped, hpMode
<1> QED  BY <1>14, <1>16 DEF HpInv

\* The list of one more block.
LEMMA HpListedExtends ==
  ASSUME HpInv, NEW n \in Nat, NEW j \in Nat, hpAllocs' = HpListed(n, j)
  PROVE  HpExtended([addr |-> hpNext + j + 2, size |-> n, freed |-> FALSE])
<1>1. [addr |-> hpNext + j + 2, size |-> n, freed |-> FALSE] \in HpBlock
  BY DEF HpBlock, HpInv, HpTyped
<1> QED  BY <1>1, Appended DEF HpListed, HpExtended, HpSame, HpInv, HpTyped

\* Freeing a block changes nothing else.
LEMMA HpFreedStep ==
  ASSUME NEW allocs \in Seq(HpBlock), NEW a
  PROVE  /\ HpFreed(allocs, a) \in Seq(HpBlock) /\ Len(HpFreed(allocs, a)) = Len(allocs)
         /\ \A i \in DOMAIN allocs : HpSame(HpFreed(allocs, a)[i], allocs[i])
<1> DEFINE f == HpFreed(allocs, a)
<1>1. allocs \in [1..Len(allocs) -> HpBlock] /\ Len(allocs) \in Nat
  BY LenProperties
<1>2. PICK k : f = allocs \/ f = [allocs EXCEPT ![k].freed = TRUE]
  BY DEF HpFreed
<1> HIDE DEF f
<1>3. CASE f = [allocs EXCEPT ![k].freed = TRUE]
  <2>1. ASSUME NEW i \in 1..Len(allocs)
        PROVE  /\ [allocs[i] EXCEPT !.freed = TRUE] \in HpBlock
               /\ HpSame([allocs[i] EXCEPT !.freed = TRUE], allocs[i])
    <3>1. allocs[i] \in HpBlock
      BY <1>1
    <3> QED  BY <3>1 DEF HpBlock, HpSame
  <2>2. f = [allocs EXCEPT ![k] = [allocs[k] EXCEPT !.freed = TRUE]]
    BY <1>3
  <2>3. /\ DOMAIN f = 1..Len(allocs)
        /\ \A i \in 1..Len(allocs) :
             f[i] = IF i = k THEN [allocs[i] EXCEPT !.freed = TRUE] ELSE allocs[i]
    BY <1>1, <2>2
  <2>4. f \in [1..Len(allocs) -> HpBlock]
    <3>1. \A i \in 1..Len(allocs) : f[i] \in HpBlock
      BY <1>1, <2>1, <2>3
    <3>2. f = [i \in DOMAIN f |-> f[i]]
      BY <2>2
    <3> QED  BY <2>3, <3>1, <3>2
  <2>5. f \in Seq(HpBlock) /\ Len(f) = Len(allocs)
    BY <1>1, <2>4
  <2>6. \A i \in DOMAIN allocs : HpSame(f[i], allocs[i])
    BY <1>1, <2>1, <2>3 DEF HpSame
  <2> QED  BY <2>5, <2>6 DEF f
<1>4. CASE f = allocs
  BY <1>4 DEF f, HpSame
<1> QED  BY <1>2, <1>3, <1>4

\* Steps that add no block, and write guards only as the driver.
LEMMA HpKeepsBlocks ==
  ASSUME HpInv, hpAllocs' \in Seq(HpBlock), Len(hpAllocs') = Len(hpAllocs),
         \A i \in DOMAIN hpAllocs : HpSame(hpAllocs'[i], hpAllocs[i]),
         hpNext' = hpNext,
         \A c \in HpAddrs : hpMem'[c] = hpMem[c] \/ c \in hpForeign',
         hpForeign \subseteq hpForeign'
  PROVE  HpBlocks'
<1>1. DOMAIN hpAllocs' = DOMAIN hpAllocs /\ DOMAIN hpAllocs = 1..Len(hpAllocs)
  BY LenProperties DEF HpInv, HpTyped
<1>2. ASSUME NEW i \in DOMAIN hpAllocs
      PROVE  HpOurs(hpAllocs[i])' /\ HpGuarded(hpAllocs[i])'
  <2>1. HpOurs(hpAllocs[i]) /\ HpGuarded(hpAllocs[i]) /\ HpSame(hpAllocs'[i], hpAllocs[i])
    BY DEF HpInv, HpBlocks
  <2>2. hpAllocs[i] \in HpBlock
    BY <1>1, ElementOfSeq DEF HpInv, HpTyped
  <2>3. HpGuard(hpAllocs[i]) \subseteq HpAddrs
    BY <2>1, <2>2, HpWithin
  <2> QED  BY <2>1, <2>3 DEF HpOurs, HpGuarded, HpGuard, HpSame
<1>3. \A i, k \in DOMAIN hpAllocs : HpApart(hpAllocs[i], hpAllocs[k])
  BY DEF HpInv, HpBlocks
<1>4. \A i, k \in DOMAIN hpAllocs' : HpApart(hpAllocs'[i], hpAllocs'[k])
  BY <1>1, <1>3 DEF HpApart, HpSame
<1> QED  BY <1>1, <1>2, <1>4 DEF HpBlocks

-----------------------------------------------------------------------------
LEMMA HpAllocStep ==
  ASSUME HpInv, HpSmall, NEW n \in HpSizes, NEW j \in HpJitters,
         allocPool(n, j) \/ kzalloc(n, j)
  PROVE  HpInv'
<1>1. n \in Nat /\ j \in Nat
  BY HpAssumption
<1>2. HpExtended([addr |-> hpNext + j + 2, size |-> n, freed |-> FALSE])
  BY <1>1, HpListedExtends DEF allocPool, kzalloc
<1>3. CASE allocPool(n, j)
  <2>1. \A c \in HpAddrs : hpMem[c] \in HpValues
    BY DEF HpInv, HpTyped
  <2> QED  BY <1>2, <1>3, <2>1, HpPlacedStep DEF allocPool
<1>4. CASE kzalloc(n, j)
  <2> DEFINE value == [c \in HpAddrs |-> "zero"]
  <2>1. \A c \in HpAddrs : value[c] \in HpValues
    BY DEF HpValues
  <2>2. HpPlaced(n, j, value) /\ UNCHANGED <<hpMode, hpUser, hpCode>>
    BY <1>4 DEF kzalloc, HpCleared
  <2> HIDE DEF value
  <2> QED  BY <1>2, <2>1, <2>2, HpPlacedStep
<1> QED  BY <1>3, <1>4

LEMMA HpReallocStep ==
  ASSUME HpInv, HpSmall, NEW n \in HpSizes, NEW j \in HpJitters, NEW a, krealloc(a, n, j)
  PROVE  HpInv'
<1>1. n \in Nat /\ j \in Nat
  BY HpAssumption
<1>2. CASE n = 0
  <2>1. /\ hpAllocs' = HpFreed(hpAllocs, a)
        /\ UNCHANGED <<hpMem, hpNext, hpForeign, hpMode, hpUser, hpCode>>
    BY <1>2 DEF krealloc
  <2>2. /\ hpAllocs' \in Seq(HpBlock) /\ Len(hpAllocs') = Len(hpAllocs)
        /\ \A i \in DOMAIN hpAllocs : HpSame(hpAllocs'[i], hpAllocs[i])
    BY <2>1, HpFreedStep DEF HpInv, HpTyped
  <2>3. HpBlocks'
    BY <2>1, <2>2, HpKeepsBlocks
  <2> QED  BY <2>1, <2>2, <2>3 DEF HpInv, HpTyped, HpAllocated, hpMode
<1>3. CASE n # 0
  <2> DEFINE value == [c \in HpAddrs |-> LET from == c - (hpNext + j + 2) + a
                                         IN IF from \in HpAddrs THEN hpMem[from] ELSE "none"]
  <2>1. /\ HpPlaced(n, j, value) /\ hpAllocs' = HpFreed(HpListed(n, j), a)
        /\ UNCHANGED <<hpMode, hpUser, hpCode>>
    BY <1>3 DEF krealloc
  <2>2. \A c \in HpAddrs : value[c] \in HpValues
    BY DEF HpInv, HpTyped, HpValues
  <2> HIDE DEF value
  <2> DEFINE b == [addr |-> hpNext + j + 2, size |-> n, freed |-> FALSE]
             listed == HpListed(n, j)
  <2>3. /\ b \in HpBlock /\ listed \in Seq(HpBlock) /\ Len(listed) = Len(hpAllocs) + 1
        /\ DOMAIN hpAllocs = 1..Len(hpAllocs) /\ DOMAIN listed = 1..(Len(hpAllocs) + 1)
        /\ Len(hpAllocs) \in Nat /\ listed[Len(hpAllocs) + 1] = b
        /\ \A i \in DOMAIN hpAllocs : listed[i] = hpAllocs[i]
    <3>1. b \in HpBlock
      BY <1>1 DEF HpBlock, HpInv, HpTyped
    <3> QED  BY <3>1, Appended DEF HpListed, HpInv, HpTyped
  <2> HIDE DEF b, listed
  <2>4. /\ hpAllocs' \in Seq(HpBlock) /\ Len(hpAllocs') = Len(listed)
        /\ \A i \in DOMAIN listed : HpSame(hpAllocs'[i], listed[i])
    BY <2>1, <2>3, HpFreedStep DEF listed
  <2>5. HpExtended(b)
    BY <2>3, <2>4 DEF HpExtended, HpSame
  <2> QED  BY <2>1, <2>2, <2>5, HpPlacedStep DEF b
<1> QED  BY <1>2, <1>3

LEMMA HpRegisterStep ==
  ASSUME HpInv, NEW fixed \in HpFixed, registerPoolBlock(fixed[1], fixed[2])
  PROVE  HpInv'
<1>1. PICK a \in Nat, n \in Nat : fixed = <<a, n>>
  BY HpAssumption
<1>2. /\ HpEnd + 2 <= a /\ a + n + 2 <= HpCells /\ HpEnd \in Nat /\ HpCells \in Nat
  BY <1>1, HpAssumption
<1>3. PICK b : b = [addr |-> a, size |-> n, freed |-> FALSE]
  OBVIOUS
<1>4. b \in HpBlock /\ b.addr = a /\ b.size = n
  BY <1>3 DEF HpBlock
<1>5. /\ hpMem' = HpMarked(a, n, hpMem) /\ hpAllocs' = Append(hpAllocs, b)
      /\ hpForeign' = hpForeign \ ({a - 2} \cup HpSpan(a + n, 2))
      /\ HpAllocated < HpMaxAllocs /\ UNCHANGED <<hpNext, hpMode, hpUser, hpCode>>
  BY <1>1, <1>3 DEF registerPoolBlock
<1>6. HpExtended(b)
  BY <1>4, <1>5, Appended DEF HpExtended, HpSame, HpInv, HpTyped
<1>7. \A c \in HpAddrs : hpMem'[c] = IF c = a - 2 THEN "magic"
        ELSE IF c \in HpSpan(a + n, 2) THEN "guard" ELSE hpMem[c]
  BY <1>5 DEF HpMarked
<1>8. hpMem' \in [HpAddrs -> HpValues]
  <2>1. \A c \in HpAddrs : hpMem'[c] \in HpValues
    BY <1>7 DEF HpInv, HpTyped, HpValues
  <2>2. hpMem' = [c \in HpAddrs |-> hpMem'[c]]
    BY <1>5 DEF HpMarked
  <2> QED  BY <2>1, <2>2
<1>9. HpOurs(b)'
  BY <1>1, <1>4 DEF HpOurs
<1>10. \A c \in HpGuard(b) : hpMem'[c] = "guard"
  <2>1. HpGuard(b) = HpSpan(a + n, 2) /\ a - 2 \notin HpSpan(a + n, 2)
    BY <1>4 DEF HpGuard, HpSpan
  <2>2. HpGuard(b) \subseteq HpAddrs
    BY <1>2, <2>1 DEF HpSpan, HpAddrs
  <2> QED  BY <1>7, <2>1, <2>2
<1>11. ASSUME NEW i \in DOMAIN hpAllocs
       PROVE  /\ HpApart(hpAllocs[i], b) /\ HpApart(b, hpAllocs[i])
              /\ HpGuard(hpAllocs[i]) \subseteq HpAddrs /\ a - 2 \notin HpGuard(hpAllocs[i])
  <2>1. PICK o \in HpBlock : o = hpAllocs[i] /\ HpOurs(o)
    BY ElementOfSeq, LenProperties DEF HpInv, HpTyped, HpBlocks
  <2>2. o.addr \in Nat /\ o.size \in Nat /\ HpGuard(o) \subseteq HpAddrs /\ 2 <= o.addr
    BY <2>1, HpWithin DEF HpBlock
  <2>3. HpApart(o, b) /\ HpApart(b, o)
    <3>1. CASE o.addr + o.size + 2 <= HpEnd
      BY <1>2, <1>4, <2>2, <3>1 DEF HpApart
    <3>2. CASE <<o.addr, o.size>> \in HpFixed
      <4>1. /\ a < o.addr => a + n + 2 <= o.addr - 2
            /\ o.addr < a => o.addr + o.size + 2 <= a - 2
        BY <1>1, <2>2, <3>2, HpAssumption
      <4> QED  BY <1>4, <4>1 DEF HpApart
    <3> QED  BY <2>1, <3>1, <3>2 DEF HpOurs
  <2>4. a - 2 \notin HpGuard(o)
    BY <1>4, <2>2, <2>3 DEF HpApart, HpGuard, HpSpan
  <2> QED  BY <2>1, <2>2, <2>3, <2>4
<1>12. \A i \in DOMAIN hpAllocs : \A c \in HpGuard(hpAllocs[i]) :
         (hpMem'[c] = hpMem[c] /\ (c \in hpForeign => c \in hpForeign')) \/ hpMem'[c] = "guard"
  BY <1>5, <1>7, <1>11
<1>13. HpBlocks'
  <2>1. \A i \in DOMAIN hpAllocs : HpApart(hpAllocs[i], b) /\ HpApart(b, hpAllocs[i])
    BY <1>11
  <2>2. hpNext' \in Nat /\ hpNext <= hpNext'
    BY <1>5 DEF HpInv, HpTyped
  <2> QED  BY <1>4, <1>6, <1>9, <1>10, <1>12, <2>1, <2>2, HpListStep
<1>14. HpAllocated' <= HpMaxAllocs
  <2>1. Len(hpAllocs) \in Nat /\ Len(hpUser) \in Nat
    BY LenProperties DEF HpInv, HpTyped
  <2>2. HpAllocated \in Nat /\ HpAllocated' = HpAllocated + 1
    BY <1>5, <1>6, <2>1 DEF HpAllocated, HpExtended
  <2> QED  BY <1>5, <2>2, HpAssumption
<1> QED  BY <1>5, <1>6, <1>8, <1>13, <1>14 DEF HpInv, HpTyped, HpExtended, hpMode

LEMMA HpUserStep ==
  ASSUME HpInv, NEW n \in HpSizes, allocUser(n)
  PROVE  HpInv'
<1>1. n \in Nat /\ HpMaxAllocs \in Nat
  BY HpAssumption
<1>2. PICK at, size : /\ hpUser' = Append(hpUser, [addr |-> at, size |-> size])
                      /\ at = IF hpUser = <<>> THEN 0
                              ELSE hpUser[Len(hpUser)].addr
                                     + ((hpUser[Len(hpUser)].size + 1) \div 2) * 2
                      /\ size = IF n = 0 THEN 1 ELSE n
  BY DEF allocUser
<1>3. at \in Int /\ size \in Int
  <2>1. CASE hpUser # <<>>
    <3>1. hpUser \in Seq([addr : Int, size : Int]) /\ Len(hpUser) \in 1..Len(hpUser)
      BY <2>1 DEF HpInv, HpTyped
    <3>2. hpUser[Len(hpUser)] \in [addr : Int, size : Int]
      BY <3>1, ElementOfSeq
    <3>3. hpUser[Len(hpUser)].addr \in Int /\ hpUser[Len(hpUser)].size \in Int
      BY <3>2
    <3> QED  BY <1>1, <1>2, <2>1, <3>3
  <2>2. CASE hpUser = <<>>
    BY <1>1, <1>2, <2>2
  <2> QED  BY <2>1, <2>2
<1>4. /\ hpUser' \in Seq([addr : Int, size : Int]) /\ Len(hpUser') = Len(hpUser) + 1
      /\ Len(hpUser) \in Nat
  <2>1. [addr |-> at, size |-> size] \in [addr : Int, size : Int]
    BY <1>3
  <2> QED  BY <1>2, <2>1, Appended DEF HpInv, HpTyped
<1>5. UNCHANGED <<hpMem, hpNext, hpAllocs, hpForeign, hpNt, hpStrict, hpAslr, hpCode>>
      /\ HpAllocated < HpMaxAllocs
  BY DEF allocUser, hpHeap, hpMode
<1>6. HpBlocks'
  BY <1>5 DEF HpInv, HpBlocks, HpOurs, HpGuarded
<1>7. HpAllocated' <= HpMaxAllocs
  <2>1. Len(hpAllocs) \in Nat
    BY LenProperties DEF HpInv, HpTyped
  <2>2. HpAllocated \in Nat /\ HpAllocated' = HpAllocated + 1
    BY <1>4, <1>5, <2>1 DEF HpAllocated
  <2> QED  BY <1>1, <1>5, <2>2
<1> QED  BY <1>4, <1>5, <1>6, <1>7 DEF HpInv, HpTyped

LEMMA HpFreeStep ==
  ASSUME HpInv, NEW a, freePool(a)
  PROVE  HpInv'
<1>1. /\ hpAllocs' \in Seq(HpBlock) /\ Len(hpAllocs') = Len(hpAllocs)
      /\ \A i \in DOMAIN hpAllocs : HpSame(hpAllocs'[i], hpAllocs[i])
  BY HpFreedStep DEF freePool, HpInv, HpTyped
<1>2. HpBlocks'
  BY <1>1, HpKeepsBlocks DEF freePool
<1> QED  BY <1>1, <1>2 DEF HpInv, HpTyped, HpAllocated, freePool, hpMode

\* What the driver writes is its own.
LEMMA HpWriteStep ==
  ASSUME HpInv, NEW dst \in Nat, NEW n \in Nat, NEW value, HpWrite(dst, n, value),
         \A i \in 0..(n - 1) : value[i] \in HpValues
  PROVE  HpInv'
<1>1. /\ \A c \in HpAddrs : hpMem'[c] = IF c \in HpSpan(dst, n) THEN value[c - dst] ELSE hpMem[c]
      /\ hpMem' = [c \in HpAddrs |-> hpMem'[c]]
      /\ hpForeign' = hpForeign \cup HpSpan(dst, n) /\ HpSpan(dst, n) \subseteq HpAddrs
      /\ UNCHANGED <<hpNext, hpAllocs, hpNt, hpStrict, hpAslr, hpUser, hpCode>>
  BY DEF HpWrite, hpMode
<1>2. \A c \in HpSpan(dst, n) : c - dst \in 0..(n - 1)
  BY DEF HpSpan
<1>3. hpMem' \in [HpAddrs -> HpValues]
  <2>1. \A c \in HpAddrs : hpMem'[c] \in HpValues
    BY <1>1, <1>2 DEF HpInv, HpTyped
  <2> QED  BY <1>1, <2>1
<1>4. \A i \in DOMAIN hpAllocs : HpSame(hpAllocs'[i], hpAllocs[i])
  BY <1>1 DEF HpSame
<1>5. HpBlocks'
  <2>1. hpAllocs' \in Seq(HpBlock) /\ Len(hpAllocs') = Len(hpAllocs)
    BY <1>1 DEF HpInv, HpTyped
  <2>2. \A c \in HpAddrs : hpMem'[c] = hpMem[c] \/ c \in hpForeign'
    BY <1>1
  <2> QED  BY <1>1, <1>4, <2>1, <2>2, HpKeepsBlocks
<1> QED  BY <1>1, <1>3, <1>5 DEF HpInv, HpTyped, HpAllocated

LEMMA HpDriverStep ==
  ASSUME HpInv, NEW b \in HpBlock, NEW o \in HpBlock,
         \/ \E n \in 1..(b.size + 2) : RtlFillMemory(b.addr, n, "data")
         \/ \E n \in 1..(b.size + 2) : RtlMoveMemory(b.addr, o.addr, n)
         \/ RtlAnsiStringToUnicodeString(b.addr, b.size)
  PROVE  HpInv'
<1>1. b.addr \in Nat /\ b.size \in Nat /\ o.addr \in Nat
  BY DEF HpBlock
<1>2. ASSUME NEW n \in 1..(b.size + 2), RtlFillMemory(b.addr, n, "data")
      PROVE  HpInv'
  <2> DEFINE value == [i \in 0..(n - 1) |-> "data"]
  <2>1. \A i \in 0..(n - 1) : value[i] \in HpValues
    BY DEF HpValues
  <2>2. HpWrite(b.addr, n, value) /\ n \in Nat
    BY <1>1, <1>2 DEF RtlFillMemory
  <2> HIDE DEF value
  <2> QED  BY <1>1, <2>1, <2>2, HpWriteStep
<1>3. ASSUME NEW n \in 1..(b.size + 2), RtlMoveMemory(b.addr, o.addr, n)
      PROVE  HpInv'
  <2> DEFINE value == [i \in 0..(n - 1) |-> hpMem[o.addr + i]]
  <2>1. HpWrite(b.addr, n, value) /\ HpSpan(o.addr, n) \subseteq HpAddrs /\ n \in Nat
    BY <1>1, <1>3 DEF RtlMoveMemory
  <2>2. \A i \in 0..(n - 1) : value[i] \in HpValues
    <3>1. \A i \in 0..(n - 1) : o.addr + i \in HpSpan(o.addr, n)
      BY <1>1, <2>1 DEF HpSpan
    <3> QED  BY <2>1, <3>1 DEF HpInv, HpTyped
  <2> HIDE DEF value
  <2> QED  BY <1>1, <2>1, <2>2, HpWriteStep
<1>4. ASSUME RtlAnsiStringToUnicodeString(b.addr, b.size)
      PROVE  HpInv'
  <2> DEFINE value == [i \in 0..(2 * b.size - 1) |-> "data"]
  <2>1. \A i \in 0..(2 * b.size - 1) : value[i] \in HpValues
    BY DEF HpValues
  <2>2. HpWrite(b.addr, 2 * b.size, value) /\ 2 * b.size \in Nat
    BY <1>1, <1>4 DEF RtlAnsiStringToUnicodeString
  <2> HIDE DEF value
  <2> QED  BY <1>1, <2>1, <2>2, HpWriteStep
<1> QED  BY <1>2, <1>3, <1>4

LEMMA HpInvNext == HpSmall /\ HpInv /\ [HpStep]_hpVars => HpInv'
<1> SUFFICES ASSUME HpSmall, HpInv, [HpStep]_hpVars
             PROVE  HpInv'
  OBVIOUS
<1>1. CASE UNCHANGED hpVars
  BY <1>1 DEF hpVars, hpHeap, hpMode, HpInv, HpTyped, HpBlocks, HpOurs, HpGuarded, HpAllocated
<1>2. ASSUME NEW n \in HpSizes, NEW j \in HpJitters,
             \/ allocPool(n, j) \/ ExAllocatePool2(n, j) \/ kzalloc(n, j)
             \/ \E i \in DOMAIN hpAllocs : krealloc(hpAllocs[i].addr, n, j)
      PROVE  HpInv'
  BY <1>2, HpAllocStep, HpReallocStep DEF ExAllocatePool2
<1>3. ASSUME NEW i \in DOMAIN hpAllocs,
             LET b == hpAllocs[i] IN
             \/ freePool(b.addr)
             \/ \E n \in 1..(b.size + 2) : RtlFillMemory(b.addr, n, "data")
             \/ \E k \in DOMAIN hpAllocs, n \in 1..(b.size + 2) :
                  RtlMoveMemory(b.addr, hpAllocs[k].addr, n) \/ HpUserCopy(b.addr, hpAllocs[k].addr, n)
             \/ b.size > 0 /\ RtlAnsiStringToUnicodeString(b.addr, b.size)
      PROVE  HpInv'
  <2>1. \A k \in DOMAIN hpAllocs : hpAllocs[k] \in HpBlock
    BY ElementOfSeq, LenProperties DEF HpInv, HpTyped
  <2> QED  BY <1>3, <2>1, HpFreeStep, HpDriverStep DEF HpUserCopy
<1> QED  BY <1>1, <1>2, <1>3, HpRegisterStep, HpUserStep DEF HpStep

-----------------------------------------------------------------------------
\* What the invariant says of the guards.
LEMMA HpInvTells == HpInv => HpGuardsTell
<1> SUFFICES ASSUME HpInv
             PROVE  HpGuardsTell
  OBVIOUS
<1>1. verifyGuards = {i \in DOMAIN hpAllocs :
        /\ ~hpAllocs[i].freed
        /\ \E c \in HpGuard(hpAllocs[i]) : c \in hpForeign /\ hpMem[c] # "guard"}
  BY DEF verifyGuards, HpInv, HpBlocks, HpGuarded
<1>2. ASSUME NEW i \in DOMAIN hpAllocs, NEW k \in DOMAIN hpAllocs,
             HpExtent(hpAllocs[i]) \cap HpExtent(hpAllocs[k]) # {}
      PROVE  hpAllocs[i].addr = hpAllocs[k].addr
  <2>1. PICK b \in HpBlock, o \in HpBlock :
          b = hpAllocs[i] /\ o = hpAllocs[k] /\ HpApart(b, o) /\ HpApart(o, b)
    BY ElementOfSeq, LenProperties DEF HpInv, HpTyped, HpBlocks
  <2>2. b.addr \in Nat /\ b.size \in Nat /\ o.addr \in Nat /\ o.size \in Nat
    BY DEF HpBlock
  <2>3. PICK c : c \in HpExtent(b) /\ c \in HpExtent(o)
    BY <1>2, <2>1
  <2> QED  BY <2>1, <2>2, <2>3 DEF HpApart, HpExtent, HpSpan
<1> QED  BY <1>1, <1>2 DEF HpGuardsTell

\* Whatever was allocated, cleared, reallocated, registered, freed and written, a block that
\* is reported is one whose end the driver wrote past, one it wrote past is reported, and
\* no two blocks share a cell: for any number of blocks, and sizes below HpHalf.
THEOREM GuardsTell == HpSpec => []HpGuardsTell
<1>1. CASE HpSmall
  BY <1>1, HpInvTells, HpInvInit, HpInvNext, PTL DEF HpSpec
<1>2. CASE ~HpSmall
  <2>1. HpGuardsTell
    BY <1>2 DEF HpGuardsTell, HpSmall
  <2> QED  BY <2>1, PTL
<1> QED  BY <1>1, <1>2

\* What holds of the pool for sizes of any width, rounded ones that wrapped included.
HpTypes ==
  /\ hpMem \in [HpAddrs -> HpValues] /\ hpNext \in Int /\ hpForeign \subseteq HpAddrs
  /\ hpAllocs \in Seq(HpBlock) /\ hpUser \in Seq([addr : Int, size : Int])
  /\ HpAllocated <= HpMaxAllocs
  /\ hpCode \in {"none", "BAD_POOL_CALLER"}
  /\ {hpNt, hpStrict, hpAslr} \subseteq BOOLEAN /\ (hpStrict => hpNt)

\* The number of blocks, when there is one more.
LEMMA HpCounts ==
  ASSUME HpTypes
  PROVE  /\ HpAllocated \in Nat /\ HpMaxAllocs \in Nat /\ Len(hpAllocs) \in Nat
         /\ Len(hpUser) \in Nat /\ HpAllocated = Len(hpAllocs) + Len(hpUser)
BY LenProperties, HpAssumption DEF HpTypes, HpAllocated

\* A block that is given out.
LEMMA HpPlacedTypes ==
  ASSUME HpTypes, NEW n \in HpSizes, NEW j \in HpJitters \cup {0}, NEW value,
         \A c \in HpAddrs : value[c] \in HpValues, HpPlaced(n, j, value)
  PROVE  /\ hpMem' \in [HpAddrs -> HpValues] /\ hpNext' \in Int /\ hpForeign' \subseteq HpAddrs
         /\ HpAllocated < HpMaxAllocs
         /\ HpListed(n, j) \in Seq(HpBlock) /\ Len(HpListed(n, j)) = Len(hpAllocs) + 1
<1>1. n \in Nat /\ j \in Nat /\ hpNext \in Int /\ HpHalf \in Nat \ {0} /\ HpEnd \in Nat
  <2>1. HpCells \in Nat /\ HpEnd \in 0..HpCells /\ HpSizes \subseteq Nat /\ HpHalf \in Nat \ {0}
    BY HpAssumption
  <2>2. HpJitters \subseteq {2 * i : i \in 0..255}
    BY HpAssumption
  <2>3. j \in Nat
    BY <2>2
  <2> QED  BY <2>1, <2>3 DEF HpTypes
<1>2. PICK a \in Int : a = hpNext + j + 2
  BY <1>1
<1>3. /\ HpSpan(a - 2, n + 4) \subseteq 0..(HpEnd - 1) /\ HpAllocated < HpMaxAllocs
      /\ hpNext' = a + HpAligned(n) + 2 + (IF hpAslr THEN 2 ELSE 0)
      /\ hpMem' = HpMarked(a, n, value)
      /\ hpForeign' = hpForeign \ ({a - 2} \cup HpSpan(a, n + 2))
  BY <1>2 DEF HpPlaced
<1>4. HpAligned(n) \in Int
  <2>1. PICK m \in Int : m = ((n + 1) \div 2) * 2
    BY <1>1
  <2>2. PICK w \in Nat \ {0} : w = 2 * HpHalf
    BY <1>1
  <2>3. m % w \in Int
    OBVIOUS
  <2>4. HpAligned(n) = IF m % w < HpHalf THEN m % w ELSE (m % w) - w
    BY <2>1, <2>2 DEF HpAligned, HpSigned
  <2> QED  BY <2>2, <2>3, <2>4
<1>5. hpNext' \in Int
  BY <1>3, <1>4
<1>6. hpMem' \in [HpAddrs -> HpValues]
  <2>1. \A c \in HpAddrs : hpMem'[c] = IF c = a - 2 THEN "magic"
          ELSE IF c \in HpSpan(a + n, 2) THEN "guard"
          ELSE IF c \in HpSpan(a, n) THEN value[c] ELSE hpMem[c]
    BY <1>3 DEF HpMarked
  <2>2. \A c \in HpAddrs : hpMem'[c] \in HpValues
    BY <2>1 DEF HpTypes, HpValues
  <2>3. hpMem' = [c \in HpAddrs |-> hpMem'[c]]
    BY <1>3 DEF HpMarked
  <2> QED  BY <2>2, <2>3
<1>7. a \in Nat
  <2>1. a - 2 \in HpSpan(a - 2, n + 4)
    BY <1>1 DEF HpSpan
  <2> QED  BY <1>3, <2>1
<1>8. PICK b \in HpBlock : b = [addr |-> hpNext + j + 2, size |-> n, freed |-> FALSE]
  BY <1>1, <1>2, <1>7 DEF HpBlock
<1>9. HpListed(n, j) \in Seq(HpBlock) /\ Len(HpListed(n, j)) = Len(hpAllocs) + 1
  BY <1>8, Appended DEF HpListed, HpTypes
<1> QED  BY <1>3, <1>5, <1>6, <1>9 DEF HpTypes

\* What the driver writes.
LEMMA HpWriteTypes ==
  ASSUME HpTypes, NEW dst \in Int, NEW n \in Nat, NEW value, HpWrite(dst, n, value),
         \A i \in 0..(n - 1) : value[i] \in HpValues
  PROVE  HpTypes'
<1>1. /\ \A c \in HpAddrs : hpMem'[c] = IF c \in HpSpan(dst, n) THEN value[c - dst] ELSE hpMem[c]
      /\ hpMem' = [c \in HpAddrs |-> hpMem'[c]]
      /\ hpForeign' = hpForeign \cup HpSpan(dst, n) /\ HpSpan(dst, n) \subseteq HpAddrs
      /\ UNCHANGED <<hpNext, hpAllocs, hpNt, hpStrict, hpAslr, hpUser, hpCode>>
  BY DEF HpWrite, hpMode
<1>2. \A c \in HpSpan(dst, n) : c - dst \in 0..(n - 1)
  BY DEF HpSpan
<1>3. hpMem' \in [HpAddrs -> HpValues]
  <2>1. \A c \in HpAddrs : hpMem'[c] \in HpValues
    BY <1>1, <1>2 DEF HpTypes
  <2> QED  BY <1>1, <2>1
<1> QED  BY <1>1, <1>3 DEF HpTypes, HpAllocated

\* One step per operation.
LEMMA HpTypesNext == HpTypes /\ [HpStep]_hpVars => HpTypes'
<1> SUFFICES ASSUME HpTypes, [HpStep]_hpVars
             PROVE  HpTypes'
  OBVIOUS
<1>a. CASE UNCHANGED hpVars
  BY <1>a DEF hpVars, hpHeap, hpMode, HpTypes, HpAllocated
<1>b. ASSUME NEW n \in HpSizes, NEW j \in HpJitters, allocPool(n, j) \/ kzalloc(n, j)
      PROVE  HpTypes'
  <2>1. PICK value : /\ \A c \in HpAddrs : value[c] \in HpValues
                     /\ HpPlaced(n, j, value)
    <3>1. CASE allocPool(n, j)
      BY <3>1 DEF allocPool, HpTypes
    <3>2. CASE kzalloc(n, j)
      <4>1. PICK z : z = [c \in HpAddrs |-> "zero"]
        OBVIOUS
      <4>2. HpPlaced(n, j, z)
        BY <3>2, <4>1 DEF kzalloc, HpCleared
      <4> QED  BY <4>1, <4>2 DEF HpValues
    <3> QED  BY <1>b, <3>1, <3>2
  <2>2. hpAllocs' = HpListed(n, j) /\ UNCHANGED <<hpNt, hpStrict, hpAslr, hpUser, hpCode>>
    BY <1>b DEF allocPool, kzalloc, hpMode
  <2>3. /\ hpMem' \in [HpAddrs -> HpValues] /\ hpNext' \in Int /\ hpForeign' \subseteq HpAddrs
        /\ HpAllocated < HpMaxAllocs
        /\ HpListed(n, j) \in Seq(HpBlock) /\ Len(HpListed(n, j)) = Len(hpAllocs) + 1
    BY <2>1, HpPlacedTypes
  <2>4. HpAllocated' <= HpMaxAllocs
    <3>1. HpAllocated' = Len(hpAllocs) + 1 + Len(hpUser)
      BY <2>2, <2>3 DEF HpAllocated
    <3> QED  BY <2>3, <3>1, HpCounts
  <2> QED  BY <2>2, <2>3, <2>4 DEF HpTypes
<1>c. ASSUME NEW n \in HpSizes, NEW j \in HpJitters, NEW a \in Nat, krealloc(a, n, j)
      PROVE  HpTypes'
  <2>1. UNCHANGED <<hpNt, hpStrict, hpAslr, hpUser, hpCode>>
    BY <1>c DEF krealloc, hpMode
  <2>2. CASE n = 0
    <3>1. hpAllocs' = HpFreed(hpAllocs, a) /\ UNCHANGED <<hpMem, hpNext, hpForeign>>
      BY <1>c, <2>2 DEF krealloc
    <3>2. hpAllocs' \in Seq(HpBlock) /\ Len(hpAllocs') = Len(hpAllocs)
      BY <3>1, HpFreedStep DEF HpTypes
    <3>3. HpAllocated' = HpAllocated
      BY <2>1, <3>2 DEF HpAllocated
    <3> QED  BY <2>1, <3>1, <3>2, <3>3 DEF HpTypes
  <2>3. CASE n # 0
    <3>1. PICK value : value = [c \in HpAddrs |-> LET from == c - (hpNext + j + 2) + a
                                                  IN IF from \in HpAddrs
                                                     THEN hpMem[from] ELSE "none"]
      OBVIOUS
    <3>2. HpPlaced(n, j, value) /\ hpAllocs' = HpFreed(HpListed(n, j), a)
      BY <1>c, <2>3, <3>1 DEF krealloc
    <3>3. \A c \in HpAddrs : value[c] \in HpValues
      BY <3>1 DEF HpTypes, HpValues
    <3>4. /\ hpMem' \in [HpAddrs -> HpValues] /\ hpNext' \in Int /\ hpForeign' \subseteq HpAddrs
          /\ HpAllocated < HpMaxAllocs
          /\ HpListed(n, j) \in Seq(HpBlock) /\ Len(HpListed(n, j)) = Len(hpAllocs) + 1
      BY <3>2, <3>3, HpPlacedTypes
    <3>5. hpAllocs' \in Seq(HpBlock) /\ Len(hpAllocs') = Len(hpAllocs) + 1
      BY <3>2, <3>4, HpFreedStep
    <3>6. HpAllocated' <= HpMaxAllocs
      <4>1. HpAllocated' = Len(hpAllocs) + 1 + Len(hpUser)
        BY <2>1, <3>5 DEF HpAllocated
      <4> QED  BY <3>4, <4>1, HpCounts
    <3> QED  BY <2>1, <3>4, <3>5, <3>6 DEF HpTypes
  <2> QED  BY <2>2, <2>3
<1>d. ASSUME NEW fixed \in HpFixed, registerPoolBlock(fixed[1], fixed[2])
      PROVE  HpTypes'
  <2>1. PICK a \in Nat, n \in Nat : fixed = <<a, n>>
    BY HpAssumption
  <2>2. PICK b \in HpBlock : b = [addr |-> a, size |-> n, freed |-> FALSE]
    BY DEF HpBlock
  <2>3. /\ hpMem' = HpMarked(a, n, hpMem) /\ hpAllocs' = Append(hpAllocs, b)
        /\ hpForeign' = hpForeign \ ({a - 2} \cup HpSpan(a + n, 2))
        /\ HpAllocated < HpMaxAllocs
        /\ UNCHANGED <<hpNext, hpNt, hpStrict, hpAslr, hpUser, hpCode>>
    BY <1>d, <2>1, <2>2 DEF registerPoolBlock, hpMode
  <2>4. hpMem' \in [HpAddrs -> HpValues]
    <3>1. \A c \in HpAddrs : hpMem'[c] = IF c = a - 2 THEN "magic"
            ELSE IF c \in HpSpan(a + n, 2) THEN "guard" ELSE hpMem[c]
      BY <2>3 DEF HpMarked
    <3>2. \A c \in HpAddrs : hpMem'[c] \in HpValues
      BY <3>1 DEF HpTypes, HpValues
    <3>3. hpMem' = [c \in HpAddrs |-> hpMem'[c]]
      BY <2>3 DEF HpMarked
    <3> QED  BY <3>2, <3>3
  <2>5. hpAllocs' \in Seq(HpBlock) /\ Len(hpAllocs') = Len(hpAllocs) + 1
    BY <2>3, Appended DEF HpTypes
  <2>6. HpAllocated' <= HpMaxAllocs
    <3>1. HpAllocated' = Len(hpAllocs) + 1 + Len(hpUser)
      BY <2>3, <2>5 DEF HpAllocated
    <3> QED  BY <2>3, <3>1, HpCounts
  <2> QED  BY <2>3, <2>4, <2>5, <2>6 DEF HpTypes
<1>e. ASSUME NEW n \in HpSizes, allocUser(n)
      PROVE  HpTypes'
  <2>1. n \in Nat
    BY HpAssumption
  <2>2. PICK at, size : /\ hpUser' = Append(hpUser, [addr |-> at, size |-> size])
                        /\ at = IF hpUser = <<>> THEN 0
                                ELSE hpUser[Len(hpUser)].addr
                                       + ((hpUser[Len(hpUser)].size + 1) \div 2) * 2
                        /\ size = IF n = 0 THEN 1 ELSE n
    BY <1>e DEF allocUser
  <2>3. at \in Int /\ size \in Int
    <3>1. CASE hpUser # <<>>
      <4>1. hpUser \in Seq([addr : Int, size : Int]) /\ Len(hpUser) \in 1..Len(hpUser)
        BY <3>1 DEF HpTypes
      <4>2. hpUser[Len(hpUser)] \in [addr : Int, size : Int]
        BY <4>1, ElementOfSeq
      <4>3. hpUser[Len(hpUser)].addr \in Int /\ hpUser[Len(hpUser)].size \in Int
        BY <4>2
      <4> QED  BY <2>1, <2>2, <3>1, <4>3
    <3>2. CASE hpUser = <<>>
      BY <2>1, <2>2, <3>2
    <3> QED  BY <3>1, <3>2
  <2>4. hpUser' \in Seq([addr : Int, size : Int]) /\ Len(hpUser') = Len(hpUser) + 1
    <3>1. [addr |-> at, size |-> size] \in [addr : Int, size : Int]
      BY <2>3
    <3> QED  BY <2>2, <3>1, Appended DEF HpTypes
  <2>5. UNCHANGED <<hpMem, hpNext, hpAllocs, hpForeign, hpNt, hpStrict, hpAslr, hpCode>>
        /\ HpAllocated < HpMaxAllocs
    BY <1>e DEF allocUser, hpHeap, hpMode
  <2>6. HpAllocated' <= HpMaxAllocs
    <3>1. HpAllocated' = Len(hpAllocs) + (Len(hpUser) + 1)
      BY <2>4, <2>5 DEF HpAllocated
    <3> QED  BY <2>5, <3>1, HpCounts
  <2> QED  BY <2>4, <2>5, <2>6 DEF HpTypes
<1>f. ASSUME NEW a, freePool(a)
      PROVE  HpTypes'
  <2>1. hpAllocs' \in Seq(HpBlock) /\ Len(hpAllocs') = Len(hpAllocs)
    BY <1>f, HpFreedStep DEF freePool, HpTypes
  <2> QED  BY <1>f, <2>1 DEF HpTypes, HpAllocated, freePool, hpMode
<1>g. ASSUME NEW a \in Nat, NEW n \in Nat, RtlFillMemory(a, n, "data")
      PROVE  HpTypes'
  <2>1. PICK value : value = [i \in 0..(n - 1) |-> "data"]
    OBVIOUS
  <2>2. HpWrite(a, n, value) /\ \A i \in 0..(n - 1) : value[i] \in HpValues
    BY <1>g, <2>1 DEF RtlFillMemory, HpValues
  <2> QED  BY <2>2, HpWriteTypes
<1>h. ASSUME NEW a \in Nat, NEW b \in Nat, NEW n \in Nat, RtlMoveMemory(a, b, n)
      PROVE  HpTypes'
  <2>1. PICK value : value = [i \in 0..(n - 1) |-> hpMem[b + i]]
    OBVIOUS
  <2>2. HpWrite(a, n, value) /\ HpSpan(b, n) \subseteq HpAddrs
    BY <1>h, <2>1 DEF RtlMoveMemory
  <2>3. \A i \in 0..(n - 1) : b + i \in HpSpan(b, n)
    BY DEF HpSpan
  <2>4. \A i \in 0..(n - 1) : value[i] \in HpValues
    BY <2>1, <2>2, <2>3 DEF HpTypes
  <2> QED  BY <2>2, <2>4, HpWriteTypes
<1>i. ASSUME NEW a \in Nat, NEW n \in Nat, RtlAnsiStringToUnicodeString(a, n)
      PROVE  HpTypes'
  <2>1. PICK value : value = [i \in 0..(2 * n - 1) |-> "data"]
    OBVIOUS
  <2>2. HpWrite(a, 2 * n, value) /\ \A i \in 0..(2 * n - 1) : value[i] \in HpValues
    BY <1>i, <2>1 DEF RtlAnsiStringToUnicodeString, HpValues
  <2>3. 2 * n \in Nat
    OBVIOUS
  <2> QED  BY <2>2, <2>3, HpWriteTypes
<1>j. \A i \in DOMAIN hpAllocs : hpAllocs[i].addr \in Nat /\ hpAllocs[i].size \in Nat
  <2>1. \A i \in DOMAIN hpAllocs : hpAllocs[i] \in HpBlock
    BY Elements DEF HpTypes
  <2> QED  BY <2>1 DEF HpBlock
<1>k. ASSUME NEW i \in DOMAIN hpAllocs,
             LET b == hpAllocs[i] IN
             \/ freePool(b.addr)
             \/ \E n \in 1..(b.size + 2) : RtlFillMemory(b.addr, n, "data")
             \/ \E k \in DOMAIN hpAllocs, n \in 1..(b.size + 2) :
                  RtlMoveMemory(b.addr, hpAllocs[k].addr, n) \/ HpUserCopy(b.addr, hpAllocs[k].addr, n)
             \/ b.size > 0 /\ RtlAnsiStringToUnicodeString(b.addr, b.size)
      PROVE  HpTypes'
  BY <1>f, <1>g, <1>h, <1>i, <1>j, <1>k DEF HpUserCopy
<1> QED  BY <1>a, <1>b, <1>c, <1>d, <1>e, <1>j, <1>k DEF HpStep, ExAllocatePool2

\* Cells, blocks and the stop code keep their types, for sizes of any width.
THEOREM HpTypeCorrect == HpSpec => []HpTypeOK
<1>1. HpInit => HpTypes
  BY HpInvInit DEF HpInv, HpTyped, HpTypes
<1>2. HpTypes => HpTypeOK
  BY DEF HpTypes, HpTypeOK, HpValues
<1> QED  BY <1>1, <1>2, HpTypesNext, PTL DEF HpSpec

-----------------------------------------------------------------------------
(***************************************************************************)
(* Handles and the registry's log (Handles).                               *)
(***************************************************************************)

HnRecord == [h : 1..hnIssued, kind : {"key", "object", "dup"}, of : HnKeys \cup {"o", "h"}]
HnGrant == [h : 1..hnIssued, pid : HnPids, write : BOOLEAN]
HnEntry == [op : {"create", "set", "delete-value"}, key : HnKeys, name : HnNames \cup {"none"},
            size : HnSizes \cup {0}]
HnValues == HnSizes \cup {0, HnSynth}

\* Handles are numbered as they are issued, and what is open was issued and not closed.
HnHandlesInv ==
  /\ hnIssued \in 0..HnMaxHandles
  /\ hnTable \subseteq HnRecord /\ hnOpen \subseteq HnGrant
  /\ hnObClosed \subseteq 1..hnIssued
  /\ HnClosedIsClosed
  /\ \A r \in hnOpen : r.write => r.pid \in hnGranted \cup {HnSystem}

\* The name of a key handle is found to be some key; what is no key has no values; and a
\* key goes unlisted when the list is full.
HnKeysInv ==
  /\ hnKeys \subseteq HnKeys /\ HnMadeUp \cup HnSeeded \subseteq hnKeys
  /\ hnVal \in [HnKeys -> [HnNames -> HnValues]]
  /\ hnStray \subseteq HnKeys \X HnNames
  /\ \A r \in hnTable : r.kind = "key" => r.of \in HnKeys /\ HnFound(r.of) # {}
  /\ \A k \in HnKeys \ hnKeys : \A n \in HnNames : hnVal[k][n] = 0
  /\ hnUnlisted # {} => ~(Cardinality(hnAuto) < HnAutoLimit)

HnLogInv ==
  /\ hnLog \in Seq(HnEntry) /\ Len(hnLog) <= HnLogLimit
  /\ \A i \in DOMAIN hnLog : hnLog[i].op = "set" => hnLog[i].size \in HnSizes
  /\ HnCreated \subseteq hnKeys
  /\ HnLogTells

HnInv == HnHandlesInv /\ HnKeysInv /\ HnLogInv

\* What the log tells of one value, of one that was set and not stored, and of one key.
HnValueTold(k, n) ==
  \/ \E i \in HnLast(k, n) : hnLog[i].op = "set" /\ hnVal[k][n] = hnLog[i].size
  \/ /\ \A i \in HnLast(k, n) : hnLog[i].op # "set"
     /\ hnVal[k][n] \in {0, HnSynth}
HnStrayTold(k) == k \notin HnSeeded \cup HnMadeUp \cup HnCreated /\ HnFound(k) \ {k} # {}
HnKeyTold(k) ==
  k \in HnSeeded \cup HnMadeUp \cup HnCreated \/ \E a \in HnMadeUp : k \in HnAbove[a]

LEMMA HnTold ==
  HnLogTells <=>
    (Len(hnLog) < HnLogLimit =>
       /\ \A k \in HnKeys, n \in HnNames : <<k, n>> \notin hnStray => HnValueTold(k, n)
       /\ \A k \in HnKeys, n \in HnNames : <<k, n>> \in hnStray => HnStrayTold(k)
       /\ \A k \in hnKeys : HnKeyTold(k)
       /\ hnUnlisted # {} => ~(Cardinality(hnAuto) < HnAutoLimit))
BY DEF HnLogTells, HnValueTold, HnStrayTold, HnKeyTold

LEMMA HnInvInit == HnInit => HnInv
<1> SUFFICES ASSUME HnInit
             PROVE  HnInv
  OBVIOUS
<1>1. HnHandlesInv
  BY HnAssumption DEF HnInit, HnHandlesInv, HnClosedIsClosed
<1>2. HnKeysInv
  BY HnAssumption DEF HnInit, HnKeysInv, HnValues, HnMadeUp
<1>3. HnLogInv
  <2>1. hnLog \in Seq(HnEntry) /\ Len(hnLog) = 0 /\ DOMAIN hnLog = {}
    BY EmptySeq DEF HnInit
  <2>2. HnCreated = {} /\ \A k, n : HnLast(k, n) = {}
    BY <2>1 DEF HnCreated, HnLast, HnAbout
  <2> QED
    BY <2>1, <2>2, HnAssumption DEF HnInit, HnLogInv, HnLogTells, HnMadeUp
<1> QED  BY <1>1, <1>2, <1>3 DEF HnInv

\* A handle that is issued has a number no other had.
LEMMA HnIssueStep ==
  ASSUME HnInv, NEW kind \in {"key", "object", "dup"}, NEW of \in HnKeys \cup {"o", "h"},
         HnIssue(kind, of), UNCHANGED hnProcessVars
  PROVE  /\ HnHandlesInv'
         /\ \A r \in hnTable' : r \in hnTable \/ (r.kind = kind /\ r.of = of)
<1>1. /\ hnIssued \in Nat /\ hnIssued' = hnIssued + 1 /\ hnIssued' \in 0..HnMaxHandles
      /\ 1..hnIssued \subseteq 1..hnIssued' /\ hnIssued' \notin 1..hnIssued
      /\ hnIssued' \in 1..hnIssued'
  BY HnAssumption DEF HnIssue, HnInv, HnHandlesInv
<1>2. PICK new : new = [h |-> hnIssued', kind |-> kind, of |-> of]
  OBVIOUS
<1>3. hnTable' = hnTable \cup {new} /\ new.h = hnIssued' /\ new.kind = kind /\ new.of = of
  BY <1>2 DEF HnIssue
<1>4. hnTable' \subseteq HnRecord'
  BY <1>1, <1>2, <1>3 DEF HnInv, HnHandlesInv, HnRecord
<1>5. hnOpen' \subseteq HnGrant'
  BY <1>1 DEF HnInv, HnHandlesInv, HnGrant, hnProcessVars
<1>6. HnClosedIsClosed' /\ hnObClosed' \subseteq 1..hnIssued'
  BY <1>1, <1>3 DEF HnInv, HnHandlesInv, HnClosedIsClosed, hnProcessVars
<1> QED  BY <1>1, <1>3, <1>4, <1>5, <1>6 DEF HnInv, HnHandlesInv, hnProcessVars

\* What was logged is the last thing said of its value, and of no other.
LEMMA HnLoggedStep ==
  ASSUME HnInv, NEW e \in HnEntry, HnLogged(e), e.op = "set" => e.size \in HnSizes,
         e.op = "create" => e.key \in hnKeys', hnKeys \subseteq hnKeys'
  PROVE  /\ hnLog' \in Seq(HnEntry) /\ Len(hnLog') <= HnLogLimit
         /\ \A i \in DOMAIN hnLog' : hnLog'[i].op = "set" => hnLog'[i].size \in HnSizes
         /\ HnCreated' \subseteq hnKeys'
         /\ Len(hnLog') < HnLogLimit =>
              /\ Len(hnLog) < HnLogLimit
              /\ HnCreated' = HnCreated \cup (IF e.op = "create" THEN {e.key} ELSE {})
              /\ \A i \in DOMAIN hnLog : i \in DOMAIN hnLog' /\ hnLog'[i] = hnLog[i]
              /\ \A k, n : (k # e.key \/ n # e.name) => HnLast(k, n)' = HnLast(k, n)
              /\ HnLast(e.key, e.name)' = {Len(hnLog) + 1}
              /\ hnLog'[Len(hnLog) + 1] = e
<1>1. hnLog \in Seq(HnEntry) /\ Len(hnLog) \in Nat /\ HnLogLimit \in Nat
      /\ DOMAIN hnLog = 1..Len(hnLog)
  BY HnAssumption, LenProperties DEF HnInv, HnLogInv
<1>2. CASE Len(hnLog) < HnLogLimit
  <2>1. hnLog' = Append(hnLog, e)
    BY <1>2 DEF HnLogged
  <2>2. /\ hnLog' \in Seq(HnEntry) /\ Len(hnLog') = Len(hnLog) + 1
        /\ DOMAIN hnLog' = 1..(Len(hnLog) + 1) /\ hnLog'[Len(hnLog) + 1] = e
        /\ \A i \in DOMAIN hnLog : hnLog'[i] = hnLog[i]
    BY <1>1, <2>1, Appended
  <2>3. \A i \in DOMAIN hnLog' : i \in DOMAIN hnLog \/ i = Len(hnLog) + 1
    BY <1>1, <2>2
  <2>4. \A i \in DOMAIN hnLog : i \in DOMAIN hnLog' /\ i < Len(hnLog) + 1
    BY <1>1, <2>2
  <2>5. \A k, n : HnAbout(k, n)' = IF k = e.key /\ n = e.name THEN HnAbout(k, n) \cup {Len(hnLog) + 1}
                                  ELSE HnAbout(k, n)
    BY <2>2, <2>3, <2>4 DEF HnAbout
  <2>6. \A k, n : (k # e.key \/ n # e.name) => HnLast(k, n)' = HnLast(k, n)
    BY <2>5 DEF HnLast
  <2>7. HnLast(e.key, e.name)' = {Len(hnLog) + 1}
    <3>1. \A i \in HnAbout(e.key, e.name) : i \in Int /\ i < Len(hnLog) + 1
      BY <1>1, <2>4 DEF HnAbout
    <3>2. HnAbout(e.key, e.name)' = HnAbout(e.key, e.name) \cup {Len(hnLog) + 1}
      BY <2>5
    <3>3. Len(hnLog) + 1 <= Len(hnLog) + 1 /\ \A i \in HnAbout(e.key, e.name) :
             i <= Len(hnLog) + 1 /\ ~(Len(hnLog) + 1 <= i)
      BY <1>1, <3>1
    <3> QED  BY <3>2, <3>3 DEF HnLast
  <2>8. \A i \in DOMAIN hnLog' : hnLog'[i].op = "set" => hnLog'[i].size \in HnSizes
    BY <2>2, <2>3 DEF HnInv, HnLogInv
  <2>9. Len(hnLog') <= HnLogLimit /\ Len(hnLog) + 1 \in DOMAIN hnLog'
    BY <1>1, <1>2, <2>2
  <2>10. HnCreated' = HnCreated \cup (IF e.op = "create" THEN {e.key} ELSE {})
    BY <2>2, <2>3, <2>4, <2>9 DEF HnCreated
  <2>11. HnCreated' \subseteq hnKeys'
    BY <2>10 DEF HnInv, HnLogInv
  <2> QED  BY <1>2, <2>2, <2>4, <2>6, <2>7, <2>8, <2>9, <2>10, <2>11
<1>3. CASE ~(Len(hnLog) < HnLogLimit)
  <2>1. hnLog' = hnLog /\ HnCreated' = HnCreated
    BY <1>3 DEF HnLogged, HnCreated
  <2> QED  BY <1>3, <2>1 DEF HnInv, HnLogInv
<1> QED  BY <1>2, <1>3

\* What is not stored anywhere stays so: nobody can create or make up that spelling.
LEMMA HnStrayStep ==
  ASSUME NEW k \in HnKeys, HnStrayTold(k), hnKeys \subseteq hnKeys',
         k \in HnMadeUp' \cup HnCreated' => k \in HnMadeUp \cup HnCreated \/ HnFound(k) = {}
  PROVE  HnStrayTold(k)'
BY DEF HnStrayTold, HnFound

\* The log is right after a step that logs nothing, when what it leaves alone and what it
\* makes up is of no value the log has as set.
LEMMA HnLogUntouched ==
  ASSUME HnInv, HnKeysInv', UNCHANGED <<hnLog, hnStray>>, hnKeys \subseteq hnKeys',
         HnMadeUp \subseteq HnMadeUp', \A k \in HnMadeUp' \ HnMadeUp : HnFound(k) = {},
         \A k \in hnKeys' \ hnKeys : k \in HnMadeUp' \/ \E a \in HnMadeUp' : k \in HnAbove[a],
         \A k \in HnKeys, n \in HnNames :
           hnVal'[k][n] = hnVal[k][n] \/ (hnVal[k][n] = 0 /\ hnVal'[k][n] = HnSynth)
  PROVE  HnLogInv'
<1>1. /\ hnLog' \in Seq(HnEntry) /\ Len(hnLog') <= HnLogLimit
      /\ \A i \in DOMAIN hnLog' : hnLog'[i].op = "set" => hnLog'[i].size \in HnSizes
      /\ HnCreated' = HnCreated /\ HnCreated' \subseteq hnKeys'
  BY DEF HnInv, HnLogInv, HnCreated
<1>2. \A k, n : HnLast(k, n)' = HnLast(k, n) /\ HnLast(k, n) \subseteq DOMAIN hnLog
  BY DEF HnLast, HnAbout
<1>3. ASSUME Len(hnLog) < HnLogLimit, NEW k \in HnKeys, NEW n \in HnNames, <<k, n>> \notin hnStray
      PROVE  HnValueTold(k, n)'
  <2>1. HnValueTold(k, n)
    BY <1>3, HnTold DEF HnInv, HnLogInv
  <2>2. CASE \E i \in HnLast(k, n) : hnLog[i].op = "set" /\ hnVal[k][n] = hnLog[i].size
    <3>1. PICK i \in HnLast(k, n) : hnLog[i].op = "set" /\ hnVal[k][n] = hnLog[i].size
      BY <2>2
    <3>2. hnVal[k][n] # 0
      BY <1>2, <3>1, HnAssumption DEF HnInv, HnLogInv
    <3>3. hnVal'[k][n] = hnVal[k][n]
      BY <3>2
    <3> QED  BY <1>2, <3>1, <3>3 DEF HnValueTold
  <2>3. CASE (\A i \in HnLast(k, n) : hnLog[i].op # "set") /\ hnVal[k][n] \in {0, HnSynth}
    BY <1>2, <2>3 DEF HnValueTold
  <2> QED  BY <2>1, <2>2, <2>3 DEF HnValueTold
<1>4. ASSUME Len(hnLog) < HnLogLimit, NEW k \in HnKeys, NEW n \in HnNames, <<k, n>> \in hnStray
      PROVE  HnStrayTold(k)'
  <2>1. HnStrayTold(k)
    BY <1>4, HnTold DEF HnInv, HnLogInv
  <2> QED  BY <1>1, <2>1, HnStrayStep
<1>5. ASSUME Len(hnLog) < HnLogLimit, NEW k \in hnKeys'
      PROVE  HnKeyTold(k)'
  <2>1. CASE k \in hnKeys
    <3>1. HnKeyTold(k)
      BY <1>5, <2>1, HnTold DEF HnInv, HnLogInv
    <3> QED  BY <1>1, <3>1 DEF HnKeyTold
  <2>2. CASE k \notin hnKeys
    BY <2>2 DEF HnKeyTold
  <2> QED  BY <2>1, <2>2
<1>6. hnUnlisted' # {} => ~(Cardinality(hnAuto') < HnAutoLimit)
  BY DEF HnKeysInv
<1>7. HnLogTells'
  BY <1>3, <1>4, <1>5, <1>6 DEF HnLogTells, HnValueTold, HnStrayTold, HnKeyTold
<1> QED  BY <1>1, <1>7 DEF HnLogInv

\* It is right after a step that logs what it does to one value, stored or not.
LEMMA HnValueLogged ==
  ASSUME HnInv, NEW r \in HnKeyHandles, NEW n \in HnNames, NEW v \in HnSizes \cup {0},
         NEW op \in {"set", "delete-value"}, (op = "set" /\ v \in HnSizes) \/ (op # "set" /\ v = 0),
         \/ /\ r.of \in hnKeys /\ hnStray' = hnStray \ {<<r.of, n>>}
            /\ hnVal' = [hnVal EXCEPT ![r.of][n] = v]
         \/ /\ r.of \notin hnKeys /\ hnStray' = hnStray \cup {<<r.of, n>>} /\ UNCHANGED hnVal,
         HnLogged([op |-> op, key |-> r.of, name |-> n, size |-> v]),
         UNCHANGED <<hnKeys, hnAuto, hnUnlisted, hnTable, hnIssued, hnProcessVars>>
  PROVE  HnInv'
<1>1. r.of \in HnKeys /\ HnFound(r.of) # {}
  BY DEF HnKeyHandles, HnInv, HnKeysInv
<1>2. PICK e \in HnEntry : /\ e = [op |-> op, key |-> r.of, name |-> n, size |-> v]
                           /\ e.op = op /\ e.key = r.of /\ e.name = n /\ e.size = v
  <2>1. PICK e : /\ e = [op |-> op, key |-> r.of, name |-> n, size |-> v]
                 /\ e.op = op /\ e.key = r.of /\ e.name = n /\ e.size = v
    OBVIOUS
  <2>2. e \in HnEntry
    BY <1>1, <2>1 DEF HnEntry
  <2> QED  BY <2>1, <2>2
<1>3. /\ hnVal' \in [HnKeys -> [HnNames -> HnValues]]
      /\ r.of \in hnKeys => hnVal'[r.of][n] = v
      /\ \A k \in HnKeys, m \in HnNames : (k # r.of \/ m # n) => hnVal'[k][m] = hnVal[k][m]
      /\ r.of \notin hnKeys => hnVal' = hnVal
  <2>1. hnVal \in [HnKeys -> [HnNames -> HnValues]] /\ v \in HnValues
    BY DEF HnInv, HnKeysInv, HnValues
  <2> QED  BY <1>1, <2>1
<1>4. HnHandlesInv'
  BY DEF HnInv, HnHandlesInv, HnClosedIsClosed, HnRecord, HnGrant, hnProcessVars
<1>5. HnMadeUp' = HnMadeUp /\ \A k : HnFound(k)' = HnFound(k)
  BY DEF HnMadeUp, HnFound
<1>6. HnKeysInv'
  <2>1. hnStray' \subseteq HnKeys \X HnNames
    BY <1>1 DEF HnInv, HnKeysInv
  <2>2. \A k \in HnKeys \ hnKeys : \A m \in HnNames : hnVal'[k][m] = 0
    BY <1>3 DEF HnInv, HnKeysInv
  <2> QED  BY <1>3, <1>5, <2>1, <2>2 DEF HnInv, HnKeysInv
<1>7. /\ hnLog' \in Seq(HnEntry) /\ Len(hnLog') <= HnLogLimit
      /\ \A i \in DOMAIN hnLog' : hnLog'[i].op = "set" => hnLog'[i].size \in HnSizes
      /\ HnCreated' \subseteq hnKeys'
      /\ Len(hnLog') < HnLogLimit =>
           /\ Len(hnLog) < HnLogLimit /\ HnCreated' = HnCreated
           /\ \A i \in DOMAIN hnLog : i \in DOMAIN hnLog' /\ hnLog'[i] = hnLog[i]
           /\ \A k, m : (k # r.of \/ m # n) => HnLast(k, m)' = HnLast(k, m)
           /\ HnLast(r.of, n)' = {Len(hnLog) + 1}
           /\ hnLog'[Len(hnLog) + 1] = e
  <2>1. /\ HnLogged(e) /\ e.op # "create" /\ hnKeys \subseteq hnKeys'
        /\ e.op = "set" => e.size \in HnSizes
    BY <1>2
  <2>2. /\ hnLog' \in Seq(HnEntry) /\ Len(hnLog') <= HnLogLimit
        /\ \A i \in DOMAIN hnLog' : hnLog'[i].op = "set" => hnLog'[i].size \in HnSizes
        /\ HnCreated' \subseteq hnKeys'
        /\ Len(hnLog') < HnLogLimit =>
             /\ Len(hnLog) < HnLogLimit
             /\ HnCreated' = HnCreated \cup (IF e.op = "create" THEN {e.key} ELSE {})
             /\ \A i \in DOMAIN hnLog : i \in DOMAIN hnLog' /\ hnLog'[i] = hnLog[i]
             /\ \A k, m : (k # e.key \/ m # e.name) => HnLast(k, m)' = HnLast(k, m)
             /\ HnLast(e.key, e.name)' = {Len(hnLog) + 1}
             /\ hnLog'[Len(hnLog) + 1] = e
    BY <2>1, HnLoggedStep
  <2>3. e.op # "create" => HnCreated \cup (IF e.op = "create" THEN {e.key} ELSE {}) = HnCreated
    OBVIOUS
  <2> QED  BY <1>2, <2>1, <2>2, <2>3
<1>8. \A k, m : HnLast(k, m) \subseteq DOMAIN hnLog
  BY DEF HnLast, HnAbout
<1>9. ASSUME Len(hnLog') < HnLogLimit, NEW k \in HnKeys, NEW m \in HnNames, <<k, m>> \notin hnStray'
      PROVE  HnValueTold(k, m)'
  <2>1. CASE k = r.of /\ m = n
    <3>1. r.of \in hnKeys
      BY <1>9, <2>1
    <3> QED  BY <1>2, <1>3, <1>7, <1>9, <2>1, <3>1 DEF HnValueTold
  <2>2. CASE k # r.of \/ m # n
    <3>1. HnLast(k, m)' = HnLast(k, m) /\ hnVal'[k][m] = hnVal[k][m]
      BY <1>3, <1>7, <1>9, <2>2
    <3>2. \A i \in HnLast(k, m) : hnLog'[i] = hnLog[i]
      BY <1>7, <1>8, <1>9
    <3>3. <<k, m>> \notin hnStray
      BY <1>9, <2>2
    <3>4. HnValueTold(k, m)
      BY <1>7, <1>9, <3>3, HnTold DEF HnInv, HnLogInv
    <3> QED  BY <3>1, <3>2, <3>4 DEF HnValueTold
  <2> QED  BY <2>1, <2>2
<1>10. ASSUME Len(hnLog') < HnLogLimit, NEW k \in HnKeys, NEW m \in HnNames, <<k, m>> \in hnStray'
       PROVE  HnStrayTold(k)'
  <2>1. CASE <<k, m>> \in hnStray
    <3>1. HnStrayTold(k)
      BY <1>7, <1>10, <2>1, HnTold DEF HnInv, HnLogInv
    <3> QED  BY <1>5, <1>7, <1>10, <3>1, HnStrayStep
  <2>2. CASE <<k, m>> \notin hnStray
    <3>1. k = r.of /\ k \notin hnKeys
      BY <1>10, <2>2
    <3> QED
      BY <1>1, <1>5, <1>7, <1>10, <3>1 DEF HnStrayTold, HnFound, HnInv, HnKeysInv, HnLogInv
  <2> QED  BY <2>1, <2>2
<1>11. ASSUME Len(hnLog') < HnLogLimit, NEW k \in hnKeys
       PROVE  HnKeyTold(k)'
  <2>1. HnKeyTold(k)
    BY <1>7, <1>11, HnTold DEF HnInv, HnLogInv
  <2> QED  BY <1>5, <1>7, <1>11, <2>1 DEF HnKeyTold
<1>12. HnLogTells'
  <2>1. hnUnlisted' # {} => ~(Cardinality(hnAuto') < HnAutoLimit)
    BY <1>6 DEF HnKeysInv
  <2> QED  BY <1>9, <1>10, <1>11, <2>1 DEF HnLogTells, HnValueTold, HnStrayTold, HnKeyTold
<1> QED  BY <1>4, <1>6, <1>7, <1>12 DEF HnInv, HnLogInv

\* A key that is found is opened.
LEMMA HnFoundStep ==
  ASSUME HnInv, NEW k \in HnKeys, HnFound(k) # {}, HnIssue("key", k),
         UNCHANGED <<hnRegistryVars, hnProcessVars>>
  PROVE  HnInv'
<1>1. UNCHANGED <<hnKeys, hnVal, hnLog, hnAuto, hnUnlisted, hnStray>>
  BY DEF hnRegistryVars
<1>2. /\ HnHandlesInv'
      /\ \A r \in hnTable' : r \in hnTable \/ (r.kind = "key" /\ r.of = k)
  BY HnIssueStep
<1>3. HnMadeUp' = HnMadeUp /\ \A j : HnFound(j)' = HnFound(j)
  BY <1>1 DEF HnMadeUp, HnFound
<1>4. HnKeysInv'
  BY <1>1, <1>2, <1>3 DEF HnInv, HnKeysInv
<1>5. HnLogInv'
  BY <1>1, <1>3, <1>4, HnLogUntouched
<1> QED  BY <1>2, <1>4, <1>5 DEF HnInv

\* A found spelling is found itself.
LEMMA HnFoundAgain ==
  ASSUME HnInv, NEW k \in HnKeys, NEW key \in HnFound(k)
  PROVE  key \in HnKeys /\ HnFound(key) # {}
BY DEF HnFound, HnInv, HnKeysInv

LEMMA HnOpenKeyStep == ASSUME HnInv, NEW k \in HnKeys, ZwOpenKey(k) PROVE HnInv'
<1>1. CASE HnFound(k) # {}
  <2>1. PICK key \in HnFound(k) : HnIssue("key", key) /\ UNCHANGED <<hnRegistryVars, hnProcessVars>>
    BY <1>1 DEF ZwOpenKey
  <2> QED  BY <2>1, HnFoundAgain, HnFoundStep
<1>2. CASE HnFound(k) = {}
  <2>1. /\ hnKeys' = hnKeys \cup {k} \cup HnAbove[k]
        /\ hnVal' = [hnVal EXCEPT ![k]["Dummy"] = HnSynth] /\ UNCHANGED <<hnLog, hnStray>>
        /\ HnIssue("key", k) /\ UNCHANGED hnProcessVars
    BY <1>2 DEF ZwOpenKey
  <2>2. /\ HnMadeUp' = HnMadeUp \cup {k}
        /\ hnUnlisted' # {} => ~(Cardinality(hnAuto') < HnAutoLimit)
    BY <1>2 DEF ZwOpenKey, HnMadeUp, HnInv, HnKeysInv
  <2>3. hnVal \in [HnKeys -> [HnNames -> HnValues]] /\ HnSynth \in HnValues /\ "Dummy" \in HnNames
        /\ HnAbove[k] \subseteq HnKeys /\ k \notin hnKeys
    BY <1>2, HnAssumption DEF HnInv, HnKeysInv, HnValues, HnFound
  <2>4. /\ hnVal' \in [HnKeys -> [HnNames -> HnValues]] /\ hnVal'[k]["Dummy"] = HnSynth
        /\ \A j \in HnKeys, n \in HnNames : (j # k \/ n # "Dummy") => hnVal'[j][n] = hnVal[j][n]
    BY <2>1, <2>3
  <2>5. hnVal[k]["Dummy"] = 0
    BY <2>3 DEF HnInv, HnKeysInv
  <2>6. /\ HnHandlesInv'
        /\ \A r \in hnTable' : r \in hnTable \/ (r.kind = "key" /\ r.of = k)
    BY <2>1, HnIssueStep
  <2>7. HnKeysInv'
    <3>1. \A r \in hnTable' : r.kind = "key" => r.of \in HnKeys /\ HnFound(r.of)' # {}
      BY <2>1, <2>6 DEF HnInv, HnKeysInv, HnFound
    <3>2. hnKeys' \subseteq HnKeys /\ HnMadeUp' \cup HnSeeded \subseteq hnKeys'
      BY <2>1, <2>2, <2>3 DEF HnInv, HnKeysInv
    <3>3. \A j \in HnKeys \ hnKeys' : \A n \in HnNames : hnVal'[j][n] = 0
      BY <2>1, <2>4 DEF HnInv, HnKeysInv
    <3> QED  BY <2>1, <2>2, <2>4, <3>1, <3>2, <3>3 DEF HnInv, HnKeysInv
  <2>8. HnLogInv'
    BY <1>2, <2>1, <2>2, <2>4, <2>5, <2>7, HnLogUntouched
  <2> QED  BY <2>6, <2>7, <2>8 DEF HnInv
<1> QED  BY <1>1, <1>2

LEMMA HnCreateKeyStep == ASSUME HnInv, NEW k \in HnKeys, ZwCreateKey(k) PROVE HnInv'
<1>1. CASE HnFound(k) # {}
  <2>1. PICK key \in HnFound(k) : HnIssue("key", key) /\ UNCHANGED <<hnRegistryVars, hnProcessVars>>
    BY <1>1 DEF ZwCreateKey
  <2> QED  BY <2>1, HnFoundAgain, HnFoundStep
<1>2. CASE HnFound(k) = {}
  <2>1. /\ hnKeys' = hnKeys \cup {k} /\ UNCHANGED <<hnVal, hnAuto, hnUnlisted, hnStray>>
        /\ HnLogged([op |-> "create", key |-> k, name |-> "none", size |-> 0])
        /\ HnIssue("key", k) /\ UNCHANGED hnProcessVars
    BY <1>2 DEF ZwCreateKey
  <2>2. /\ HnHandlesInv'
        /\ \A r \in hnTable' : r \in hnTable \/ (r.kind = "key" /\ r.of = k)
    BY <2>1, HnIssueStep
  <2>3. HnMadeUp' = HnMadeUp /\ k \notin hnKeys /\ "none" \notin HnNames
    BY <1>2, <2>1, HnAssumption DEF HnMadeUp, HnFound
  <2>4. HnKeysInv'
    <3>1. \A r \in hnTable' : r.kind = "key" => r.of \in HnKeys /\ HnFound(r.of)' # {}
      BY <2>1, <2>2 DEF HnInv, HnKeysInv, HnFound
    <3> QED  BY <2>1, <2>3, <3>1 DEF HnInv, HnKeysInv
  <2>5. PICK e \in HnEntry : /\ e = [op |-> "create", key |-> k, name |-> "none", size |-> 0]
                             /\ e.op = "create" /\ e.key = k /\ e.name = "none"
    <3>1. PICK e : e = [op |-> "create", key |-> k, name |-> "none", size |-> 0]
      OBVIOUS
    <3>2. e.op = "create" /\ e.key = k /\ e.name = "none"
      BY <3>1
    <3>3. e \in HnEntry
      BY <3>1 DEF HnEntry
    <3> QED  BY <3>1, <3>2, <3>3
  <2>6. /\ hnLog' \in Seq(HnEntry) /\ Len(hnLog') <= HnLogLimit
        /\ \A i \in DOMAIN hnLog' : hnLog'[i].op = "set" => hnLog'[i].size \in HnSizes
        /\ HnCreated' \subseteq hnKeys'
        /\ Len(hnLog') < HnLogLimit =>
             /\ Len(hnLog) < HnLogLimit
             /\ HnCreated' = HnCreated \cup {k}
             /\ \A i \in DOMAIN hnLog : i \in DOMAIN hnLog' /\ hnLog'[i] = hnLog[i]
             /\ \A j, m : (j # k \/ m # "none") => HnLast(j, m)' = HnLast(j, m)
    BY <2>1, <2>5, HnLoggedStep
  <2>7. \A j, m : HnLast(j, m) \subseteq DOMAIN hnLog
    BY DEF HnLast, HnAbout
  <2>8. ASSUME Len(hnLog') < HnLogLimit, NEW j \in HnKeys, NEW m \in HnNames, <<j, m>> \notin hnStray
        PROVE  HnValueTold(j, m)'
    <3>1. HnLast(j, m)' = HnLast(j, m) /\ hnVal'[j][m] = hnVal[j][m]
      BY <2>1, <2>3, <2>6, <2>8
    <3>2. \A i \in HnLast(j, m) : hnLog'[i] = hnLog[i]
      BY <2>6, <2>7, <2>8
    <3>3. HnValueTold(j, m)
      BY <2>6, <2>8, HnTold DEF HnInv, HnLogInv
    <3> QED  BY <3>1, <3>2, <3>3 DEF HnValueTold
  <2>9. ASSUME Len(hnLog') < HnLogLimit, NEW j \in HnKeys, NEW m \in HnNames, <<j, m>> \in hnStray
        PROVE  HnStrayTold(j)'
    <3>1. HnStrayTold(j)
      BY <2>6, <2>9, HnTold DEF HnInv, HnLogInv
    <3> QED  BY <1>2, <2>1, <2>3, <2>6, <2>9, <3>1, HnStrayStep
  <2>10. ASSUME Len(hnLog') < HnLogLimit, NEW j \in hnKeys'
         PROVE  HnKeyTold(j)'
    <3>1. CASE j = k
      BY <2>6, <2>10, <3>1 DEF HnKeyTold
    <3>2. CASE j # k
      <4>1. HnKeyTold(j)
        BY <2>1, <2>6, <2>10, <3>2, HnTold DEF HnInv, HnLogInv
      <4> QED  BY <2>3, <2>6, <2>10, <4>1 DEF HnKeyTold
    <3> QED  BY <3>1, <3>2
  <2>11. HnLogTells'
    <3>1. hnUnlisted' # {} => ~(Cardinality(hnAuto') < HnAutoLimit)
      BY <2>4 DEF HnKeysInv
    <3> QED
      BY <2>1, <2>8, <2>9, <2>10, <3>1 DEF HnLogTells, HnValueTold, HnStrayTold, HnKeyTold
  <2>12. HnLogInv'
    BY <2>6, <2>11 DEF HnLogInv
  <2> QED  BY <2>2, <2>4, <2>12 DEF HnInv
<1> QED  BY <1>1, <1>2

LEMMA HnQueryStep ==
  ASSUME HnInv, NEW r \in hnTable, NEW n \in HnNames, ZwQueryValueKey(r, n)
  PROVE  HnInv'
<1>1. r.of \in hnKeys /\ r.of \in HnKeys /\ hnVal[r.of][n] = 0
  BY DEF ZwQueryValueKey, HnKeyHandles, HnInv, HnKeysInv
<1>2. /\ hnVal' \in [HnKeys -> [HnNames -> HnValues]] /\ hnVal'[r.of][n] = HnSynth
      /\ \A k \in HnKeys, m \in HnNames : (k # r.of \/ m # n) => hnVal'[k][m] = hnVal[k][m]
  <2>1. hnVal \in [HnKeys -> [HnNames -> HnValues]] /\ HnSynth \in HnValues
    BY DEF HnInv, HnKeysInv, HnValues
  <2>2. hnVal' = [hnVal EXCEPT ![r.of][n] = HnSynth]
    BY DEF ZwQueryValueKey
  <2> QED  BY <1>1, <2>1, <2>2
<1>3. UNCHANGED <<hnTable, hnIssued, hnKeys, hnLog, hnAuto, hnUnlisted, hnStray, hnProcessVars>>
  BY DEF ZwQueryValueKey
<1>4. HnHandlesInv'
  BY <1>3 DEF HnInv, HnHandlesInv, HnClosedIsClosed, HnRecord, HnGrant, hnProcessVars
<1>5. HnMadeUp' = HnMadeUp /\ \A j : HnFound(j)' = HnFound(j)
  BY <1>3 DEF HnMadeUp, HnFound
<1>6. HnKeysInv'
  BY <1>1, <1>2, <1>3, <1>5 DEF HnInv, HnKeysInv
<1>7. HnLogInv'
  BY <1>1, <1>2, <1>3, <1>5, <1>6, HnLogUntouched
<1> QED  BY <1>4, <1>6, <1>7 DEF HnInv

LEMMA HnRegistryKeeps == HnInv /\ HnRegistryStep => HnInv'
<1> SUFFICES ASSUME HnInv, HnRegistryStep
             PROVE  HnInv'
  OBVIOUS
<1>1. ASSUME NEW k \in HnKeys, ObOpenObjectByName(k)
      PROVE  HnInv'
  BY <1>1, HnFoundStep DEF ObOpenObjectByName
<1>2. ASSUME NEW r \in hnTable, NEW n \in HnNames, NEW size \in HnSizes, ZwSetValueKey(r, n, size)
      PROVE  HnInv'
  BY <1>2, HnValueLogged DEF ZwSetValueKey
<1>3. ASSUME NEW r \in hnTable, NEW n \in HnNames, ZwDeleteValueKey(r, n)
      PROVE  HnInv'
  <2>1. r.of \in hnKeys
    BY <1>3 DEF ZwDeleteValueKey, HnKeyHandles, HnInv, HnKeysInv
  <2> QED  BY <1>3, <2>1, HnValueLogged DEF ZwDeleteValueKey
<1> QED
  BY <1>1, <1>2, <1>3, HnOpenKeyStep, HnCreateKeyStep, HnQueryStep DEF HnRegistryStep

-----------------------------------------------------------------------------
\* The steps that leave the registry alone.
LEMMA HnRegistryRests ==
  ASSUME HnInv, UNCHANGED hnRegistryVars,
         \A r \in hnTable' : r.kind = "key" => \E q \in hnTable : q.kind = "key" /\ q.of = r.of
  PROVE  HnKeysInv' /\ HnLogInv'
<1>1. UNCHANGED <<hnKeys, hnVal, hnLog, hnAuto, hnUnlisted, hnStray>>
  BY DEF hnRegistryVars
<1>2. HnMadeUp' = HnMadeUp /\ \A j : HnFound(j)' = HnFound(j)
  BY <1>1 DEF HnMadeUp, HnFound
<1>3. HnKeysInv'
  BY <1>1, <1>2 DEF HnInv, HnKeysInv
<1> QED  BY <1>1, <1>2, <1>3, HnLogUntouched

LEMMA HnHandleKeeps == HnInv /\ HnHandleStep => HnInv'
<1> SUFFICES ASSUME HnInv, HnHandleStep
             PROVE  HnInv'
  OBVIOUS
<1> USE DEF HnHandlesInv, HnClosedIsClosed, HnRecord, HnGrant
<1>1. ASSUME NEW pid \in HnPids, NEW write \in BOOLEAN, ZwOpenProcess(pid, write)
      PROVE  HnInv'
  <2>1. /\ hnIssued \in Nat /\ hnIssued' = hnIssued + 1 /\ hnIssued' \in 0..HnMaxHandles
        /\ 1..hnIssued \subseteq 1..hnIssued' /\ hnIssued' \notin 1..hnIssued
        /\ hnIssued' \in 1..hnIssued'
    BY <1>1, HnAssumption DEF ZwOpenProcess, HnInv
  <2>2. PICK new : /\ new = [h |-> hnIssued', pid |-> pid, write |-> write]
                   /\ hnOpen' = hnOpen \cup {new}
                   /\ new.h = hnIssued' /\ new.pid = pid /\ new.write = write
    <3>1. hnOpen' = hnOpen \cup {[h |-> hnIssued', pid |-> pid, write |-> write]}
      BY <1>1 DEF ZwOpenProcess
    <3>2. PICK new : new = [h |-> hnIssued', pid |-> pid, write |-> write]
      OBVIOUS
    <3>3. new.h = hnIssued' /\ new.pid = pid /\ new.write = write
      BY <3>2
    <3> QED  BY <3>1, <3>2, <3>3
  <2>3. hnOpen' \subseteq HnGrant'
    BY <2>1, <2>2 DEF HnInv
  <2>4. hnTable' \subseteq HnRecord'
    BY <1>1, <2>1 DEF HnInv, ZwOpenProcess
  <2>5. HnClosedIsClosed' /\ hnObClosed' \subseteq 1..hnIssued'
    BY <1>1, <2>1, <2>2 DEF HnInv, ZwOpenProcess
  <2>6. \A r \in hnOpen' : r.write => r.pid \in hnGranted' \cup {HnSystem}
    <3>1. hnGranted \subseteq hnGranted' /\ (write => pid \in hnGranted' \cup {HnSystem})
      BY <1>1 DEF ZwOpenProcess
    <3> QED  BY <2>2, <3>1 DEF HnInv
  <2>7. HnHandlesInv'
    BY <2>1, <2>3, <2>4, <2>5, <2>6
  <2> QED  BY <1>1, <2>7, HnRegistryRests DEF ZwOpenProcess, HnInv
<1>2. ASSUME NEW r \in hnOpen, ZwWriteVirtualMemory(r)
      PROVE  HnInv'
  <2>1. HnHandlesInv'
    BY <1>2 DEF ZwWriteVirtualMemory, HnInv
  <2> QED  BY <1>2, <2>1, HnRegistryRests DEF ZwWriteVirtualMemory, HnInv
<1>3. ASSUME NEW pid \in HnPids, HnSetProtection(pid)
      PROVE  HnInv'
  <2>1. HnHandlesInv'
    BY <1>3 DEF HnSetProtection, HnInv
  <2> QED  BY <1>3, <2>1, HnRegistryRests DEF HnSetProtection, HnInv
<1>4. CASE ObOpenObjectByPointer
  <2>1. /\ HnHandlesInv'
        /\ \A r \in hnTable' : r \in hnTable \/ (r.kind = "object" /\ r.of = "o")
    BY <1>4, HnIssueStep DEF ObOpenObjectByPointer
  <2> QED  BY <1>4, <2>1, HnRegistryRests DEF ObOpenObjectByPointer, HnInv
<1>5. ASSUME NEW h \in 1..hnIssued, ObDuplicateObject(h)
      PROVE  HnInv'
  <2>1. UNCHANGED <<hnRegistryVars, hnProcessVars>>
    BY <1>5 DEF ObDuplicateObject
  <2>2. CASE HnIssue("dup", "h")
    <3>1. /\ HnHandlesInv'
          /\ \A r \in hnTable' : r \in hnTable \/ (r.kind = "dup" /\ r.of = "h")
      BY <2>1, <2>2, HnIssueStep
    <3> QED  BY <2>1, <3>1, HnRegistryRests DEF HnInv
  <2>3. ASSUME NEW q \in hnTable, HnIssue(q.kind, q.of)
        PROVE  HnInv'
    <3>1. q.kind \in {"key", "object", "dup"} /\ q.of \in HnKeys \cup {"o", "h"}
      BY DEF HnInv
    <3>2. /\ HnHandlesInv'
          /\ \A r \in hnTable' : r \in hnTable \/ (r.kind = q.kind /\ r.of = q.of)
      BY <2>1, <2>3, <3>1, HnIssueStep
    <3> QED  BY <2>1, <3>2, HnRegistryRests DEF HnInv
  <2> QED  BY <1>5, <2>2, <2>3 DEF ObDuplicateObject
<1>6. ASSUME NEW h \in 1..hnIssued, ZwClose(h) \/ ObCloseHandle(h)
      PROVE  HnInv'
  <2>1. /\ hnTable' = {r \in hnTable : r.h # h} /\ hnIssued' = hnIssued
        /\ UNCHANGED <<hnRegistryVars, hnWrote, hnGranted>>
    BY <1>6 DEF ZwClose, ObCloseHandle, hnProcessVars
  <2>2. \/ hnOpen' = hnOpen /\ hnObClosed' = hnObClosed
        \/ hnOpen' = {r \in hnOpen : r.h # h} /\ hnObClosed' = hnObClosed \cup {h}
    BY <1>6 DEF ZwClose, ObCloseHandle, hnProcessVars
  <2>3. HnHandlesInv'
    BY <2>1, <2>2 DEF HnInv
  <2> QED  BY <2>1, <2>3, HnRegistryRests DEF HnInv
<1> QED
  BY <1>1, <1>2, <1>3, <1>4, <1>5, <1>6 DEF HnHandleStep

LEMMA HnInvNext == HnInv /\ [HnNext]_hnVars => HnInv'
<1>1. ASSUME HnInv, UNCHANGED hnVars
      PROVE  HnInv'
  <2>1. HnHandlesInv'
    BY <1>1 DEF hnVars, hnProcessVars, HnInv, HnHandlesInv, HnClosedIsClosed, HnRecord, HnGrant
  <2>2. HnKeysInv' /\ HnLogInv'
    BY <1>1, HnRegistryRests DEF hnVars
  <2> QED  BY <2>1, <2>2 DEF HnInv
<1> QED  BY <1>1, HnRegistryKeeps, HnHandleKeeps DEF HnNext

-----------------------------------------------------------------------------
\* Every variable keeps its type.
THEOREM HnTypeCorrect == HnSpec => []HnTypeOK
<1>1. HnInv => HnTypeOK
  BY DEF HnInv, HnHandlesInv, HnKeysInv, HnLogInv, HnTypeOK, HnRecord, HnGrant, HnValues
<1> QED  BY <1>1, HnInvInit, HnInvNext, PTL DEF HnSpec

\* Until it is full the write log tells what the driver did to the registry, but for sets
\* through a spelling that is no key; every key is accounted for; no handle that
\* ObCloseHandle closed can be used, and whoever was written into by handle was opened for
\* writing while it was not protected, or is the process with pid 4.
THEOREM LogAndHandlesExact == HnSpec => []HnExact
<1>1. HnInv => HnExact
  BY DEF HnInv, HnHandlesInv, HnLogInv, HnExact
<1> QED  BY <1>1, HnInvInit, HnInvNext, PTL DEF HnSpec

-----------------------------------------------------------------------------
(***************************************************************************)
(* Containers in guest memory (GuestLists).                                *)
(***************************************************************************)

GlRoots == GlHeads \cup {GlTop}
GlLinks == GlHeads \cup GlEntries \cup {GlNull}

\* The k-th node of a container: itself, its entries, and the end.
GlNode(h, k) ==
  IF k \in 1..Len(glOrder[h]) THEN glOrder[h][k] ELSE IF k = 0 \/ h # GlTop THEN h ELSE GlNull

GlLinked(h) ==
  \A k \in 0..Len(glOrder[h]) :
    /\ glNext[GlNode(h, k)] = GlNode(h, k + 1)
    /\ h # GlTop => glPrev[GlNode(h, k + 1)] = GlNode(h, k)

\* An entry is in one place of one container.
GlApart ==
  \A h, g \in GlRoots : \A i \in 1..Len(glOrder[h]), j \in 1..Len(glOrder[g]) :
    glOrder[h][i] = glOrder[g][j] => h = g /\ i = j

GlRingsInv ==
  /\ glNext \in [GlRoots \cup GlEntries -> GlLinks]
  /\ glPrev \in [GlHeads \cup GlEntries -> GlLinks]
  /\ glOrder \in [GlRoots -> Seq(GlEntries)] /\ glQueue \in Seq(GlEntries)
  /\ GlApart
  /\ \A h \in GlRoots : GlLinked(h)

\* While nothing was deleted, the index of an enumeration is on the table, what was
\* given stands before it, and what is due is on the table.
GlTableInv ==
  /\ glTable \in Seq([key : GlKeys, id : Nat]) /\ glInserts \in Nat /\ glRestart \in Nat
  /\ glDue # {} =>
       /\ glRestart <= Len(glTable)
       /\ \A x \in glDue : \E i \in 1..Len(glTable) : glTable[i].id = x
       /\ glRestart # 0 => glGiven = {glTable[i].id : i \in 1..glRestart}
       /\ glRestart = 0 => glDue \subseteq glGiven

GlInv == GlRingsInv /\ GlTableInv

\* A sequence with an element put before its first.
LEMMA GlConsed ==
  ASSUME NEW S, NEW s \in Seq(S), NEW e \in S
  PROVE  /\ <<e>> \o s \in Seq(S) /\ Len(<<e>> \o s) = Len(s) + 1 /\ Len(s) \in Nat
         /\ (<<e>> \o s)[1] = e
         /\ \A i \in 2..(Len(s) + 1) : (<<e>> \o s)[i] = s[i - 1]
<1>1. <<e>> \in Seq(S) /\ Len(<<e>>) = 1 /\ <<e>>[1] = e /\ Len(s) \in Nat
  BY LenProperties
<1>2. /\ <<e>> \o s \in Seq(S) /\ Len(<<e>> \o s) = 1 + Len(s)
      /\ \A i \in 1..(1 + Len(s)) : (<<e>> \o s)[i] = IF i <= 1 THEN <<e>>[i] ELSE s[i - 1]
  BY <1>1, ConcatProperties
<1> QED  BY <1>1, <1>2

\* The nodes of a container are words of memory with links.
LEMMA GlNodes ==
  ASSUME GlRingsInv, NEW h \in GlRoots
  PROVE  /\ Len(glOrder[h]) \in Nat
         /\ \A k \in 1..Len(glOrder[h]) : GlNode(h, k) = glOrder[h][k] /\ GlNode(h, k) \in GlEntries
         /\ GlNode(h, 0) = h
         /\ GlNode(h, Len(glOrder[h]) + 1) = (IF h = GlTop THEN GlNull ELSE h)
<1>1. glOrder[h] \in Seq(GlEntries)
  BY DEF GlRingsInv
<1>2. Len(glOrder[h]) \in Nat
  BY <1>1, LenProperties
<1>3. \A k \in 1..Len(glOrder[h]) : glOrder[h][k] \in GlEntries
  BY <1>1, ElementOfSeq
<1> QED  BY <1>2, <1>3 DEF GlNode

\* Two nodes of containers are the same only at the same place of the same container;
\* only a ring's head is both its first node and its end.
LEMMA GlNodesApart ==
  ASSUME GlRingsInv, NEW h \in GlRoots, NEW g \in GlRoots,
         NEW i \in 0..Len(glOrder[h]), NEW j \in 0..Len(glOrder[g]), GlNode(h, i) = GlNode(g, j)
  PROVE  h = g /\ i = j
<1>1. /\ Len(glOrder[h]) \in Nat /\ Len(glOrder[g]) \in Nat
      /\ GlNode(h, 0) = h /\ GlNode(g, 0) = g /\ h \notin GlEntries /\ g \notin GlEntries
      /\ i # 0 => i \in 1..Len(glOrder[h]) /\ GlNode(h, i) = glOrder[h][i] /\ GlNode(h, i) \in GlEntries
      /\ j # 0 => j \in 1..Len(glOrder[g]) /\ GlNode(g, j) = glOrder[g][j] /\ GlNode(g, j) \in GlEntries
  <2>1. h \notin GlEntries /\ g \notin GlEntries
    BY GlAssumption DEF GlRoots
  <2>2. i # 0 => i \in 1..Len(glOrder[h])
    BY GlNodes
  <2>3. j # 0 => j \in 1..Len(glOrder[g])
    BY GlNodes
  <2> QED  BY <2>1, <2>2, <2>3, GlNodes
<1>2. CASE i = 0 \/ j = 0
  BY <1>1, <1>2
<1>3. CASE i # 0 /\ j # 0
  BY <1>1, <1>3 DEF GlRingsInv, GlApart
<1> QED  BY <1>2, <1>3

\* The last node, and the node a step of a container came from.
LEMMA GlEndApart ==
  ASSUME GlRingsInv, NEW h \in GlRoots, NEW g \in GlRoots, g # GlTop, h # GlTop,
         NEW i \in 1..(Len(glOrder[h]) + 1), NEW j \in 1..(Len(glOrder[g]) + 1),
         GlNode(h, i) = GlNode(g, j)
  PROVE  h = g /\ i = j
<1>1. /\ Len(glOrder[h]) \in Nat /\ Len(glOrder[g]) \in Nat /\ h \notin GlEntries /\ g \notin GlEntries
      /\ i # Len(glOrder[h]) + 1 => i \in 1..Len(glOrder[h]) /\ GlNode(h, i) \in GlEntries
      /\ j # Len(glOrder[g]) + 1 => j \in 1..Len(glOrder[g]) /\ GlNode(g, j) \in GlEntries
      /\ i = Len(glOrder[h]) + 1 => GlNode(h, i) = h
      /\ j = Len(glOrder[g]) + 1 => GlNode(g, j) = g
  <2>1. h \notin GlEntries /\ g \notin GlEntries
    BY GlAssumption DEF GlRoots
  <2>2. Len(glOrder[h]) \in Nat /\ Len(glOrder[g]) \in Nat
    BY GlNodes
  <2>3. i # Len(glOrder[h]) + 1 => i \in 1..Len(glOrder[h])
    BY <2>2
  <2>4. j # Len(glOrder[g]) + 1 => j \in 1..Len(glOrder[g])
    BY <2>2
  <2> QED  BY <2>1, <2>2, <2>3, <2>4, GlNodes
<1>2. CASE i = Len(glOrder[h]) + 1 \/ j = Len(glOrder[g]) + 1
  BY <1>1, <1>2
<1>3. CASE i # Len(glOrder[h]) + 1 /\ j # Len(glOrder[g]) + 1
  <2>1. i \in 0..Len(glOrder[h]) /\ j \in 0..Len(glOrder[g])
    BY <1>1, <1>3
  <2> QED  BY <2>1, GlNodesApart
<1> QED  BY <1>2, <1>3

-----------------------------------------------------------------------------
\* e becomes the p-th entry of h; what is in the other containers stays.
GlTakesIn(h, e, p) ==
  /\ glOrder' \in [GlRoots -> Seq(GlEntries)]
  /\ \A g \in GlRoots : g # h => glOrder'[g] = glOrder[g]
  /\ Len(glOrder'[h]) = Len(glOrder[h]) + 1 /\ glOrder'[h][p] = e
  /\ \A i \in 1..(p - 1) : glOrder'[h][i] = glOrder[h][i]
  /\ \A i \in (p + 1)..(Len(glOrder[h]) + 1) : glOrder'[h][i] = glOrder[h][i - 1]

\* The p-th entry of h leaves it.
GlGivesUp(h, p) ==
  /\ glOrder' \in [GlRoots -> Seq(GlEntries)]
  /\ \A g \in GlRoots : g # h => glOrder'[g] = glOrder[g]
  /\ Len(glOrder'[h]) = Len(glOrder[h]) - 1
  /\ \A i \in 1..(p - 1) : glOrder'[h][i] = glOrder[h][i]
  /\ \A i \in p..(Len(glOrder[h]) - 1) : glOrder'[h][i] = glOrder[h][i + 1]

GlNowhere(e) == \A g \in GlRoots : \A i \in 1..Len(glOrder[g]) : glOrder[g][i] # e

\* Nodes are where links are kept.
LEMMA GlNodeKinds ==
  ASSUME GlRingsInv, NEW h \in GlRoots, NEW k \in 0..(Len(glOrder[h]) + 1)
  PROVE  /\ k <= Len(glOrder[h]) => GlNode(h, k) \in GlRoots \cup GlEntries
         /\ k >= 1 => GlNode(h, k) \in GlLinks
         /\ h # GlTop => GlNode(h, k) \in GlHeads \cup GlEntries
         /\ \A e \in GlEntries : GlNowhere(e) => GlNode(h, k) # e
<1>1. Len(glOrder[h]) \in Nat
  BY GlNodes
<1>2. CASE k \in 1..Len(glOrder[h])
  BY <1>2, GlNodes DEF GlLinks, GlNowhere
<1>3. CASE k = 0
  BY <1>3, GlNodes, GlAssumption DEF GlRoots, GlLinks
<1>4. CASE k = Len(glOrder[h]) + 1
  BY <1>1, <1>4, GlNodes, GlAssumption DEF GlRoots, GlLinks
<1> QED  BY <1>1, <1>2, <1>3, <1>4

\* A container whose entries and links nobody writes stays linked.
LEMMA GlOtherStays ==
  ASSUME GlRingsInv, NEW g \in GlRoots, glOrder'[g] = glOrder[g],
         \A k \in 0..Len(glOrder[g]) :
           /\ glNext'[GlNode(g, k)] = glNext[GlNode(g, k)]
           /\ g # GlTop => glPrev'[GlNode(g, k + 1)] = glPrev[GlNode(g, k + 1)]
  PROVE  GlLinked(g)'
<1>1. \A k : GlNode(g, k)' = GlNode(g, k)
  BY DEF GlNode
<1>2. GlLinked(g)
  BY DEF GlRingsInv
<1> QED  BY <1>1, <1>2 DEF GlLinked

\* An entry linked in between two neighbours is linked in.
LEMMA GlPutIn ==
  ASSUME GlRingsInv, NEW h \in GlRoots, NEW e \in GlEntries, GlNowhere(e),
         NEW p \in 1..(Len(glOrder[h]) + 1), GlTakesIn(h, e, p),
         glNext' = [glNext EXCEPT ![e] = GlNode(h, p), ![GlNode(h, p - 1)] = e],
         h = GlTop => glPrev' = glPrev,
         h # GlTop => glPrev' = [glPrev EXCEPT ![e] = GlNode(h, p - 1), ![GlNode(h, p)] = e],
         UNCHANGED glQueue
  PROVE  GlRingsInv'
<1>n. PICK n \in Nat : n = Len(glOrder[h])
  BY GlNodes
<1>1. p - 1 \in 0..n /\ p \in 1..(n + 1) /\ p \in 0..(n + 1) /\ p - 1 \in 0..(n + 1)
  BY <1>n
<1>2. /\ GlNode(h, p - 1) \in GlRoots \cup GlEntries /\ GlNode(h, p) \in GlLinks
      /\ h # GlTop => GlNode(h, p) \in GlHeads \cup GlEntries /\ GlNode(h, p - 1) \in GlHeads \cup GlEntries
      /\ GlNode(h, p - 1) # e
  <2>1. p - 1 <= n /\ p >= 1
    BY <1>1
  <2> QED  BY <1>n, <1>1, <2>1, GlNodeKinds
<1>3. /\ glNext' \in [GlRoots \cup GlEntries -> GlLinks]
      /\ glNext'[e] = GlNode(h, p) /\ glNext'[GlNode(h, p - 1)] = e
      /\ \A x \in GlRoots \cup GlEntries : x # e /\ x # GlNode(h, p - 1) => glNext'[x] = glNext[x]
  BY <1>2 DEF GlRingsInv, GlLinks
<1>4. /\ glPrev' \in [GlHeads \cup GlEntries -> GlLinks]
      /\ h # GlTop => /\ GlNode(h, p) # e => glPrev'[e] = GlNode(h, p - 1)
                      /\ glPrev'[GlNode(h, p)] = e
                      /\ \A x \in GlHeads \cup GlEntries :
                           x # e /\ x # GlNode(h, p) => glPrev'[x] = glPrev[x]
  BY <1>2 DEF GlRingsInv, GlLinks
<1>5. \A k \in 0..(n + 1) : GlNode(h, k) # e
  BY <1>n, GlNodeKinds
<1>6. /\ \A k \in 0..(p - 1) : GlNode(h, k)' = GlNode(h, k)
      /\ GlNode(h, p)' = e
      /\ \A k \in (p + 1)..(n + 2) : GlNode(h, k)' = GlNode(h, k - 1)
  <2>1. Len(glOrder'[h]) = n + 1
    BY <1>n DEF GlTakesIn
  <2>2. ASSUME NEW k \in 0..(p - 1)
        PROVE  GlNode(h, k)' = GlNode(h, k)
    <3>1. k = 0 \/ (k \in 1..(p - 1) /\ k \in 1..n /\ k \in 1..(n + 1))
      BY <1>1
    <3> QED  BY <1>n, <2>1, <3>1 DEF GlNode, GlTakesIn
  <2>3. GlNode(h, p)' = e
    BY <1>1, <2>1 DEF GlNode, GlTakesIn
  <2>4. ASSUME NEW k \in (p + 1)..(n + 2)
        PROVE  GlNode(h, k)' = GlNode(h, k - 1)
    <3>1. CASE k = n + 2
      BY <1>n, <2>1, <3>1 DEF GlNode
    <3>2. CASE k # n + 2
      <4>1. k \in (p + 1)..(n + 1) /\ k \in 1..(n + 1) /\ k - 1 \in 1..n
        BY <1>1, <3>2
      <4> QED  BY <1>n, <2>1, <4>1 DEF GlNode, GlTakesIn
    <3> QED  BY <3>1, <3>2
  <2> QED  BY <2>2, <2>3, <2>4
<1>7. \A k \in 0..n : /\ glNext[GlNode(h, k)] = GlNode(h, k + 1)
                      /\ h # GlTop => glPrev[GlNode(h, k + 1)] = GlNode(h, k)
  BY <1>n DEF GlRingsInv, GlLinked
<1>8. GlLinked(h)'
  <2> SUFFICES ASSUME NEW k \in 0..(n + 1)
               PROVE  /\ glNext'[GlNode(h, k)'] = GlNode(h, k + 1)'
                      /\ h # GlTop => glPrev'[GlNode(h, k + 1)'] = GlNode(h, k)'
    BY <1>n DEF GlLinked, GlTakesIn
  <2>1. CASE k < p - 1
    <3>1. k \in 0..n /\ k + 1 \in 0..(p - 1) /\ k \in 0..(p - 1) /\ k # p - 1
          /\ k + 1 \in 1..(n + 1) /\ k + 1 # p
      BY <1>1, <2>1
    <3>2. GlNode(h, k) # GlNode(h, p - 1)
      BY <1>n, <1>1, <3>1, GlNodesApart
    <3>3. h # GlTop => GlNode(h, k + 1) # GlNode(h, p)
      BY <1>n, <1>1, <3>1, GlEndApart
    <3>4. /\ GlNode(h, k) \in GlRoots \cup GlEntries /\ GlNode(h, k) # e /\ GlNode(h, k + 1) # e
          /\ h # GlTop => GlNode(h, k + 1) \in GlHeads \cup GlEntries
      <4>1. k \in 0..(n + 1) /\ k <= n /\ k + 1 \in 0..(n + 1)
        BY <3>1
      <4> QED  BY <1>n, <1>5, <4>1, GlNodeKinds
    <3> QED  BY <1>3, <1>4, <1>6, <1>7, <3>1, <3>2, <3>3, <3>4
  <2>2. CASE k = p - 1
    <3>1. k \in 0..(p - 1) /\ k + 1 = p
      BY <1>1, <2>2
    <3>2. GlNode(h, p) # e
      BY <1>1, <1>5
    <3> QED  BY <1>3, <1>4, <1>6, <2>2, <3>1, <3>2
  <2>3. CASE k = p
    <3>1. k + 1 \in (p + 1)..(n + 2) /\ (k + 1) - 1 = p
      BY <1>1, <2>3
    <3> QED  BY <1>3, <1>4, <1>6, <2>3, <3>1
  <2>4. CASE k > p
    <3>1. /\ k \in (p + 1)..(n + 2) /\ k + 1 \in (p + 1)..(n + 2) /\ (k + 1) - 1 = k
          /\ k - 1 \in 0..n /\ k - 1 # p - 1 /\ k \in 1..(n + 1) /\ k # p /\ (k - 1) + 1 = k
      BY <1>1, <2>4
    <3>2. GlNode(h, k - 1) # GlNode(h, p - 1)
      BY <1>n, <1>1, <3>1, GlNodesApart
    <3>3. h # GlTop => GlNode(h, k) # GlNode(h, p)
      BY <1>n, <1>1, <3>1, GlEndApart
    <3>4. /\ GlNode(h, k - 1) \in GlRoots \cup GlEntries /\ GlNode(h, k - 1) # e /\ GlNode(h, k) # e
          /\ h # GlTop => GlNode(h, k) \in GlHeads \cup GlEntries
      <4>1. k - 1 \in 0..(n + 1) /\ k - 1 <= n /\ k \in 0..(n + 1)
        BY <3>1
      <4> QED  BY <1>n, <1>5, <4>1, GlNodeKinds
    <3>5. glNext'[GlNode(h, k - 1)] = GlNode(h, k) /\ (h # GlTop => glPrev'[GlNode(h, k)] = GlNode(h, k - 1))
      BY <1>3, <1>4, <1>7, <3>1, <3>2, <3>3, <3>4
    <3>6. GlNode(h, k)' = GlNode(h, k - 1) /\ GlNode(h, k + 1)' = GlNode(h, k)
      BY <1>6, <3>1
    <3> QED  BY <3>5, <3>6
  <2> QED  BY <1>1, <2>1, <2>2, <2>3, <2>4
<1>9. ASSUME NEW g \in GlRoots, g # h
      PROVE  GlLinked(g)'
  <2>1. glOrder'[g] = glOrder[g]
    BY <1>9 DEF GlTakesIn
  <2>2. ASSUME NEW k \in 0..Len(glOrder[g])
        PROVE  /\ glNext'[GlNode(g, k)] = glNext[GlNode(g, k)]
               /\ g # GlTop => glPrev'[GlNode(g, k + 1)] = glPrev[GlNode(g, k + 1)]
    <3>1. /\ Len(glOrder[g]) \in Nat /\ k \in 0..(Len(glOrder[g]) + 1) /\ k <= Len(glOrder[g])
          /\ k + 1 \in 0..(Len(glOrder[g]) + 1) /\ k + 1 \in 1..(Len(glOrder[g]) + 1)
      BY GlNodes
    <3>2. /\ GlNode(g, k) \in GlRoots \cup GlEntries /\ GlNode(g, k) # e /\ GlNode(g, k + 1) # e
          /\ g # GlTop => GlNode(g, k + 1) \in GlHeads \cup GlEntries
      BY <3>1, GlNodeKinds
    <3>3. GlNode(g, k) # GlNode(h, p - 1)
      BY <1>n, <1>1, <1>9, <3>1, GlNodesApart
    <3>4. g # GlTop /\ h # GlTop => GlNode(g, k + 1) # GlNode(h, p)
      BY <1>n, <1>1, <1>9, <3>1, GlEndApart
    <3> QED  BY <1>3, <1>4, <3>2, <3>3, <3>4
  <2> QED  BY <2>1, <2>2, GlOtherStays
<1>10. GlApart'
  <2> SUFFICES ASSUME NEW f \in GlRoots, NEW g \in GlRoots,
                      NEW i \in 1..Len(glOrder'[f]), NEW j \in 1..Len(glOrder'[g]),
                      glOrder'[f][i] = glOrder'[g][j]
               PROVE  f = g /\ i = j
    BY DEF GlApart
  <2>1. \A k \in 1..(n + 1) : \/ k = p /\ glOrder'[h][k] = e
                              \/ k < p /\ k \in 1..n /\ glOrder'[h][k] = glOrder[h][k]
                              \/ k > p /\ k - 1 \in 1..n /\ glOrder'[h][k] = glOrder[h][k - 1]
    <3> TAKE k \in 1..(n + 1)
    <3>1. CASE k = p
      BY <3>1 DEF GlTakesIn
    <3>2. CASE k < p
      <4>1. k \in 1..(p - 1) /\ k \in 1..n
        BY <1>1, <3>2
      <4> QED  BY <3>2, <4>1 DEF GlTakesIn
    <3>3. CASE k > p
      <4>1. k \in (p + 1)..(n + 1) /\ k - 1 \in 1..n
        BY <1>1, <3>3
      <4> QED  BY <1>n, <3>3, <4>1 DEF GlTakesIn
    <3> QED  BY <1>1, <3>1, <3>2, <3>3
  <2>2. Len(glOrder'[h]) = n + 1 /\ \A x \in GlRoots : x # h => glOrder'[x] = glOrder[x]
    BY <1>n DEF GlTakesIn
  <2> DEFINE From(x, k) == IF x = h /\ k > p THEN k - 1 ELSE k
  <2>3. ASSUME NEW x \in GlRoots, NEW k \in 1..Len(glOrder'[x])
        PROVE  \/ (x = h /\ k = p /\ glOrder'[x][k] = e)
               \/ /\ From(x, k) \in 1..Len(glOrder[x]) /\ (x # h \/ k # p)
                  /\ glOrder'[x][k] = glOrder[x][From(x, k)] /\ glOrder'[x][k] # e
    <3>1. \A k_1 \in 1..Len(glOrder[x]) : glOrder[x][k_1] # e
      BY DEF GlNowhere
    <3>2. CASE x = h
      <4>1. k \in 1..(n + 1) /\ Len(glOrder[x]) = n
        BY <1>n, <2>2, <3>2
      <4>2. CASE k = p
        BY <2>1, <3>2, <4>1, <4>2
      <4>3. CASE k # p /\ ~(k > p)
        <5>1. From(x, k) = k
          BY <4>3
        <5>2. k \in 1..n /\ glOrder'[h][k] = glOrder[h][k]
          BY <2>1, <4>1, <4>3
        <5> HIDE DEF From
        <5> QED  BY <3>1, <3>2, <4>1, <4>3, <5>1, <5>2
      <4>4. CASE k > p
        <5>1. From(x, k) = k - 1
          BY <3>2, <4>4
        <5>2. k - 1 \in 1..n /\ glOrder'[h][k] = glOrder[h][k - 1] /\ k # p
          BY <1>1, <2>1, <4>1, <4>4
        <5> HIDE DEF From
        <5> QED  BY <3>1, <3>2, <4>1, <5>1, <5>2
      <4> QED  BY <4>2, <4>3, <4>4
    <3>3. CASE x # h
      BY <2>2, <3>1, <3>3
    <3> QED  BY <3>2, <3>3
  <2>4. \A k, l \in 1..(n + 1) : k # p /\ l # p /\ From(h, k) = From(h, l) => k = l
    BY <1>1
  <2>5. CASE (f = h /\ i = p) \/ (g = h /\ j = p)
    BY <2>3, <2>5
  <2>6. CASE (f # h \/ i # p) /\ (g # h \/ j # p)
    <3>1. /\ From(f, i) \in 1..Len(glOrder[f]) /\ From(g, j) \in 1..Len(glOrder[g])
          /\ glOrder[f][From(f, i)] = glOrder[g][From(g, j)]
      BY <2>3, <2>6
    <3>2. f = g /\ From(f, i) = From(g, j)
      <4>1. GlApart
        BY DEF GlRingsInv
      <4>2. PICK a, b : a = From(f, i) /\ b = From(g, j)
        OBVIOUS
      <4>3. /\ a \in 1..Len(glOrder[f]) /\ b \in 1..Len(glOrder[g])
            /\ glOrder[f][a] = glOrder[g][b]
        BY <3>1, <4>2
      <4> HIDE DEF From
      <4>4. f = g /\ a = b
        BY <4>1, <4>3 DEF GlApart
      <4> QED  BY <4>2, <4>4
    <3>3. CASE f = h
      BY <1>n, <2>2, <2>4, <2>6, <3>2, <3>3
    <3>4. CASE f # h
      BY <3>2, <3>4
    <3> QED  BY <3>2, <3>3, <3>4
  <2> QED  BY <2>5, <2>6
<1>11. glOrder' \in [GlRoots -> Seq(GlEntries)] /\ glQueue' \in Seq(GlEntries)
  BY DEF GlTakesIn, GlRingsInv
<1> QED  BY <1>3, <1>4, <1>8, <1>9, <1>10, <1>11 DEF GlRingsInv

\* An entry whose neighbours are linked to each other is out.
LEMMA GlTakenOut ==
  ASSUME GlRingsInv, NEW h \in GlRoots, NEW p \in 1..Len(glOrder[h]), GlGivesUp(h, p),
         glNext' = [glNext EXCEPT ![GlNode(h, p - 1)] = GlNode(h, p + 1)],
         h = GlTop => glPrev' = glPrev,
         h # GlTop => glPrev' = [glPrev EXCEPT ![GlNode(h, p + 1)] = GlNode(h, p - 1)],
         UNCHANGED glQueue
  PROVE  GlRingsInv'
<1>n. PICK n \in Nat : n = Len(glOrder[h])
  BY GlNodes
<1>1. p - 1 \in 0..n /\ p + 1 \in 1..(n + 1) /\ p - 1 \in 0..(n + 1) /\ p + 1 \in 0..(n + 1)
      /\ p \in 1..n
  BY <1>n
<1>2. /\ GlNode(h, p - 1) \in GlRoots \cup GlEntries /\ GlNode(h, p + 1) \in GlLinks
      /\ h # GlTop => GlNode(h, p + 1) \in GlHeads \cup GlEntries /\ GlNode(h, p - 1) \in GlHeads \cup GlEntries
  <2>1. p - 1 <= n /\ p + 1 >= 1
    BY <1>1
  <2> QED  BY <1>n, <1>1, <2>1, GlNodeKinds
<1>3. /\ glNext' \in [GlRoots \cup GlEntries -> GlLinks]
      /\ glNext'[GlNode(h, p - 1)] = GlNode(h, p + 1)
      /\ \A x \in GlRoots \cup GlEntries : x # GlNode(h, p - 1) => glNext'[x] = glNext[x]
  BY <1>2 DEF GlRingsInv, GlLinks
<1>4. /\ glPrev' \in [GlHeads \cup GlEntries -> GlLinks]
      /\ h # GlTop => /\ glPrev'[GlNode(h, p + 1)] = GlNode(h, p - 1)
                      /\ \A x \in GlHeads \cup GlEntries : x # GlNode(h, p + 1) => glPrev'[x] = glPrev[x]
  BY <1>2 DEF GlRingsInv, GlLinks
<1>6. /\ \A k \in 0..(p - 1) : GlNode(h, k)' = GlNode(h, k)
      /\ \A k \in p..n : GlNode(h, k)' = GlNode(h, k + 1)
  <2>1. Len(glOrder'[h]) = n - 1
    BY <1>n DEF GlGivesUp
  <2>2. ASSUME NEW k \in 0..(p - 1)
        PROVE  GlNode(h, k)' = GlNode(h, k)
    <3>1. k = 0 \/ (k \in 1..(p - 1) /\ k \in 1..n /\ k \in 1..(n - 1))
      BY <1>1
    <3> QED  BY <1>n, <2>1, <3>1 DEF GlNode, GlGivesUp
  <2>3. ASSUME NEW k \in p..n
        PROVE  GlNode(h, k)' = GlNode(h, k + 1)
    <3>1. CASE k = n
      BY <1>n, <1>1, <2>1, <3>1 DEF GlNode
    <3>2. CASE k # n
      <4>1. k \in p..(n - 1) /\ k \in 1..(n - 1) /\ k + 1 \in 1..n
        BY <1>1, <3>2
      <4> QED  BY <1>n, <2>1, <4>1 DEF GlNode, GlGivesUp
    <3> QED  BY <3>1, <3>2
  <2> QED  BY <2>2, <2>3
<1>7. \A k \in 0..n : /\ glNext[GlNode(h, k)] = GlNode(h, k + 1)
                      /\ h # GlTop => glPrev[GlNode(h, k + 1)] = GlNode(h, k)
  BY <1>n DEF GlRingsInv, GlLinked
<1>8. GlLinked(h)'
  <2> SUFFICES ASSUME NEW k \in 0..(n - 1)
               PROVE  /\ glNext'[GlNode(h, k)'] = GlNode(h, k + 1)'
                      /\ h # GlTop => glPrev'[GlNode(h, k + 1)'] = GlNode(h, k)'
    BY <1>n DEF GlLinked, GlGivesUp
  <2>1. CASE k < p - 1
    <3>1. k \in 0..n /\ k + 1 \in 0..(p - 1) /\ k \in 0..(p - 1) /\ k # p - 1
          /\ k + 1 \in 1..(n + 1) /\ k + 1 # p + 1
      BY <1>1, <2>1
    <3>2. GlNode(h, k) # GlNode(h, p - 1)
      BY <1>n, <1>1, <3>1, GlNodesApart
    <3>3. h # GlTop => GlNode(h, k + 1) # GlNode(h, p + 1)
      BY <1>n, <1>1, <3>1, GlEndApart
    <3>4. /\ GlNode(h, k) \in GlRoots \cup GlEntries
          /\ h # GlTop => GlNode(h, k + 1) \in GlHeads \cup GlEntries
      <4>1. k \in 0..(n + 1) /\ k <= n /\ k + 1 \in 0..(n + 1)
        BY <3>1
      <4> QED  BY <1>n, <4>1, GlNodeKinds
    <3> QED  BY <1>3, <1>4, <1>6, <1>7, <3>1, <3>2, <3>3, <3>4
  <2>2. CASE k = p - 1
    <3>1. k \in 0..(p - 1) /\ k + 1 = p /\ k + 1 \in p..n /\ (k + 1) + 1 = p + 1
      BY <1>1, <2>2
    <3> QED  BY <1>3, <1>4, <1>6, <2>2, <3>1
  <2>3. CASE k >= p
    <3>1. /\ k \in p..n /\ k + 1 \in p..n /\ k + 1 \in 0..n /\ k + 1 # p - 1
          /\ (k + 1) + 1 \in 1..(n + 1) /\ (k + 1) + 1 # p + 1
      BY <1>1, <2>3
    <3>2. GlNode(h, k + 1) # GlNode(h, p - 1)
      BY <1>n, <1>1, <3>1, GlNodesApart
    <3>3. h # GlTop => GlNode(h, (k + 1) + 1) # GlNode(h, p + 1)
      BY <1>n, <1>1, <3>1, GlEndApart
    <3>4. /\ GlNode(h, k + 1) \in GlRoots \cup GlEntries
          /\ h # GlTop => GlNode(h, (k + 1) + 1) \in GlHeads \cup GlEntries
      <4>1. k + 1 \in 0..(n + 1) /\ k + 1 <= n /\ (k + 1) + 1 \in 0..(n + 1)
        BY <3>1
      <4> QED  BY <1>n, <4>1, GlNodeKinds
    <3>5. GlNode(h, k)' = GlNode(h, k + 1) /\ GlNode(h, k + 1)' = GlNode(h, (k + 1) + 1)
      BY <1>6, <3>1
    <3> QED  BY <1>3, <1>4, <1>7, <3>1, <3>2, <3>3, <3>4, <3>5
  <2> QED  BY <1>1, <2>1, <2>2, <2>3
<1>9. ASSUME NEW g \in GlRoots, g # h
      PROVE  GlLinked(g)'
  <2>1. glOrder'[g] = glOrder[g]
    BY <1>9 DEF GlGivesUp
  <2>2. ASSUME NEW k \in 0..Len(glOrder[g])
        PROVE  /\ glNext'[GlNode(g, k)] = glNext[GlNode(g, k)]
               /\ g # GlTop => glPrev'[GlNode(g, k + 1)] = glPrev[GlNode(g, k + 1)]
    <3>1. /\ Len(glOrder[g]) \in Nat /\ k \in 0..(Len(glOrder[g]) + 1) /\ k <= Len(glOrder[g])
          /\ k + 1 \in 0..(Len(glOrder[g]) + 1) /\ k + 1 \in 1..(Len(glOrder[g]) + 1)
      BY GlNodes
    <3>2. /\ GlNode(g, k) \in GlRoots \cup GlEntries
          /\ g # GlTop => GlNode(g, k + 1) \in GlHeads \cup GlEntries
      BY <3>1, GlNodeKinds
    <3>3. GlNode(g, k) # GlNode(h, p - 1)
      BY <1>n, <1>1, <1>9, <3>1, GlNodesApart
    <3>4. g # GlTop /\ h # GlTop => GlNode(g, k + 1) # GlNode(h, p + 1)
      BY <1>n, <1>1, <1>9, <3>1, GlEndApart
    <3> QED  BY <1>3, <1>4, <3>2, <3>3, <3>4
  <2> QED  BY <2>1, <2>2, GlOtherStays
<1>10. GlApart'
  <2> SUFFICES ASSUME NEW f \in GlRoots, NEW g \in GlRoots,
                      NEW i \in 1..Len(glOrder'[f]), NEW j \in 1..Len(glOrder'[g]),
                      glOrder'[f][i] = glOrder'[g][j]
               PROVE  f = g /\ i = j
    BY DEF GlApart
  <2>2. Len(glOrder'[h]) = n - 1 /\ \A x \in GlRoots : x # h => glOrder'[x] = glOrder[x]
    BY <1>n DEF GlGivesUp
  <2> DEFINE From(x, k) == IF x = h /\ k >= p THEN k + 1 ELSE k
  <2>3. ASSUME NEW x \in GlRoots, NEW k \in 1..Len(glOrder'[x])
        PROVE  From(x, k) \in 1..Len(glOrder[x]) /\ glOrder'[x][k] = glOrder[x][From(x, k)]
    <3>1. CASE x = h /\ k >= p
      <4>1. k \in p..(n - 1) /\ k + 1 \in 1..n
        BY <1>1, <2>2, <3>1
      <4> QED  BY <1>n, <3>1, <4>1 DEF GlGivesUp
    <3>2. CASE x = h /\ ~(k >= p)
      <4>1. k \in 1..(p - 1) /\ k \in 1..n
        BY <1>1, <2>2, <3>2
      <4> QED  BY <1>n, <3>2, <4>1 DEF GlGivesUp
    <3>3. CASE x # h
      BY <2>2, <3>3
    <3> QED  BY <3>1, <3>2, <3>3
  <2>4. PICK a, b : a = From(f, i) /\ b = From(g, j)
    OBVIOUS
  <2>5. /\ a \in 1..Len(glOrder[f]) /\ b \in 1..Len(glOrder[g])
        /\ glOrder[f][a] = glOrder[g][b]
    BY <2>3, <2>4
  <2>6. f = g /\ a = b
    <3>1. GlApart
      BY DEF GlRingsInv
    <3> QED  BY <2>5, <3>1 DEF GlApart
  <2>7. i \in Nat /\ j \in Nat
    <3>1. \A x \in GlRoots : \A k \in 1..Len(glOrder'[x]) : k \in Nat
      OBVIOUS
    <3> QED  BY <3>1
  <2> QED  BY <1>1, <2>4, <2>6, <2>7
<1>11. glOrder' \in [GlRoots -> Seq(GlEntries)] /\ glQueue' \in Seq(GlEntries)
  BY DEF GlGivesUp, GlRingsInv
<1> QED  BY <1>3, <1>4, <1>8, <1>9, <1>10, <1>11 DEF GlRingsInv

-----------------------------------------------------------------------------
\* Every operation on a ring, the SLIST or the queue is one of the two, or leaves the links.
LEMMA GlRingsKeep == GlInv /\ GlRingStep => GlRingsInv' /\ UNCHANGED glTables
<1> SUFFICES ASSUME GlInv, GlRingStep
             PROVE  GlRingsInv' /\ UNCHANGED glTables
  OBVIOUS
<1> GlRingsInv
  BY DEF GlInv
<1>f. ASSUME NEW e \in GlEntries, GlFree(e)
      PROVE  GlNowhere(e)
  <2>1. \A g \in GlRoots : DOMAIN glOrder[g] = 1..Len(glOrder[g]) /\ g \in DOMAIN glOrder
    BY LenProperties DEF GlRingsInv
  <2> QED  BY <1>f, <2>1 DEF GlNowhere, GlFree, Range
<1>t. \A h \in GlHeads : h \in GlRoots /\ h # GlTop
  BY GlAssumption DEF GlRoots
<1>r. GlTop \in GlRoots
  BY DEF GlRoots
<1>o. glOrder \in [GlRoots -> Seq(GlEntries)] /\ \A h \in GlRoots : glOrder[h] \in Seq(GlEntries)
  BY DEF GlRingsInv
<1>l. ASSUME NEW h \in GlRoots
      PROVE  /\ Len(glOrder[h]) \in Nat /\ GlNode(h, 0) = h
             /\ glNext[h] = GlNode(h, 1)
             /\ h # GlTop => /\ glPrev[h] = GlNode(h, Len(glOrder[h]))
                             /\ GlNode(h, Len(glOrder[h]) + 1) = h
             /\ \A k \in 1..Len(glOrder[h]) :
                  /\ GlNode(h, k) = glOrder[h][k] /\ glNext[GlNode(h, k)] = GlNode(h, k + 1)
                  /\ h # GlTop => glPrev[GlNode(h, k)] = GlNode(h, k - 1)
  <2>1. Len(glOrder[h]) \in Nat /\ GlNode(h, 0) = h
        /\ GlNode(h, Len(glOrder[h]) + 1) = (IF h = GlTop THEN GlNull ELSE h)
    BY GlNodes
  <2>2. GlLinked(h)
    BY DEF GlRingsInv
  <2>3. glNext[h] = GlNode(h, 1)
    <3>1. 0 \in 0..Len(glOrder[h])
      BY <2>1
    <3>2. glNext[GlNode(h, 0)] = GlNode(h, 0 + 1)
      BY <2>2, <3>1 DEF GlLinked
    <3> QED  BY <2>1, <3>2
  <2>4. h # GlTop => glPrev[h] = GlNode(h, Len(glOrder[h]))
    <3>1. Len(glOrder[h]) \in 0..Len(glOrder[h])
      BY <2>1
    <3> QED  BY <2>1, <2>2, <3>1 DEF GlLinked
  <2>5. ASSUME NEW k \in 1..Len(glOrder[h])
        PROVE  /\ GlNode(h, k) = glOrder[h][k] /\ glNext[GlNode(h, k)] = GlNode(h, k + 1)
               /\ h # GlTop => glPrev[GlNode(h, k)] = GlNode(h, k - 1)
    <3>1. k \in 0..Len(glOrder[h]) /\ k - 1 \in 0..Len(glOrder[h]) /\ (k - 1) + 1 = k
      BY <2>1
    <3>2. h # GlTop => glPrev[GlNode(h, (k - 1) + 1)] = GlNode(h, k - 1)
      BY <2>2, <3>1 DEF GlLinked
    <3>3. glNext[GlNode(h, k)] = GlNode(h, k + 1)
      BY <2>2, <3>1 DEF GlLinked
    <3> QED  BY <3>1, <3>2, <3>3, GlNodes
  <2> QED  BY <2>1, <2>3, <2>4, <2>5
<1>c. ASSUME NEW h \in GlRoots, NEW e \in GlEntries, glOrder' = [glOrder EXCEPT ![h] = <<e>> \o @]
      PROVE  GlTakesIn(h, e, 1) /\ 1 \in 1..(Len(glOrder[h]) + 1)
  <2>1. PICK s : s = <<e>> \o glOrder[h]
    OBVIOUS
  <2>2. /\ s \in Seq(GlEntries) /\ Len(s) = Len(glOrder[h]) + 1 /\ Len(glOrder[h]) \in Nat /\ s[1] = e
        /\ \A i \in 2..(Len(glOrder[h]) + 1) : s[i] = glOrder[h][i - 1]
    BY <1>o, <2>1, GlConsed
  <2>3. glOrder' = [glOrder EXCEPT ![h] = s]
    BY <1>c, <2>1
  <2>4. glOrder'[h] = s /\ (\A g \in GlRoots : g # h => glOrder'[g] = glOrder[g])
        /\ glOrder' \in [GlRoots -> Seq(GlEntries)]
    BY <1>o, <2>2, <2>3
  <2> QED  BY <2>2, <2>4 DEF GlTakesIn
<1>d. ASSUME NEW h \in GlRoots, NEW p \in 1..Len(glOrder[h]),
             \/ glOrder' = [glOrder EXCEPT ![h] = Tail(@)] /\ p = 1
             \/ glOrder' = [glOrder EXCEPT ![h] = RemoveAt(@, p)]
      PROVE  GlGivesUp(h, p)
  <2>1. PICK s : ((s = Tail(glOrder[h]) /\ p = 1) \/ s = RemoveAt(glOrder[h], p))
                 /\ glOrder' = [glOrder EXCEPT ![h] = s]
    BY <1>d
  <2>2. /\ s \in Seq(GlEntries) /\ Len(s) = Len(glOrder[h]) - 1
        /\ \A i \in 1..(p - 1) : s[i] = glOrder[h][i]
        /\ \A i \in p..(Len(glOrder[h]) - 1) : s[i] = glOrder[h][i + 1]
    <3>1. CASE s = RemoveAt(glOrder[h], p)
      BY <1>o, <3>1, TakenOut
    <3>2. CASE s = Tail(glOrder[h]) /\ p = 1
      <4>1. glOrder[h] # <<>>
        BY <1>l, EmptySeq
      <4>2. /\ s \in Seq(GlEntries) /\ Len(s) = Len(glOrder[h]) - 1
            /\ \A i \in 1..Len(s) : s[i] = glOrder[h][i + 1]
        BY <1>o, <3>2, <4>1, HeadTailProperties
      <4> QED  BY <3>2, <4>2
    <3> QED  BY <2>1, <3>1, <3>2
  <2>3. glOrder'[h] = s /\ (\A g \in GlRoots : g # h => glOrder'[g] = glOrder[g])
        /\ glOrder' \in [GlRoots -> Seq(GlEntries)]
    BY <1>o, <2>1, <2>2
  <2> QED  BY <2>2, <2>3 DEF GlGivesUp
<1>1. ASSUME NEW h \in GlHeads, NEW e \in GlEntries, InsertHeadList(h, e)
      PROVE  GlRingsInv' /\ UNCHANGED glTables
  <2>1. /\ GlNowhere(e) /\ GlTakesIn(h, e, 1) /\ 1 \in 1..(Len(glOrder[h]) + 1) /\ h \in GlRoots
        /\ h # GlTop /\ 1 - 1 = 0
    <3>1. glOrder' = [glOrder EXCEPT ![h] = <<e>> \o @] /\ GlFree(e) /\ h \in GlRoots
      BY <1>1, <1>t DEF InsertHeadList
    <3>2. GlTakesIn(h, e, 1) /\ 1 \in 1..(Len(glOrder[h]) + 1)
      BY <1>c, <3>1
    <3> QED  BY <1>f, <1>t, <3>1, <3>2
  <2>2. /\ glNext' = [glNext EXCEPT ![e] = GlNode(h, 1), ![GlNode(h, 1 - 1)] = e]
        /\ glPrev' = [glPrev EXCEPT ![e] = GlNode(h, 1 - 1), ![GlNode(h, 1)] = e]
        /\ UNCHANGED <<glQueue, glTables>>
    BY <1>1, <1>l, <2>1 DEF InsertHeadList
  <2> QED  BY <2>1, <2>2, GlPutIn
<1>2. ASSUME NEW h \in GlHeads, NEW e \in GlEntries, InsertTailList(h, e)
      PROVE  GlRingsInv' /\ UNCHANGED glTables
  <2>n. PICK n \in Nat : n = Len(glOrder[h]) /\ (n + 1) - 1 = n /\ n + 1 \in 1..(n + 1)
    BY <1>l, <1>t
  <2>1. GlNowhere(e) /\ h \in GlRoots /\ h # GlTop
    BY <1>2, <1>f, <1>t DEF InsertTailList
  <2>2. GlTakesIn(h, e, n + 1)
    <3>1. PICK s : s = Append(glOrder[h], e) /\ glOrder' = [glOrder EXCEPT ![h] = s]
      BY <1>2 DEF InsertTailList
    <3>2. /\ s \in Seq(GlEntries) /\ Len(s) = n + 1 /\ s[n + 1] = e
          /\ \A i \in 1..n : s[i] = glOrder[h][i]
      BY <1>o, <2>n, <2>1, <3>1, Appended
    <3>3. glOrder'[h] = s /\ (\A g \in GlRoots : g # h => glOrder'[g] = glOrder[g])
          /\ glOrder' \in [GlRoots -> Seq(GlEntries)]
      BY <1>o, <2>1, <3>1, <3>2
    <3> QED  BY <2>n, <3>2, <3>3 DEF GlTakesIn
  <2>3. /\ glNext' = [glNext EXCEPT ![e] = GlNode(h, n + 1), ![GlNode(h, (n + 1) - 1)] = e]
        /\ glPrev' = [glPrev EXCEPT ![e] = GlNode(h, (n + 1) - 1), ![GlNode(h, n + 1)] = e]
        /\ UNCHANGED <<glQueue, glTables>>
    <3>1. GlNode(h, n + 1) = h /\ glPrev[h] = GlNode(h, (n + 1) - 1)
      BY <1>l, <2>n, <2>1
    <3> QED  BY <1>2, <3>1 DEF InsertTailList
  <2> QED  BY <2>n, <2>1, <2>2, <2>3, GlPutIn
<1>3. ASSUME NEW h \in GlHeads, NEW e \in GlEntries, RemoveEntryList(h, e)
      PROVE  GlRingsInv' /\ UNCHANGED glTables
  <2>n. h \in GlRoots /\ h # GlTop /\ DOMAIN glOrder[h] = 1..Len(glOrder[h])
    BY <1>t, <1>o, LenProperties
  <2>1. PICK p \in 1..Len(glOrder[h]) : glOrder[h][p] = e /\ glOrder' = [glOrder EXCEPT ![h] = RemoveAt(@, p)]
    BY <1>3, <2>n DEF RemoveEntryList
  <2>2. GlGivesUp(h, p)
    BY <1>d, <2>n, <2>1
  <2>3. glNext[e] = GlNode(h, p + 1) /\ glPrev[e] = GlNode(h, p - 1)
    BY <1>l, <2>n, <2>1
  <2>4. /\ glNext' = [glNext EXCEPT ![GlNode(h, p - 1)] = GlNode(h, p + 1)]
        /\ glPrev' = [glPrev EXCEPT ![GlNode(h, p + 1)] = GlNode(h, p - 1)]
        /\ UNCHANGED <<glQueue, glTables>>
    BY <1>3, <2>3 DEF RemoveEntryList
  <2> QED  BY <2>n, <2>2, <2>4, GlTakenOut
<1>4. ASSUME NEW h \in GlHeads, RemoveHeadList(h)
      PROVE  GlRingsInv' /\ UNCHANGED glTables
  <2>n. h \in GlRoots /\ h # GlTop /\ Len(glOrder[h]) \in Nat
    BY <1>t, <1>l
  <2>1. CASE Len(glOrder[h]) = 0
    <3>1. glOrder[h] = <<>> /\ glNext[h] = h /\ glPrev[h] = h
      BY <1>o, <1>l, <2>n, <2>1, EmptySeq
    <3>2. glOrder' = glOrder /\ glNext' = glNext /\ glPrev' = glPrev /\ UNCHANGED <<glQueue, glTables>>
      <4>1. glOrder' = [glOrder EXCEPT ![h] = glOrder[h]]
        BY <1>4, <3>1 DEF RemoveHeadList
      <4>2. glNext' = [glNext EXCEPT ![h] = h] /\ glPrev' = [glPrev EXCEPT ![h] = h]
            /\ UNCHANGED <<glQueue, glTables>>
        BY <1>4, <3>1 DEF RemoveHeadList
      <4> QED  BY <1>o, <3>1, <4>1, <4>2 DEF GlRingsInv
    <3> QED  BY <3>2 DEF GlRingsInv, GlApart, GlLinked, GlNode
  <2>2. CASE Len(glOrder[h]) # 0
    <3>1. 1 \in 1..Len(glOrder[h]) /\ 1 - 1 = 0 /\ 1 + 1 = 2 /\ glOrder[h] # <<>>
      BY <2>n, <2>2, EmptySeq
    <3>2. GlGivesUp(h, 1)
      <4>1. glOrder' = [glOrder EXCEPT ![h] = Tail(@)]
        BY <1>4, <3>1 DEF RemoveHeadList
      <4> QED  BY <1>d, <2>n, <3>1, <4>1
    <3>3. glNext[glNext[h]] = GlNode(h, 2) /\ GlNode(h, 0) = h
      BY <1>l, <2>n, <3>1
    <3>4. /\ glNext' = [glNext EXCEPT ![GlNode(h, 1 - 1)] = GlNode(h, 1 + 1)]
          /\ glPrev' = [glPrev EXCEPT ![GlNode(h, 1 + 1)] = GlNode(h, 1 - 1)]
          /\ UNCHANGED <<glQueue, glTables>>
      BY <1>4, <3>1, <3>3 DEF RemoveHeadList
    <3> QED  BY <2>n, <3>1, <3>2, <3>4, GlTakenOut
  <2> QED  BY <2>1, <2>2
<1>5. ASSUME NEW e \in GlEntries, PushEntrySList(e)
      PROVE  GlRingsInv' /\ UNCHANGED glTables
  <2>1. /\ GlNowhere(e) /\ GlTakesIn(GlTop, e, 1) /\ 1 \in 1..(Len(glOrder[GlTop]) + 1)
        /\ 1 - 1 = 0
    <3>1. glOrder' = [glOrder EXCEPT ![GlTop] = <<e>> \o @] /\ GlFree(e)
      BY <1>5 DEF PushEntrySList
    <3>2. GlTakesIn(GlTop, e, 1) /\ 1 \in 1..(Len(glOrder[GlTop]) + 1)
      BY <1>c, <1>r, <3>1
    <3> QED  BY <1>f, <3>1, <3>2
  <2>2. /\ glNext' = [glNext EXCEPT ![e] = GlNode(GlTop, 1), ![GlNode(GlTop, 1 - 1)] = e]
        /\ glPrev' = glPrev /\ UNCHANGED <<glQueue, glTables>>
    BY <1>5, <1>l, <1>r, <2>1 DEF PushEntrySList
  <2> QED  BY <1>r, <2>1, <2>2, GlPutIn
<1>6. CASE PopEntrySList
  <2>1. Len(glOrder[GlTop]) # 0 /\ Len(glOrder[GlTop]) \in Nat
    <3>1. Len(glOrder[GlTop]) = 0 => GlNode(GlTop, 1) = GlNull
      BY <1>r, GlNodes
    <3> QED  BY <1>6, <1>l, <1>r, <3>1 DEF PopEntrySList
  <2>2. 1 \in 1..Len(glOrder[GlTop]) /\ 1 - 1 = 0 /\ 1 + 1 = 2
    BY <2>1
  <2>3. GlGivesUp(GlTop, 1)
    <3>1. glOrder' = [glOrder EXCEPT ![GlTop] = Tail(@)]
      BY <1>6 DEF PopEntrySList
    <3> QED  BY <1>d, <1>r, <2>2, <3>1
  <2>4. glNext[glNext[GlTop]] = GlNode(GlTop, 2) /\ GlNode(GlTop, 0) = GlTop
    BY <1>l, <1>r, <2>2
  <2>5. /\ glNext' = [glNext EXCEPT ![GlNode(GlTop, 1 - 1)] = GlNode(GlTop, 1 + 1)]
        /\ glPrev' = glPrev /\ UNCHANGED <<glQueue, glTables>>
    BY <1>6, <2>2, <2>4 DEF PopEntrySList
  <2> QED  BY <1>r, <2>2, <2>3, <2>5, GlTakenOut
<1>7. CASE FlushSList
  <2>1. /\ glNext' = [glNext EXCEPT ![GlTop] = GlNull] /\ glOrder' = [glOrder EXCEPT ![GlTop] = <<>>]
        /\ UNCHANGED <<glPrev, glQueue, glTables>>
    BY <1>7 DEF FlushSList
  <2>2. /\ glOrder' \in [GlRoots -> Seq(GlEntries)]
        /\ \A g \in GlRoots : g # GlTop => glOrder'[g] = glOrder[g]
        /\ glOrder'[GlTop] = <<>> /\ Len(glOrder'[GlTop]) = 0
    BY <1>o, <1>r, <2>1, EmptySeq
  <2>3. /\ glNext' \in [GlRoots \cup GlEntries -> GlLinks] /\ glNext'[GlTop] = GlNull
        /\ \A x \in GlRoots \cup GlEntries : x # GlTop => glNext'[x] = glNext[x]
    BY <1>r, <2>1 DEF GlRingsInv, GlLinks
  <2>4. GlLinked(GlTop)'
    BY <2>2, <2>3 DEF GlLinked, GlNode
  <2>5. ASSUME NEW g \in GlRoots, g # GlTop
        PROVE  GlLinked(g)'
    <3>1. ASSUME NEW k \in 0..Len(glOrder[g])
          PROVE  GlNode(g, k) # GlTop /\ GlNode(g, k) \in GlRoots \cup GlEntries
      <4>1. /\ k <= Len(glOrder[g]) /\ k \in 0..(Len(glOrder[g]) + 1)
            /\ 0 \in 0..Len(glOrder[GlTop]) /\ GlNode(GlTop, 0) = GlTop
        BY <1>l, <1>r
      <4>2. GlNode(g, k) # GlNode(GlTop, 0)
        BY <1>r, <2>5, <4>1, GlNodesApart
      <4> QED  BY <4>1, <4>2, GlNodeKinds
    <3>2. glOrder'[g] = glOrder[g] /\ glPrev' = glPrev
      BY <2>1, <2>2, <2>5
    <3> QED  BY <2>3, <3>1, <3>2, GlOtherStays
  <2>6. GlApart'
    <3>1. \A f \in GlRoots : \A i \in 1..Len(glOrder'[f]) : f # GlTop /\ glOrder'[f] = glOrder[f]
      BY <2>2
    <3> QED  BY <3>1 DEF GlRingsInv, GlApart
  <2> QED  BY <2>1, <2>2, <2>3, <2>4, <2>5, <2>6 DEF GlRingsInv
<1>8. ASSUME UNCHANGED <<glNext, glPrev, glOrder, glTables>>, glQueue' \in Seq(GlEntries)
      PROVE  GlRingsInv' /\ UNCHANGED glTables
  BY <1>8 DEF GlRingsInv, GlApart, GlLinked, GlNode
<1>9. ASSUME NEW e \in GlEntries, KeInsertQueue(e)
      PROVE  GlRingsInv' /\ UNCHANGED glTables
  <2>1. glQueue \in Seq(GlEntries)
    BY DEF GlRingsInv
  <2>2. glQueue' \in Seq(GlEntries)
    BY <1>9, <2>1, Appended DEF KeInsertQueue
  <2> QED  BY <1>8, <1>9, <2>2 DEF KeInsertQueue
<1>10. CASE KeRemoveQueueEx
  <2>1. glQueue \in Seq(GlEntries)
    BY DEF GlRingsInv
  <2>2. glQueue' \in Seq(GlEntries)
    BY <1>10, <2>1, HeadTailProperties DEF KeRemoveQueueEx
  <2> QED  BY <1>8, <1>10, <2>2 DEF KeRemoveQueueEx
<1>11. CASE KeRundownQueue
  BY <1>8, <1>11, EmptySeq DEF KeRundownQueue
<1> QED  BY <1>1, <1>2, <1>3, <1>4, <1>5, <1>6, <1>7, <1>9, <1>10, <1>11 DEF GlRingStep

\* A deletion ends what is due; an insertion and a step keep what was given.
LEMMA GlTableKeeps == GlInv /\ GlTableStep => GlTableInv' /\ UNCHANGED glRings
<1> SUFFICES ASSUME GlInv, GlTableStep
             PROVE  GlTableInv' /\ UNCHANGED glRings
  OBVIOUS
<1> DEFINE El == [key : GlKeys, id : Nat]
<1>n. PICK n \in Nat : n = Len(glTable)
  BY LenProperties DEF GlInv, GlTableInv
<1>t. glTable \in Seq(El) /\ glInserts \in Nat /\ glRestart \in Nat /\ DOMAIN glTable = 1..n
  BY <1>n, LenProperties DEF GlInv, GlTableInv
<1>1. ASSUME NEW k \in GlKeys, RtlInsertElement(k)
      PROVE  GlTableInv' /\ UNCHANGED glRings
  <2>1. PICK el \in El : el = [key |-> k, id |-> glInserts]
    BY <1>t
  <2>2. /\ glTable' = Append(glTable, el) /\ glInserts' = glInserts + 1
        /\ UNCHANGED <<glRestart, glGiven, glDue, glRings>>
    BY <1>1, <2>1 DEF RtlInsertElement
  <2>3. /\ glTable' \in Seq(El) /\ Len(glTable') = n + 1
        /\ \A i \in 1..n : glTable'[i] = glTable[i]
    BY <1>n, <1>t, <2>2, Appended
  <2>4. glDue # {} => /\ glRestart <= n
                      /\ \A x \in glDue : \E i \in 1..n : glTable[i].id = x
                      /\ glRestart # 0 => glGiven = {glTable[i].id : i \in 1..glRestart}
                      /\ glRestart = 0 => glDue \subseteq glGiven
    BY <1>n DEF GlInv, GlTableInv
  <2>5. glDue' # {} =>
          /\ glRestart' <= n + 1
          /\ \A x \in glDue' : \E i \in 1..(n + 1) : glTable'[i].id = x
          /\ glRestart' # 0 => glGiven' = {glTable'[i].id : i \in 1..glRestart'}
          /\ glRestart' = 0 => glDue' \subseteq glGiven'
    <3> SUFFICES ASSUME glDue # {}
                 PROVE  /\ glRestart <= n + 1
                        /\ \A x \in glDue : \E i \in 1..(n + 1) : glTable'[i].id = x
                        /\ glRestart # 0 => glGiven = {glTable'[i].id : i \in 1..glRestart}
                        /\ glRestart = 0 => glDue \subseteq glGiven
      BY <2>2
    <3>1. \A i \in 1..n : i \in 1..(n + 1)
      OBVIOUS
    <3>2. \A i \in 1..glRestart : i \in 1..n
      BY <1>t, <2>4
    <3>3. glRestart <= n + 1
      BY <1>t, <2>4
    <3>4. {glTable'[i].id : i \in 1..glRestart} = {glTable[i].id : i \in 1..glRestart}
      BY <2>3, <3>2
    <3>5. \A x \in glDue : \E i \in 1..(n + 1) : glTable'[i].id = x
      BY <2>3, <2>4, <3>1
    <3> QED  BY <2>4, <3>3, <3>4, <3>5
  <2> QED  BY <1>t, <2>2, <2>3, <2>5 DEF GlTableInv
<1>2. ASSUME NEW k \in GlKeys, RtlDeleteElement(k)
      PROVE  GlTableInv' /\ UNCHANGED glRings
  <2>1. PICK at \in 1..n : glTable' = RemoveAt(glTable, at)
    BY <1>2, <1>t DEF RtlDeleteElement
  <2>2. glTable' \in Seq(El)
    BY <1>n, <1>t, <2>1, TakenOut
  <2> QED  BY <1>2, <1>t, <2>2 DEF RtlDeleteElement, GlTableInv
<1>3. CASE RtlEnumerateElement
  <2>1. UNCHANGED <<glTable, glInserts, glRings>>
    BY <1>3 DEF RtlEnumerateElement
  <2>2. glDue # {} => /\ glRestart <= n
                      /\ \A x \in glDue : \E i \in 1..n : glTable[i].id = x
                      /\ glRestart # 0 => glGiven = {glTable[i].id : i \in 1..glRestart}
                      /\ glRestart = 0 => glDue \subseteq glGiven
    BY <1>n DEF GlInv, GlTableInv
  <2>3. CASE glRestart < n
    <3>1. /\ glRestart' = glRestart + 1
          /\ glGiven' = (IF glRestart = 0 THEN {} ELSE glGiven) \cup {glTable[glRestart + 1].id}
          /\ glDue' = IF glRestart = 0 THEN {glTable[i].id : i \in 1..n} ELSE glDue
      BY <1>3, <1>n, <1>t, <2>3 DEF RtlEnumerateElement
    <3>2. glRestart' \in Nat /\ glRestart' # 0 /\ glRestart' <= n
      BY <1>t, <2>3, <3>1
    <3>3. \A x \in glDue' : \E i \in 1..n : glTable[i].id = x
      <4>1. CASE glRestart = 0
        BY <3>1, <4>1
      <4>2. CASE glRestart # 0
        BY <2>2, <3>1, <4>2
      <4> QED  BY <4>1, <4>2
    <3>4. glDue' # {} => glGiven' = {glTable[i].id : i \in 1..(glRestart + 1)}
      <4>1. \A i : i \in 1..(glRestart + 1) <=> i \in 1..glRestart \/ i = glRestart + 1
        BY <1>t
      <4>2. CASE glRestart = 0
        <5>1. \A i : i \in 1..(glRestart + 1) <=> i = glRestart + 1
          BY <4>2
        <5> QED  BY <3>1, <4>2, <5>1
      <4>3. CASE glRestart # 0
        BY <2>2, <3>1, <4>1, <4>3
      <4> QED  BY <4>2, <4>3
    <3> QED  BY <1>n, <1>t, <2>1, <3>1, <3>2, <3>3, <3>4 DEF GlTableInv
  <2>4. CASE ~(glRestart < n)
    <3>1. glRestart' = 0 /\ UNCHANGED <<glGiven, glDue>>
      BY <1>3, <1>n, <2>4 DEF RtlEnumerateElement
    <3>2. glDue # {} => glDue \subseteq glGiven
      <4>1. glDue # {} /\ glRestart # 0 => glRestart = n
        BY <1>t, <2>2, <2>4
      <4>2. glRestart = 0 => (glDue # {} => glDue \subseteq glGiven)
        BY <2>2
      <4>3. glDue # {} /\ glRestart # 0 => glDue \subseteq glGiven
        BY <2>2, <4>1
      <4> QED  BY <4>2, <4>3
    <3> QED  BY <1>n, <1>t, <2>1, <2>2, <3>1, <3>2 DEF GlTableInv
  <2> QED  BY <1>t, <2>3, <2>4
<1> QED  BY <1>1, <1>2, <1>3 DEF GlTableStep

LEMMA GlInvInit == GlInit => GlInv
<1> SUFFICES ASSUME GlInit
             PROVE  GlInv
  OBVIOUS
<1>1. glOrder \in [GlRoots -> Seq(GlEntries)] /\ \A h \in GlRoots : Len(glOrder[h]) = 0
  BY EmptySeq DEF GlInit, GlRoots
<1>2. /\ glNext \in [GlRoots \cup GlEntries -> GlLinks]
      /\ glPrev \in [GlHeads \cup GlEntries -> GlLinks]
  BY DEF GlInit, GlRoots, GlLinks
<1>3. GlApart
  BY <1>1 DEF GlApart
<1>4. ASSUME NEW h \in GlRoots
      PROVE  GlLinked(h)
  BY <1>1, GlAssumption DEF GlLinked, GlNode, GlInit, GlRoots
<1>5. GlTableInv
  BY EmptySeq DEF GlInit, GlTableInv
<1>6. glQueue \in Seq(GlEntries)
  BY EmptySeq DEF GlInit
<1> QED  BY <1>1, <1>2, <1>3, <1>4, <1>5, <1>6 DEF GlInv, GlRingsInv

LEMMA GlInvNext == GlInv /\ [GlNext]_glVars => GlInv'
<1> SUFFICES ASSUME GlInv, [GlNext]_glVars
             PROVE  GlInv'
  OBVIOUS
<1>1. CASE GlRingStep
  <2>1. GlRingsInv' /\ UNCHANGED glTables
    BY <1>1, GlRingsKeep
  <2>2. UNCHANGED <<glTable, glInserts, glRestart, glGiven, glDue>>
    BY <2>1 DEF glTables
  <2>3. GlTableInv'
    BY <2>2 DEF GlInv, GlTableInv
  <2> QED  BY <2>1, <2>3 DEF GlInv
<1>2. CASE GlTableStep
  <2>1. GlTableInv' /\ UNCHANGED glRings
    BY <1>2, GlTableKeeps
  <2> QED  BY <2>1 DEF GlInv, GlRingsInv, GlApart, GlLinked, GlNode, glRings
<1>3. CASE UNCHANGED glVars
  BY <1>3 DEF GlInv, GlRingsInv, GlApart, GlLinked, GlNode, GlTableInv, glVars, glTables
<1> QED  BY <1>1, <1>2, <1>3 DEF GlNext

-----------------------------------------------------------------------------
\* What the links say of the nodes says it of the list with its ends.
LEMMA GlLinksAgree == GlInv => GlListsAgree
<1> SUFFICES ASSUME GlInv
             PROVE  GlListsAgree
  OBVIOUS
<1> GlRingsInv
  BY DEF GlInv
<1>1. ASSUME NEW h \in GlRoots, NEW z, h = GlTop => z = GlNull, h # GlTop => z = h,
             NEW s, s = <<h>> \o glOrder[h] \o <<z>>
      PROVE  /\ Len(s) = Len(glOrder[h]) + 2 /\ Len(glOrder[h]) \in Nat
             /\ \A i \in 1..(Len(glOrder[h]) + 2) : s[i] = GlNode(h, i - 1)
  <2> DEFINE S == GlEntries \cup {h, z}
  <2>n. PICK n \in Nat : n = Len(glOrder[h])
    BY GlNodes
  <2>1. glOrder[h] \in Seq(S) /\ z \in S /\ h \in S
    <3>1. glOrder[h] \in Seq(GlEntries) /\ GlEntries \subseteq S
      BY DEF GlRingsInv
    <3> QED  BY <3>1, SeqMonotonic
  <2> HIDE DEF S
  <2>2. PICK a : a = <<h>> \o glOrder[h]
    OBVIOUS
  <2>3. a \in Seq(S) /\ Len(a) = n + 1 /\ a[1] = h /\ \A i \in 2..(n + 1) : a[i] = glOrder[h][i - 1]
    BY <2>n, <2>1, <2>2, GlConsed
  <2>4. PICK b : b = <<z>>
    OBVIOUS
  <2>5. b \in Seq(S) /\ Len(b) = 1 /\ b[1] = z
    BY <2>1, <2>4
  <2>6. s = a \o b
    BY <1>1, <2>2, <2>4
  <2>7. /\ Len(s) = Len(a) + Len(b)
        /\ \A i \in 1..(Len(a) + Len(b)) : s[i] = IF i <= Len(a) THEN a[i] ELSE b[i - Len(a)]
    BY <2>3, <2>5, <2>6, ConcatProperties
  <2>8. Len(s) = n + 2 /\ \A i \in 1..(n + 2) : s[i] = IF i <= n + 1 THEN a[i] ELSE b[i - (n + 1)]
    BY <2>3, <2>5, <2>7
  <2>9. ASSUME NEW i \in 1..(n + 2)
        PROVE  s[i] = GlNode(h, i - 1)
    <3>1. CASE i = 1
      BY <2>3, <2>8, <3>1, GlNodes
    <3>2. CASE i \in 2..(n + 1)
      <4>1. i - 1 \in 1..n /\ i <= n + 1
        BY <3>2
      <4> QED  BY <2>n, <2>3, <2>8, <3>2, <4>1, GlNodes
    <3>3. CASE i = n + 2
      <4>1. s[i] = b[1] /\ i - 1 = n + 1
        BY <2>8, <3>3
      <4> QED  BY <1>1, <2>n, <2>5, <4>1, GlNodes
    <3> QED  BY <3>1, <3>2, <3>3
  <2> QED  BY <2>n, <2>8, <2>9
<1>2. ASSUME NEW h \in GlRoots, NEW i \in 1..(Len(glOrder[h]) + 1)
      PROVE  /\ glNext[GlNode(h, i - 1)] = GlNode(h, i)
             /\ h # GlTop => glPrev[GlNode(h, i)] = GlNode(h, i - 1)
             /\ i \in 1..(Len(glOrder[h]) + 2) /\ i + 1 \in 1..(Len(glOrder[h]) + 2) /\ (i + 1) - 1 = i
  <2>1. /\ i - 1 \in 0..Len(glOrder[h]) /\ (i - 1) + 1 = i /\ i \in 1..(Len(glOrder[h]) + 2)
        /\ i + 1 \in 1..(Len(glOrder[h]) + 2) /\ (i + 1) - 1 = i
    BY GlNodes
  <2>2. GlLinked(h)
    BY DEF GlRingsInv
  <2>3. /\ glNext[GlNode(h, i - 1)] = GlNode(h, (i - 1) + 1)
        /\ h # GlTop => glPrev[GlNode(h, (i - 1) + 1)] = GlNode(h, i - 1)
    BY <2>1, <2>2 DEF GlLinked
  <2> QED  BY <2>1, <2>3
<1>3. ASSUME NEW h \in GlHeads
      PROVE  LET s == <<h>> \o glOrder[h] \o <<h>>
             IN \A i \in 1..Len(s) - 1 : glNext[s[i]] = s[i + 1] /\ glPrev[s[i + 1]] = s[i]
  <2>1. h \in GlRoots /\ h # GlTop
    BY GlAssumption DEF GlRoots
  <2>2. PICK s : s = <<h>> \o glOrder[h] \o <<h>>
    OBVIOUS
  <2>3. /\ Len(s) = Len(glOrder[h]) + 2 /\ Len(glOrder[h]) \in Nat
        /\ \A i \in 1..(Len(glOrder[h]) + 2) : s[i] = GlNode(h, i - 1)
    BY <1>1, <2>1, <2>2
  <2>4. \A i \in 1..(Len(glOrder[h]) + 1) : glNext[s[i]] = s[i + 1] /\ glPrev[s[i + 1]] = s[i]
    BY <1>2, <2>1, <2>3
  <2>5. Len(s) - 1 = Len(glOrder[h]) + 1
    BY <2>3
  <2>6. \A i \in 1..Len(s) - 1 : glNext[s[i]] = s[i + 1] /\ glPrev[s[i + 1]] = s[i]
    BY <2>4, <2>5
  <2> QED  BY <2>2, <2>6
<1>4. LET s == <<GlTop>> \o glOrder[GlTop] \o <<GlNull>>
      IN \A i \in 1..Len(s) - 1 : glNext[s[i]] = s[i + 1]
  <2>1. GlTop \in GlRoots
    BY DEF GlRoots
  <2>2. PICK s : s = <<GlTop>> \o glOrder[GlTop] \o <<GlNull>>
    OBVIOUS
  <2>3. /\ Len(s) = Len(glOrder[GlTop]) + 2 /\ Len(glOrder[GlTop]) \in Nat
        /\ \A i \in 1..(Len(glOrder[GlTop]) + 2) : s[i] = GlNode(GlTop, i - 1)
    BY <1>1, <2>1, <2>2
  <2>4. \A i \in 1..(Len(glOrder[GlTop]) + 1) : glNext[s[i]] = s[i + 1]
    BY <1>2, <2>1, <2>3, SMTT(30)
  <2>5. Len(s) - 1 = Len(glOrder[GlTop]) + 1
    BY <2>3
  <2>6. \A i \in 1..Len(s) - 1 : glNext[s[i]] = s[i + 1]
    BY <2>4, <2>5
  <2> QED  BY <2>2, <2>6
<1> QED  BY <1>3, <1>4 DEF GlListsAgree

\* Words and entries, indices and elements of the containers are in range, whatever
\* a driver inserts, removes and enumerates.
THEOREM GlTypeCorrect == GlSpec => []GlTypeOK
<1>1. GlInv => GlTypeOK
  BY DEF GlInv, GlRingsInv, GlTableInv, GlTypeOK, GlRoots, GlLinks
<1> QED  BY <1>1, GlInvInit, GlInvNext, PTL DEF GlSpec

\* The rings and the SLIST hold what was put in and not taken out, read in either
\* direction, and an enumeration that nothing is deleted under gives every element
\* that was there, for every set of heads, entries and keys.
THEOREM ContainersExact == GlSpec => []GlContainersExact
<1>1. GlInv => GlContainersExact
  BY GlLinksAgree DEF GlInv, GlTableInv, GlContainersExact, GlEnumExact
<1> QED  BY <1>1, GlInvInit, GlInvNext, PTL DEF GlSpec

-----------------------------------------------------------------------------
(***************************************************************************)
(* The rings of io_uring (IoUring).                                        *)
(***************************************************************************)
\* Two multiples of n differ by at least n.
LEMMA MultiplesApart ==
  ASSUME NEW n \in Nat \ {0}, NEW a \in Int, NEW b \in Int, n * a < n * b
  PROVE  n * b - n * a >= n
<1>1. a < b
  OBVIOUS
<1>2. b - a >= 1
  BY <1>1
<1>3. n * (b - a) >= n
  BY <1>2
<1> QED  BY <1>3

\* Two positions of a ring less than its length apart have different slots.
LEMMA SlotsDiffer ==
  ASSUME NEW n \in Nat \ {0}, NEW p \in Nat, NEW q \in Nat, p < q, q - p < n
  PROVE  p % n # q % n
<1> SUFFICES ASSUME p % n = q % n
             PROVE  FALSE
  OBVIOUS
<1>1. PICK a \in Int, b \in Int : p = n * a + (p % n) /\ q = n * b + (q % n)
  <2>1. p \div n \in Int /\ p = n * (p \div n) + (p % n)
    OBVIOUS
  <2>2. q \div n \in Int /\ q = n * (q \div n) + (q % n)
    OBVIOUS
  <2> QED  BY <2>1, <2>2
<1>2. p % n \in Int /\ n * a \in Int /\ n * b \in Int
  OBVIOUS
<1>3. n * a < n * b /\ n * b - n * a < n
  BY <1>1, <1>2
<1> QED  BY <1>3, MultiplesApart

\* A position has a slot.
LEMMA SlotInRing ==
  ASSUME NEW n \in Nat \ {0}, NEW p \in Nat
  PROVE  p % n \in 0..(n - 1)
OBVIOUS
-----------------------------------------------------------------------------
\* The completions on the ring are the last ones posted.
IoRing ==
  /\ posted \in Seq(0..MaxSqes)
  /\ cq \in [CqSlots -> 0..MaxSqes]
  /\ RingHoldsLog

\* The submissions a drive would complete now are written ones, each in one slot, and no
\* drive has completed any of them.
IoQueue ==
  /\ sqTail - sqHead <= SqEntries
  /\ driven \subseteq 1..written
  /\ \A p \in sqHead..(sqTail - 1) : sq[p % SqEntries] \in (1..written) \ driven
  /\ \A p, q \in sqHead..(sqTail - 1) :
       p # q => sq[p % SqEntries] # sq[q % SqEntries]

\* The types of the submission side.
IoSqType ==
  /\ sq \in [SqSlots -> 0..MaxSqes]
  /\ sqHead \in Nat /\ sqTail \in Nat
  /\ awaiting \in [Drives -> {NotAwaiting} \cup SqSlots \cup {SqEntries}]
  /\ written \in 0..MaxSqes

IoInv == IoSqType /\ IoRing /\ IoQueue

\* The completion ring has slots, twice as many as the other one.
LEMMA RingLength == CqEntries \in Nat \ {0}
BY IoUringAssumption DEF CqEntries

\* A batch is a sequence of submissions, empty when its length is negative.
LEMMA BatchType ==
  ASSUME IoSqType, NEW n \in Int
  PROVE  /\ Batch(n) \in Seq(0..MaxSqes)
         /\ Len(Batch(n)) = IF n >= 0 THEN n ELSE 0
         /\ DOMAIN Batch(n) = 1..n
         /\ \A k \in 1..n : Batch(n)[k] = sq[(sqHead + k - 1) % SqEntries]
<1>1. \A k \in 1..n : sq[(sqHead + k - 1) % SqEntries] \in 0..MaxSqes
  <2> SUFFICES ASSUME NEW k \in 1..n
               PROVE  sq[(sqHead + k - 1) % SqEntries] \in 0..MaxSqes
    OBVIOUS
  <2>1. sqHead + k - 1 \in Nat
    BY DEF IoSqType
  <2>2. (sqHead + k - 1) % SqEntries \in SqSlots
    BY <2>1, IoUringAssumption, SlotInRing DEF SqSlots
  <2> QED  BY <2>2 DEF IoSqType
<1>2. CASE n >= 0
  BY <1>1, <1>2 DEF Batch
<1>3. CASE ~(n >= 0)
  <2>1. 1..n = {} /\ 1..n = 1..0
    BY <1>3
  <2>2. Batch(n) = [k \in 1..0 |-> sq[(sqHead + k - 1) % SqEntries]]
    BY <2>1 DEF Batch
  <2> QED  BY <1>3, <2>1, <2>2
<1> QED  BY <1>2, <1>3

\* Whatever order a batch is completed in, it is a sequence as long as the batch.
LEMMA OrdersType ==
  ASSUME NEW S, NEW batch \in Seq(S), NEW mode, NEW done \in Orders(batch, mode)
  PROVE  done \in Seq(S) /\ Len(done) = Len(batch)
<1>1. CASE mode = "fifo"
  BY <1>1 DEF Orders
<1>2. CASE mode # "fifo"
  <2>1. PICK p \in Bijection(DOMAIN batch, DOMAIN batch) :
               done = [k \in DOMAIN batch |-> batch[p[k]]]
    BY <1>2 DEF Orders
  <2>2. p \in [DOMAIN batch -> DOMAIN batch]
    BY <2>1 DEF Bijection, Injection
  <2>3. DOMAIN batch = 1..Len(batch) /\ Len(batch) \in Nat
    OBVIOUS
  <2>4. \A k \in 1..Len(batch) : batch[p[k]] \in S
    BY <2>2, <2>3
  <2> QED  BY <2>1, <2>3, <2>4
<1> QED  BY <1>1, <1>2

\* Completions are written behind those that are there: the ring holds the last ones.
LEMMA PostKeepsRing ==
  ASSUME IoRing, NEW done \in Seq(0..MaxSqes), Len(done) <= CqEntries, Post(done)
  PROVE  IoRing'
<1> DEFINE n == Len(done)
           last(s) == {k \in 1..n : CqSlot(cqTail + k - 1) = s}
<1>1. /\ cqTail \in Nat /\ cqTail = Len(posted) /\ n \in Nat
      /\ posted' = posted \o done /\ cqTail' = cqTail + n
      /\ cq' = [s \in CqSlots |-> IF last(s) = {} THEN cq[s] ELSE done[Max(last(s))]]
  BY DEF IoRing, RingHoldsLog, Post
<1>e. \A k \in 1..Len(done) : done[k] \in 0..MaxSqes
  BY ElementOfSeq
<1>2. /\ posted' \in Seq(0..MaxSqes) /\ cqTail' = Len(posted')
      /\ \A p \in 1..Len(posted) : posted'[p] = posted[p]
      /\ \A k \in 1..n : posted'[Len(posted) + k] = done[k]
  BY <1>1 DEF IoRing
<1>3. ASSUME NEW k \in 1..n, NEW j \in 1..n, k < j
      PROVE  CqSlot(cqTail + k - 1) # CqSlot(cqTail + j - 1)
  <2>1. /\ cqTail + k - 1 \in Nat /\ cqTail + j - 1 \in Nat
        /\ cqTail + k - 1 < cqTail + j - 1
        /\ (cqTail + j - 1) - (cqTail + k - 1) < CqEntries
    BY <1>1, <1>3, RingLength
  <2> QED  BY <2>1, RingLength, SlotsDiffer DEF CqSlot
<1>m. ASSUME NEW k \in 1..n
      PROVE  Max(last(CqSlot(cqTail + k - 1))) = k
  <2> DEFINE same == last(CqSlot(cqTail + k - 1))
  <2>1. k \in same /\ \A j \in same : j = k
    <3>1. \A j \in 1..n : j < k \/ j = k \/ k < j
      BY <1>1, <1>m
    <3> QED  BY <1>3, <1>m, <3>1
  <2> HIDE DEF same
  <2>2. Max(same) = CHOOSE x \in same : \A y \in same : x >= y
    BY DEF Max
  <2>3. k >= k
    BY <1>1, <1>m
  <2>4. Max(same) = k
    BY <2>1, <2>2, <2>3
  <2> QED  BY <2>4 DEF same
<1>l. ASSUME NEW s \in CqSlots, NEW k \in 1..n, s = CqSlot(cqTail + k - 1)
      PROVE  cq'[s] = done[k]
  <2>1. k \in last(s) /\ Max(last(s)) = k
    BY <1>m, <1>l
  <2> HIDE DEF last
  <2>2. cq'[s] = IF last(s) = {} THEN cq[s] ELSE done[Max(last(s))]
    BY <1>1, <1>l
  <2> QED  BY <2>1, <2>2
<1>n. ASSUME NEW s \in CqSlots, \A k \in 1..n : s # CqSlot(cqTail + k - 1)
      PROVE  cq'[s] = cq[s]
  <2>1. last(s) = {}
    BY <1>n
  <2> HIDE DEF last
  <2> QED  BY <1>1, <2>1
<1>4. cq' \in [CqSlots -> 0..MaxSqes]
  <2>1. ASSUME NEW s \in CqSlots
        PROVE  cq'[s] \in 0..MaxSqes
    <3>1. CASE \E k \in 1..n : s = CqSlot(cqTail + k - 1)
      <4>1. PICK k \in 1..n : s = CqSlot(cqTail + k - 1)
        BY <3>1
      <4>2. cq'[s] = done[k]
        BY <1>l, <2>1, <4>1
      <4> QED  BY <1>e, <4>2
    <3>2. CASE \A k \in 1..n : s # CqSlot(cqTail + k - 1)
      BY <1>n, <2>1, <3>2 DEF IoRing
    <3> QED  BY <3>1, <3>2
  <2>2. cq' = [s \in CqSlots |-> cq'[s]]
    <3> HIDE DEF last
    <3> QED  BY <1>1
  <2> QED  BY <2>1, <2>2
<1>5. ASSUME NEW p \in 0..(cqTail' - 1), p >= cqTail' - CqEntries
      PROVE  cq'[p % CqEntries] = posted'[p + 1]
  <2> DEFINE s == p % CqEntries
  <2>0. p \in Nat
    BY <1>1, <1>5
  <2>1. p \in Nat /\ s \in CqSlots
    BY <2>0, RingLength, SlotInRing DEF CqSlots
  <2>2. CASE p < cqTail
    <3>1. ASSUME NEW k \in 1..n
          PROVE  s # CqSlot(cqTail + k - 1)
      <4>1. /\ cqTail + k - 1 \in Nat /\ p < cqTail + k - 1
            /\ (cqTail + k - 1) - p < CqEntries
        BY <1>1, <1>5, <2>1, <2>2, RingLength
      <4> QED  BY <4>1, <2>1, RingLength, SlotsDiffer DEF CqSlot
    <3>2. cq[s] = posted[p + 1]
      <4>1. p \in 0..(cqTail - 1) /\ p >= cqTail - CqEntries
        BY <1>1, <1>5, <2>1, <2>2, RingLength
      <4> QED  BY <4>1 DEF IoRing, RingHoldsLog
    <3>3. cq'[s] = cq[s]
      BY <1>n, <2>1, <3>1
    <3> QED  BY <1>1, <1>2, <2>1, <2>2, <3>2, <3>3
  <2>3. CASE p >= cqTail
    <3> DEFINE k == p - cqTail + 1
    <3>1. k \in 1..n /\ cqTail + k - 1 = p
      BY <1>1, <1>5, <2>1, <2>3
    <3>2. s = CqSlot(cqTail + k - 1)
      BY <3>1 DEF CqSlot
    <3>5. cq'[s] = done[k]
      BY <1>l, <2>1, <3>1, <3>2
    <3> QED  BY <1>1, <1>2, <2>1, <3>1, <3>5
  <2> QED  BY <1>1, <2>1, <2>2, <2>3
<1> QED  BY <1>2, <1>4, <1>5 DEF IoRing, RingHoldsLog

\* What io_uring_enter and a drive complete: a batch, and nothing else of the ring moves.
LEMMA BatchPosted ==
  ASSUME IoInv, NEW n \in Int, n <= SqEntries, NEW mode \in Modes,
         NEW done \in Orders(Batch(n), mode), Post(done)
  PROVE  IoRing'
<1>1. Batch(n) \in Seq(0..MaxSqes) /\ Len(Batch(n)) <= CqEntries
  BY BatchType, IoUringAssumption DEF IoInv, CqEntries
<1>2. done \in Seq(0..MaxSqes) /\ Len(done) = Len(Batch(n))
  BY <1>1, OrdersType
<1> QED  BY <1>1, <1>2, PostKeepsRing DEF IoInv

\* After io_uring_setup.
LEMMA IoInvInit == Init => IoInv
<1> SUFFICES ASSUME Init
             PROVE  IoInv
  OBVIOUS
<1>1. IoSqType
  BY IoUringAssumption DEF Init, IoSqType
<1>2. IoRing
  <2>1. posted \in Seq(0..MaxSqes) /\ Len(posted) = 0
    BY DEF Init
  <2>2. cq \in [CqSlots -> 0..MaxSqes] /\ cqTail = 0
    BY IoUringAssumption DEF Init
  <2>3. 0..(cqTail - 1) = {}
    BY <2>2
  <2> QED  BY <2>1, <2>2, <2>3 DEF IoRing, RingHoldsLog
<1>3. IoQueue
  BY IoUringAssumption DEF Init, IoQueue
<1> QED  BY <1>1, <1>2, <1>3 DEF IoInv

\* Guest code queues a submission: its slot is none of those in the queue.
LEMMA GuestQueuesStep == IoInv /\ GuestQueues => IoInv'
<1> SUFFICES ASSUME IoInv, GuestQueues
             PROVE  IoInv'
  OBVIOUS
<1> USE DEF IoInv
<1>1. /\ sqTail \in Nat /\ sqHead \in Nat /\ written \in Nat /\ written + 1 <= MaxSqes
      /\ sqTail - sqHead < SqEntries /\ sq \in [SqSlots -> 0..MaxSqes]
      /\ sqTail' = sqTail + 1 /\ sqHead' = sqHead /\ written' = written + 1 /\ driven' = driven
      /\ sq' = [sq EXCEPT ![sqTail % SqEntries] = written + 1]
  BY IoUringAssumption DEF GuestQueues, IoSqType
<1>2. \A p \in Nat : p % SqEntries \in SqSlots
  BY IoUringAssumption, SlotInRing DEF SqSlots
<1>3. IoSqType'
  <2>1. written + 1 \in 0..MaxSqes
    BY <1>1
  <2>2. sq' \in [SqSlots -> 0..MaxSqes]
    BY <1>1, <2>1
  <2> QED  BY <1>1, <2>1, <2>2 DEF GuestQueues, IoSqType
<1>4. IoRing'
  BY DEF GuestQueues, IoRing, RingHoldsLog
<1>5. ASSUME NEW p \in sqHead..(sqTail - 1)
      PROVE  sq'[p % SqEntries] = sq[p % SqEntries]
  <2>1. p \in Nat /\ p < sqTail /\ sqTail - p < SqEntries
    BY <1>1, <1>5, IoUringAssumption
  <2>2. p % SqEntries # sqTail % SqEntries
    BY <1>1, <2>1, IoUringAssumption, SlotsDiffer
  <2> QED  BY <1>1, <1>2, <2>1, <2>2
<1>6. sq'[sqTail % SqEntries] = written + 1
  BY <1>1, <1>2
<1>7. \A p \in sqHead'..(sqTail' - 1) : p \in sqHead..(sqTail - 1) \/ p = sqTail
  BY <1>1
<1>8. \A p \in sqHead..(sqTail - 1) : sq[p % SqEntries] \in 1..written
  BY DEF IoQueue
<1>9. IoQueue'
  <2>1. sqTail' - sqHead' <= SqEntries
    BY <1>1, IoUringAssumption
  <2>2. driven' \subseteq 1..written'
    BY <1>1 DEF IoQueue
  <2>3. written + 1 \notin 1..written /\ written + 1 \notin driven
    BY <1>1 DEF IoQueue
  <2>4. \A p \in sqHead'..(sqTail' - 1) : sq'[p % SqEntries] \in (1..written') \ driven'
    <3> SUFFICES ASSUME NEW p \in sqHead'..(sqTail' - 1)
                 PROVE  sq'[p % SqEntries] \in (1..written') \ driven'
      OBVIOUS
    <3>1. CASE p = sqTail
      BY <1>1, <1>6, <2>3, <3>1
    <3>2. CASE p \in sqHead..(sqTail - 1)
      <4>1. sq[p % SqEntries] \in (1..written) \ driven
        BY <3>2 DEF IoQueue
      <4> QED  BY <1>1, <1>5, <3>2, <4>1
    <3> QED  BY <1>7, <3>1, <3>2
  <2>5. \A p, q \in sqHead'..(sqTail' - 1) :
          p # q => sq'[p % SqEntries] # sq'[q % SqEntries]
    <3> SUFFICES ASSUME NEW p \in sqHead'..(sqTail' - 1), NEW q \in sqHead'..(sqTail' - 1), p # q
                 PROVE  sq'[p % SqEntries] # sq'[q % SqEntries]
      OBVIOUS
    <3>1. CASE p = sqTail
      <4>1. q \in sqHead..(sqTail - 1)
        BY <1>7, <3>1
      <4> QED  BY <1>5, <1>6, <1>8, <2>3, <3>1, <4>1
    <3>2. CASE q = sqTail
      <4>1. p \in sqHead..(sqTail - 1)
        BY <1>7, <3>2
      <4> QED  BY <1>5, <1>6, <1>8, <2>3, <3>2, <4>1
    <3>3. CASE p # sqTail /\ q # sqTail
      <4>1. p \in sqHead..(sqTail - 1) /\ q \in sqHead..(sqTail - 1)
        BY <1>7, <3>3
      <4> QED  BY <1>5, <4>1 DEF IoQueue
    <3> QED  BY <3>1, <3>2, <3>3
  <2> QED  BY <2>1, <2>2, <2>4, <2>5 DEF IoQueue
<1> QED  BY <1>3, <1>4, <1>9

\* A drive begins: its entries are the first slots of the ring, and newer than all others.
LEMMA DriveBeginsStep ==
  ASSUME IoInv, NEW d \in Drives, NEW n \in 0..SqEntries, DriveBegins(d, n)
  PROVE  IoInv'
<1> USE DEF IoInv
<1>1. /\ sqTail \in Nat /\ sqHead \in Nat /\ written \in Nat /\ written + n <= MaxSqes
      /\ sq \in [SqSlots -> 0..MaxSqes] /\ n \in Nat /\ n <= SqEntries
      /\ sqTail' = (IF n > 0 THEN n ELSE sqTail) /\ sqHead' = sqHead
      /\ written' = written + n /\ driven' = driven
      /\ sq' = [s \in SqSlots |-> IF s < n THEN written + s + 1 ELSE sq[s]]
  BY IoUringAssumption DEF DriveBegins, IoSqType
<1>2. IoSqType'
  <2>1. written + n \in 0..MaxSqes
    BY <1>1
  <2>2. sq' \in [SqSlots -> 0..MaxSqes]
    <3>1. \A s \in SqSlots : (IF s < n THEN written + s + 1 ELSE sq[s]) \in 0..MaxSqes
      BY <1>1, IoUringAssumption DEF SqSlots
    <3> QED  BY <1>1, <3>1
  <2>3. n \in SqSlots \cup {SqEntries}
    BY <1>1, IoUringAssumption DEF SqSlots
  <2>4. awaiting' \in [Drives -> {NotAwaiting} \cup SqSlots \cup {SqEntries}]
    BY <2>3 DEF DriveBegins, IoSqType
  <2>5. sqTail' \in Nat
    BY <1>1
  <2> QED  BY <1>1, <2>1, <2>2, <2>4, <2>5 DEF IoSqType
<1>3. IoRing'
  BY DEF DriveBegins, IoRing, RingHoldsLog
<1>4. IoQueue'
  <2>1. CASE n = 0
    <3>1. /\ sqTail' = sqTail /\ sqHead' = sqHead /\ written' = written /\ driven' = driven
      BY <1>1, <2>1
    <3>2. sq' = sq
      <4>1. \A s \in SqSlots : ~(s < n)
        BY <2>1, IoUringAssumption DEF SqSlots
      <4> QED  BY <1>1, <4>1
    <3> QED  BY <3>1, <3>2 DEF IoQueue
  <2>2. CASE n > 0
    <3>1. sqTail' = n /\ sqTail' - sqHead' <= SqEntries
      BY <1>1, <2>2, IoUringAssumption
    <3>2. ASSUME NEW p \in sqHead'..(sqTail' - 1)
          PROVE  p \in 0..(n - 1) /\ sq'[p % SqEntries] = written + p + 1
      <4>1. p \in 0..(n - 1) /\ p \in SqSlots
        BY <1>1, <3>1, <3>2, IoUringAssumption DEF SqSlots
      <4>2. p % SqEntries = p
        BY <4>1, IoUringAssumption DEF SqSlots
      <4> QED  BY <1>1, <4>1, <4>2
    <3>3. driven' \subseteq 1..written'
      BY <1>1 DEF IoQueue
    <3>4. \A p \in sqHead'..(sqTail' - 1) : sq'[p % SqEntries] \in (1..written') \ driven'
      <4> SUFFICES ASSUME NEW p \in sqHead'..(sqTail' - 1)
                   PROVE  sq'[p % SqEntries] \in (1..written') \ driven'
        OBVIOUS
      <4>1. written + p + 1 \in 1..written' /\ written + p + 1 \notin 1..written
        BY <1>1, <3>2
      <4> QED  BY <1>1, <3>2, <4>1 DEF IoQueue
    <3>5. \A p, q \in sqHead'..(sqTail' - 1) :
            p # q => sq'[p % SqEntries] # sq'[q % SqEntries]
      <4> SUFFICES ASSUME NEW p \in sqHead'..(sqTail' - 1), NEW q \in sqHead'..(sqTail' - 1), p # q
                   PROVE  sq'[p % SqEntries] # sq'[q % SqEntries]
        OBVIOUS
      <4>1. sq'[p % SqEntries] = written + p + 1 /\ sq'[q % SqEntries] = written + q + 1
            /\ p \in Int /\ q \in Int
        BY <3>2
      <4> QED  BY <1>1, <4>1
    <3> QED  BY <3>1, <3>3, <3>4, <3>5 DEF IoQueue
  <2> QED  BY <1>1, <2>1, <2>2
<1> QED  BY <1>2, <1>3, <1>4

\* What a drive is about to complete: every submission once, none of them completed before.
LEMMA QueueIsFresh ==
  ASSUME IoInv
  PROVE  /\ IsInjective(Batch(sqTail - sqHead))
         /\ Range(Batch(sqTail - sqHead)) \subseteq (1..written) \ driven
<1> DEFINE n == sqTail - sqHead
<1>1. n \in Int /\ sqHead \in Nat /\ sqTail \in Nat
  BY DEF IoInv, IoSqType
<1>2. /\ DOMAIN Batch(n) = 1..n
      /\ \A k \in 1..n : Batch(n)[k] = sq[(sqHead + k - 1) % SqEntries]
  BY <1>1, BatchType DEF IoInv
<1>3. \A k \in 1..n : sqHead + k - 1 \in sqHead..(sqTail - 1)
  BY <1>1
<1>4. \A k \in 1..n : Batch(n)[k] \in (1..written) \ driven
  BY <1>2, <1>3 DEF IoInv, IoQueue
<1>5. ASSUME NEW k \in 1..n, NEW j \in 1..n, k # j
      PROVE  Batch(n)[k] # Batch(n)[j]
  <2>1. sqHead + k - 1 # sqHead + j - 1
    BY <1>1, <1>5
  <2> QED  BY <1>2, <1>3, <2>1 DEF IoInv, IoQueue
<1> HIDE DEF n
<1>6. IsInjective(Batch(n))
  BY <1>2, <1>5 DEF IsInjective
<1>7. Range(Batch(n)) \subseteq (1..written) \ driven
  BY <1>2, <1>4 DEF Range
<1> QED  BY <1>6, <1>7 DEF n

\* A drive submits: the queue is empty after it.
LEMMA DriveSubmitsStep ==
  ASSUME IoInv, NEW d \in Drives, DriveSubmits(d)
  PROVE  IoInv'
<1>1. /\ sqTail - sqHead \in Int /\ sqTail - sqHead <= SqEntries
      /\ sqHead \in Nat /\ sqTail \in Nat
  BY DEF IoInv, IoSqType, IoQueue
<1>2. PICK mode \in Modes : \E done \in Orders(Batch(sqTail - sqHead), mode) : Post(done)
  BY DEF DriveSubmits
<1>3. IoRing'
  BY <1>1, <1>2, BatchPosted
<1>4. IoSqType'
  BY DEF DriveSubmits, IoInv, IoSqType
<1>5. IoQueue'
  <2>1. driven' \subseteq 1..written'
    BY QueueIsFresh DEF DriveSubmits, IoInv, IoQueue
  <2>2. sqTail' - sqHead' = 0 /\ sqHead'..(sqTail' - 1) = {}
    BY <1>1 DEF DriveSubmits
  <2> QED  BY <2>1, <2>2, IoUringAssumption DEF IoQueue
<1> QED  BY <1>3, <1>4, <1>5 DEF IoInv

\* Every step.
LEMMA IoInvNext == IoInv /\ [Next]_vars => IoInv'
<1> SUFFICES ASSUME IoInv, [Next]_vars
             PROVE  IoInv'
  OBVIOUS
<1>1. ASSUME NEW n \in 1..SqEntries, IoUringEnter(n)
      PROVE  IoInv'
  <2>1. PICK mode \in Modes : \E done \in Orders(Batch(n), mode) : Post(done)
    BY <1>1 DEF IoUringEnter
  <2>2. n \in Int /\ n <= SqEntries
    BY <1>1
  <2>3. IoRing'
    BY <2>1, <2>2, BatchPosted
  <2>4. IoSqType' /\ IoQueue'
    BY <1>1 DEF IoUringEnter, IoInv, IoSqType, IoQueue
  <2> QED  BY <2>3, <2>4 DEF IoInv
<1>2. CASE UNCHANGED vars
  BY <1>2 DEF vars, IoInv, IoSqType, IoRing, RingHoldsLog, IoQueue
<1> QED
  BY <1>1, <1>2, GuestQueuesStep, DriveBeginsStep, DriveSubmitsStep DEF Next

\* Every variable keeps its type, however drives, guest code and io_uring_enter interleave.
THEOREM IoTypeCorrect == Spec => []TypeOK
<1>1. IoInv => TypeOK
  BY IoUringAssumption DEF IoInv, IoSqType, IoRing, IoQueue, RingHoldsLog, TypeOK
<1> QED  BY <1>1, IoInvInit, IoInvNext, PTL DEF Spec

\* The completion ring holds the last completions posted, for every length of the rings,
\* any number of drives and either order.
THEOREM RingKeepsLog == Spec => []RingHoldsLog
<1>1. IoInv => RingHoldsLog
  BY DEF IoInv, IoRing
<1> QED  BY <1>1, IoInvInit, IoInvNext, PTL DEF Spec

\* A drive completes no submission a second time, and none that nobody wrote.
THEOREM DrivesOnce == Spec => DrivenOnce
<1>1. IoInv /\ [Next]_vars =>
        [\A d \in Drives : DriveSubmits(d) =>
           LET batch == Batch(sqTail - sqHead)
           IN  /\ IsInjective(batch)
               /\ Range(batch) \cap (driven \cup {0}) = {}]_vars
  BY QueueIsFresh
<1> QED  BY <1>1, IoInvInit, IoInvNext, PTL DEF Spec, DrivenOnce

-----------------------------------------------------------------------------
(***************************************************************************)
(* Calls into module code (LinuxCalls).                                    *)
(***************************************************************************)

\* A hook stands exactly where the call in progress has put one, a debug stop that is
\* remembered was one, and what is on the stack is above its top.
LcInv ==
  /\ LcTypeOK
  /\ lcHooks = [e \in LcEngines |->
       IF lcStatus = "running" /\ (lcKind = "hybrid" \/ (lcKind = "uc" /\ e = "uc")) THEN 1 ELSE 0]
  /\ lcStopOn = (lcStatus = "running" /\ lcKind = "js")
  /\ (lcDebug => lcKind = "js") /\ (lcHalted => lcActive = "js") /\ (lcFault => lcActive = "uc")
  /\ Len(lcStack) <= lcRsp
  /\ LcOutcomeTrue

\* What is left of the budget is a number of steps.
LEMMA LcAllowedType ==
  ASSUME LcTypeOK
  PROVE  /\ LcSpent \in Nat
         /\ \A spent \in Nat : LcAllowed(spent) \in Nat
BY LcAssumption DEF LcTypeOK, LcAllowed, LcSpent, LcEngines

\* After any end of a call in progress its hooks are gone, on every back end.
LEMMA LcEndCleans ==
  ASSUME LcInv, lcStatus = "running", NEW status, NEW truth, LcEnd(status, truth)
  PROVE  /\ lcHooks' = [e \in LcEngines |-> 0] /\ lcStopOn' = FALSE
         /\ lcStatus' = status /\ lcTruth' = truth
<1>1. ASSUME NEW e \in LcEngines
      PROVE  (IF lcHooks[e] > 0 /\ (lcKind = "hybrid" \/ lcKind = e)
              THEN lcHooks[e] - 1 ELSE lcHooks[e]) = 0
  <2>1. CASE lcKind = "hybrid" \/ (lcKind = "uc" /\ e = "uc")
    BY <1>1, <2>1 DEF LcInv
  <2>2. CASE ~(lcKind = "hybrid" \/ (lcKind = "uc" /\ e = "uc"))
    BY <1>1, <2>2 DEF LcInv
  <2> QED  BY <2>1, <2>2
<1> QED  BY <1>1 DEF LcEnd

\* One step of the engine in use.
LEMMA LcSteppedType ==
  ASSUME LcTypeOK, LcStepped
  PROVE  lcSteps' \in [LcEngines -> Nat]
<1>1. lcActive \in LcEngines /\ lcSteps \in [LcEngines -> Nat] /\ lcLimit \in Nat
  BY DEF LcTypeOK
<1>2. PICK n \in IF lcActive = "js" THEN {1} ELSE 0..(lcLimit - lcSteps["uc"]) :
        lcSteps' = [lcSteps EXCEPT ![lcActive] = lcSteps[lcActive] + n]
  BY DEF LcStepped
<1>3. n \in Nat
  <2>1. CASE lcActive = "js"
    BY <1>2, <2>1
  <2>2. CASE lcActive # "js"
    BY <1>1, <1>2, <2>2 DEF LcEngines
  <2> QED  BY <2>1, <2>2
<1>4. lcSteps[lcActive] + n \in Nat
  BY <1>1, <1>3
<1> QED  BY <1>1, <1>2, <1>4

\* When the program starts.
LEMMA LcInvInit == LcInit => LcInv
<1> SUFFICES ASSUME LcInit
             PROVE  LcInv
  OBVIOUS
<1>1. LcTypeOK
  <2>1. lcStack \in Seq({"marker", "return", "data"}) /\ Len(lcStack) = 0
    BY DEF LcInit
  <2>2. lcCalls \in 0..LcMaxCalls
    BY LcAssumption DEF LcInit
  <2>3. lcSteps \in [LcEngines -> Nat] /\ lcHooks \in [LcEngines -> 0..1]
    BY DEF LcInit
  <2>4. lcActive \in LcEngines /\ (lcKind # "hybrid" => lcActive = lcKind)
    BY DEF LcInit, LcEngines
  <2> QED
    BY <2>1, <2>2, <2>3, <2>4 DEF LcInit, LcTypeOK
<1>2. lcHooks = [e \in LcEngines |->
        IF lcStatus = "running" /\ (lcKind = "hybrid" \/ (lcKind = "uc" /\ e = "uc")) THEN 1 ELSE 0]
  BY DEF LcInit
<1>3. LcOutcomeTrue
  BY DEF LcInit, LcOutcomeTrue
<1>4. Len(lcStack) <= lcRsp
  BY DEF LcInit
<1> QED
  BY <1>1, <1>2, <1>3, <1>4 DEF LcInit, LcInv

\* A call begins.
LEMMA LcCallStep == LcInv /\ callLinuxFunction => LcInv'
<1> SUFFICES ASSUME LcInv, callLinuxFunction
             PROVE  LcInv'
  OBVIOUS
<1>1. lcLimit' \in Nat
  BY LcAllowedType DEF callLinuxFunction, LcInv
<1>2. lcRsp' \in Nat /\ 1 <= lcRsp'
  BY DEF callLinuxFunction, LcInv, LcTypeOK, LcAligned
<1>3. lcStack' \in Seq({"marker", "return", "data"}) /\ Len(lcStack') = 1
  BY DEF callLinuxFunction
<1>4. lcHooks' = [e \in LcEngines |->
        IF lcKind = "hybrid" \/ (lcKind = "uc" /\ e = "uc") THEN 1 ELSE 0]
  BY DEF callLinuxFunction, LcInv
<1>5. lcCalls' \in 0..LcMaxCalls
  BY LcAssumption DEF callLinuxFunction, LcInv, LcTypeOK
<1>h. lcHooks' \in [LcEngines -> 0..1]
  BY <1>4
<1>b. {lcStopOn, lcDebug, lcHalted, lcFault}' \subseteq BOOLEAN
  BY DEF callLinuxFunction, LcInv, LcTypeOK, lcFlags
<1>6. LcTypeOK'
  BY <1>1, <1>2, <1>3, <1>5, <1>h, <1>b DEF callLinuxFunction, LcInv, LcTypeOK, lcTableVars, lcFlags
<1> QED
  BY <1>2, <1>3, <1>4, <1>6 DEF callLinuxFunction, LcInv, LcOutcomeTrue, lcFlags

\* Steps that leave the call in progress.
LcStays ==
  /\ lcStatus = "running"
  /\ UNCHANGED <<lcKind, lcHooks, lcStopOn, lcStatus, lcTruth, lcCalls, lcDebug, lcHalted>>
  /\ lcFault' \in BOOLEAN /\ (lcFault' => lcActive' = "uc") /\ (lcHalted => lcActive' = "js")
  /\ lcActive' \in LcEngines /\ (lcKind # "hybrid" => lcActive' = lcActive)
  /\ lcSteps' \in [LcEngines -> Nat] /\ lcLimit' \in Nat
  /\ lcListed' = lcListed /\ lcTable \subseteq lcTable'
  /\ lcRsp' \in Nat /\ lcStack' \in Seq({"marker", "return", "data"}) /\ Len(lcStack') <= lcRsp'

LEMMA LcStaysStep == LcInv /\ LcStays => LcInv'
<1> SUFFICES ASSUME LcInv, LcStays
             PROVE  LcInv'
  OBVIOUS
<1> USE DEF LcStays
<1>1. LcTypeOK'
  BY DEF LcInv, LcTypeOK
<1> QED  BY <1>1 DEF LcInv, LcOutcomeTrue

\* Steps that end it.
LcEnds(status, truth) ==
  /\ lcStatus = "running" /\ LcEnd(status, truth)
  /\ UNCHANGED <<lcKind, lcActive, lcCalls, lcTable, lcListed, lcLimit>>
  /\ {lcDebug', lcHalted', lcFault'} \subseteq BOOLEAN /\ (lcDebug' => lcKind = "js")
  /\ (lcHalted' => lcActive = "js") /\ (lcFault' => lcActive = "uc")
  /\ lcSteps' \in [LcEngines -> Nat]
  /\ lcRsp' \in Nat /\ lcStack' \in Seq({"marker", "return", "data"}) /\ Len(lcStack') <= lcRsp'
  /\ (status = "ok") = (truth = "returned") /\ (status = "ok" => lcStack' = <<>>)
  /\ (status = "fault") = (truth = "fault")
  /\ (status = "debug-stop" => lcDebug') /\ (status = "halted" => lcHalted')
  /\ (status = "timeout" => lcSteps'[lcActive] >= lcLimit)

LEMMA LcEndsStep ==
  ASSUME LcInv, NEW status \in {"ok", "fault", "timeout", "debug-stop", "halted"}, NEW truth,
         LcEnds(status, truth)
  PROVE  LcInv'
<1> USE DEF LcEnds
<1>1. /\ lcHooks' = [e \in LcEngines |-> 0] /\ lcStopOn' = FALSE
      /\ lcStatus' = status /\ lcTruth' = truth
  BY LcEndCleans
<1>2. LcTypeOK'
  <2>1. lcHooks' \in [LcEngines -> 0..1] /\ lcStatus' \in {"ok", "fault", "timeout", "debug-stop", "halted"}
    BY <1>1
  <2>2. {lcStopOn, lcDebug, lcHalted, lcFault}' \subseteq BOOLEAN
    BY <1>1
  <2> QED
    BY <2>1, <2>2 DEF LcInv, LcTypeOK
<1>3. LcOutcomeTrue'
  BY <1>1 DEF LcOutcomeTrue
<1> QED  BY <1>1, <1>2, <1>3 DEF LcInv

\* Every step.
LEMMA LcInvNext == LcInv /\ [LcNext]_lcVars => LcInv'
<1> SUFFICES ASSUME LcInv, [LcNext]_lcVars
             PROVE  LcInv'
  OBVIOUS
<1>t. /\ LcTypeOK /\ lcRsp \in Nat /\ lcStack \in Seq({"marker", "return", "data"})
      /\ Len(lcStack) <= lcRsp /\ lcLimit \in Nat
      /\ {lcDebug, lcHalted, lcFault} \subseteq BOOLEAN /\ lcKind \in {"js", "uc", "hybrid"}
      /\ lcActive \in LcEngines /\ lcSteps \in [LcEngines -> Nat] /\ (lcDebug => lcKind = "js")
      /\ (lcHalted => lcActive = "js") /\ (lcFault => lcActive = "uc")
      /\ (lcKind # "hybrid" => lcActive = lcKind)
  BY DEF LcInv, LcTypeOK
<1>s. LcStepped => lcSteps' \in [LcEngines -> Nat]
  BY <1>t, LcSteppedType
<1>a. LcSpent \in Nat /\ LcAllowed(LcSpent) \in Nat /\ LcAllowed(LcSpent + 1) \in Nat
  <2>1. LcSpent \in Nat /\ \A spent \in Nat : LcAllowed(spent) \in Nat
    BY <1>t, LcAllowedType
  <2>2. LcSpent + 1 \in Nat
    BY <2>1
  <2> QED  BY <2>1, <2>2
<1>m. LcToMarker => /\ lcRsp' \in Nat /\ lcStack' = <<>> /\ Len(lcStack') <= lcRsp'
                    /\ lcStack' \in Seq({"marker", "return", "data"})
  BY <1>t DEF LcToMarker
<1>1. CASE callLinuxFunction
  BY <1>1, LcCallStep
<1>2. CASE LcInsn
  <2>1. lcRsp' \in Nat /\ lcStack' \in Seq({"marker", "return", "data"}) /\ Len(lcStack') <= lcRsp'
    <3>1. CASE UNCHANGED <<lcRsp, lcStack>>
      BY <1>t, <3>1
    <3>2. CASE /\ \E kind \in {"return", "data"} : lcStack' = Append(lcStack, kind)
               /\ lcRsp' = lcRsp + 1
      BY <1>t, <3>2
    <3> QED  BY <1>2, <3>1, <3>2 DEF LcInsn
  <2>9. LcStays
    BY <1>2, <1>t, <1>s, <2>1 DEF LcStays, LcInsn, LcCanStep, lcTableVars, lcFlags
  <2> QED  BY <2>9, LcStaysStep
<1>3. CASE LcPop
  <2>1. lcRsp' \in Nat /\ lcStack' \in Seq({"marker", "return", "data"}) /\ Len(lcStack') <= lcRsp'
    <3>1. lcStack # <<>>
      BY <1>3 DEF LcPop
    <3>2. /\ Len(lcStack) \in Nat \ {0}
          /\ lcStack' \in Seq({"marker", "return", "data"}) /\ Len(lcStack') = Len(lcStack) - 1
      BY <1>3, <1>t, <3>1, FrontProperties DEF LcPop
    <3> QED  BY <1>3, <1>t, <3>2 DEF LcPop
  <2>9. LcStays
    BY <1>3, <1>t, <1>s, <2>1 DEF LcStays, LcPop, LcCanStep, lcTableVars, lcFlags
  <2> QED  BY <2>9, LcStaysStep
<1>4. CASE LcReturn
  <2>1. PICK n \in Nat : lcSteps' = [lcSteps EXCEPT ![lcActive] = n]
    BY <1>4, <1>t DEF LcReturn, LcEngines
  <2>2. lcSteps' \in [LcEngines -> Nat] /\ lcSteps'[lcActive] = n
    BY <1>t, <2>1
  <2>3. CASE LcEnd("ok", "returned")
    <3>1. LcEnds("ok", "returned")
      BY <1>4, <1>t, <1>m, <2>2, <2>3 DEF LcEnds, LcReturn, LcCanStep, lcTableVars, lcFlags
    <3> QED  BY <3>1, LcEndsStep
  <2>4. CASE LcEnd("timeout", "budget") /\ lcSteps' = [lcSteps EXCEPT ![lcActive] = lcLimit]
    <3>1. lcSteps'[lcActive] >= lcLimit
      BY <1>t, <2>4
    <3>2. LcEnds("timeout", "budget")
      BY <1>4, <1>t, <1>m, <2>2, <2>4, <3>1 DEF LcEnds, LcReturn, LcCanStep, lcTableVars, lcFlags
    <3> QED  BY <3>2, LcEndsStep
  <2> QED  BY <1>4, <2>3, <2>4 DEF LcReturn
<1>5. CASE LcInt3
  <2>1. CASE lcDebug
    <3>1. LcEnds("debug-stop", "stop")
      BY <1>5, <1>t, <1>s, <2>1 DEF LcEnds, LcInt3, LcCanStep, lcTableVars, lcFlags
    <3> QED  BY <3>1, LcEndsStep
  <2>2. CASE ~lcDebug
    <3>1. LcStays
      BY <1>5, <1>t, <1>s, <1>a, <2>2
      DEF LcStays, LcInt3, LcTakenUp, LcCanStep, lcTableVars, lcFlags
    <3> QED  BY <3>1, LcStaysStep
  <2> QED  BY <2>1, <2>2
<1>6. CASE LcTrap
  <2>1. CASE /\ lcKind = "js" /\ LcEnd("debug-stop", "stop") /\ UNCHANGED lcLimit
             /\ (LcToMarker \/ UNCHANGED <<lcRsp, lcStack>>)
    <3>1. lcRsp' \in Nat /\ Len(lcStack') <= lcRsp' /\ lcStack' \in Seq({"marker", "return", "data"})
      BY <1>t, <1>m, <2>1
    <3>2. LcEnds("debug-stop", "stop")
      BY <1>6, <1>t, <1>s, <2>1, <3>1 DEF LcEnds, LcTrap, LcCanStep, lcTableVars
    <3> QED  BY <3>2, LcEndsStep
  <2>2. CASE lcKind = "hybrid" /\ LcToMarker /\ LcEnd("ok", "returned") /\ UNCHANGED lcLimit
    <3>1. LcEnds("ok", "returned")
      BY <1>6, <1>t, <1>s, <1>m, <2>2 DEF LcEnds, LcTrap, LcCanStep, lcTableVars
    <3> QED  BY <3>1, LcEndsStep
  <2>3. CASE lcKind = "hybrid" /\ LcTakenUp /\ UNCHANGED <<lcRsp, lcStack>>
    <3>1. LcStays
      BY <1>6, <1>t, <1>s, <1>a, <2>3 DEF LcStays, LcTrap, LcTakenUp, LcCanStep, lcTableVars
    <3> QED  BY <3>1, LcStaysStep
  <2> QED  BY <1>6, <2>1, <2>2, <2>3 DEF LcTrap
<1>7. CASE LcFaults
  <2>1. LcEnds("fault", "fault")
    BY <1>7, <1>t, <1>s DEF LcEnds, LcFaults, LcCanStep, lcTableVars
  <2> QED  BY <2>1, LcEndsStep
<1>8. CASE LcHandoff
  <2>1. lcActive' \in LcEngines /\ ~lcHalted
    BY <1>8 DEF LcHandoff, LcEngines, LcCanStep
  <2>9. LcStays
    BY <1>8, <1>t, <1>s, <1>a, <2>1 DEF LcStays, LcHandoff, LcCanStep, lcTableVars
  <2> QED  BY <2>9, LcStaysStep
<1>9. CASE LcTimeout
  <2>1. LcEnds("timeout", "budget")
    BY <1>9, <1>t DEF LcEnds, LcTimeout, lcTableVars, lcFlags
  <2> QED  BY <2>1, LcEndsStep
<1>14. CASE LcHalt
  <2>1. lcSteps' \in [LcEngines -> Nat] /\ lcActive = "js" /\ lcStatus = "running"
    BY <1>14, <1>t, <1>s DEF LcHalt, LcCanStep
  <2>2. LcEnds("halted", "halt")
    BY <1>14, <1>t, <2>1 DEF LcEnds, LcHalt, lcTableVars
  <2> QED  BY <2>2, LcEndsStep
<1>15. CASE LcSpin
  <2>1. LcStays
    BY <1>15, <1>t, <1>a DEF LcStays, LcSpin, lcTableVars, lcFlags
  <2> QED  BY <2>1, LcStaysStep
<1>10. ASSUME NEW name \in LcKnown \cup LcUnknown, NEW throws \in BOOLEAN, LcApi(name, throws)
       PROVE  LcInv'
  <2>1. LcStays
    BY <1>10, <1>t, <1>s DEF LcStays, LcApi, LcCanStep, lcTableVars, lcFlags
  <2> QED  BY <2>1, LcStaysStep
<1>11. ASSUME NEW name \in LcUnknown, resolveImportProvisioned(name)
       PROVE  LcInv'
  <2>1. LcTypeOK'
    BY <1>11, <1>t DEF resolveImportProvisioned, LcTypeOK, lcEngineVars, lcFlags
  <2> QED
    BY <1>11, <2>1 DEF resolveImportProvisioned, LcInv, lcEngineVars, lcFlags, LcOutcomeTrue
<1>12. ASSUME NEW name \in LcUnknown, kallsyms_lookup_name(name)
       PROVE  LcInv'
  <2>1. LcStays
    BY <1>12, <1>t, <1>s DEF LcStays, kallsyms_lookup_name, LcCanStep, lcFlags
  <2> QED  BY <2>1, LcStaysStep
<1>13. CASE UNCHANGED lcVars
  <2>1. LcTypeOK'
    BY <1>13, <1>t DEF lcVars, lcEngineVars, lcFlags, lcTableVars, LcTypeOK
  <2> QED
    BY <1>13, <2>1 DEF lcVars, lcEngineVars, lcFlags, lcTableVars, LcInv, LcOutcomeTrue
<1> QED
  BY <1>1, <1>2, <1>3, <1>4, <1>5, <1>6, <1>7, <1>8, <1>9, <1>10, <1>11, <1>12, <1>13, <1>14, <1>15
  DEF LcNext

\* Every variable keeps its type.
THEOREM LcTypeCorrect == LcSpec => []LcTypeOK
<1>1. LcInv => LcTypeOK
  BY DEF LcInv
<1> QED  BY <1>1, LcInvInit, LcInvNext, PTL DEF LcSpec

\* A call reports how it ended and leaves no hook behind, whatever budget, exports and
\* calls before it, on the interpreter, on Unicorn and on the hybrid.
THEOREM OutcomesTrue == LcSpec => []LcOutcomeTrue
<1>1. LcInv => LcOutcomeTrue
  BY DEF LcInv
<1> QED  BY <1>1, LcInvInit, LcInvNext, PTL DEF LcSpec

-----------------------------------------------------------------------------
(***************************************************************************)
(* Loading a module (KoLoader).                                            *)
(***************************************************************************)

\* The words of a section that is placed.
KoExtent(s) == koAddrs[s]..(koAddrs[s] + koFile.sections[s].size - 1)

KoPlaces(r) == koAddrs[r.sec] + r.off

\* A relocation that is applied.
KoApplies(r) ==
  /\ r.sec \in DOMAIN koAddrs /\ r.type \in {"64", "PC32", "32"}
  /\ r.sym.kind = "undef" => r.sym.name \in KoExternals

KoFileInv ==
  /\ koFile.sections \in KoSectionLists
  /\ koFile.relocs \in Seq(KoRelocs(koFile.sections))
  /\ \A i, j \in 1..Len(koFile.relocs) :
       i # j => koFile.relocs[i].sec # koFile.relocs[j].sec \/ koFile.relocs[i].off # koFile.relocs[j].off

\* What is placed: the loaded ones of the sections passed, apart from each other, up to
\* the end or where the file has them; and memory is written there and nowhere else.
KoPlacedInv ==
  /\ DOMAIN koAddrs \subseteq { i \in DOMAIN koFile.sections : koFile.sections[i].alloc }
  /\ koPhase = "place" => \A s \in DOMAIN koAddrs : s < koAt
  /\ \A s \in DOMAIN koAddrs : koAddrs[s] \in Nat /\ koAddrs[s] >= KoBase
  /\ \A s \in DOMAIN koAddrs :
       IF KoNeedsLayout THEN koAddrs[s] + koFile.sections[s].size <= koCur
       ELSE koAddrs[s] = KoBase + koFile.sections[s].addr
  /\ \A s, t \in DOMAIN koAddrs : s # t => KoExtent(s) \cap KoExtent(t) = {}
  /\ DOMAIN koMem = UNION { KoExtent(s) : s \in DOMAIN koAddrs }

\* Words no relocation patches are the file's.
KoWordsInv ==
  \A s \in DOMAIN koAddrs : \A k \in (0..(koFile.sections[s].size - 1)) \ KoPatched(s) :
    IF koFile.sections[s].bits THEN koMem[koAddrs[s] + k] = <<"data", s, k>>
    ELSE koUsed \/ koMem[koAddrs[s] + k] = <<"zero">>

\* Relocations are applied one after the other.
KoPatchInv ==
  /\ koPhase \in {"relocate", "done"} =>
       /\ koAt <= Len(koFile.relocs) + 1
       /\ \A i \in 1..(koAt - 1) :
            KoApplies(koFile.relocs[i]) =>
              koMem[KoPlaces(koFile.relocs[i])] = KoWord(koFile.relocs[i], KoPlaces(koFile.relocs[i]))
       /\ koApplied + Len(koUnresolved) <= koAt - 1
  /\ koPhase = "done" => koAt = Len(koFile.relocs) + 1
  /\ koPhase \in {"new", "place", "refused"} => koApplied = 0 /\ koUnresolved = <<>>

KoInv ==
  /\ koPhase \in {"new", "place", "relocate", "done", "refused"}
  /\ koAt \in Nat \ {0} /\ koCur \in Nat /\ koCur >= KoBase /\ koUsed \in BOOLEAN
  /\ koApplied \in Nat /\ koUnresolved \in Seq(KoExternals \cup KoMissing)
  /\ koPhase = "new" => koAt = 1 /\ DOMAIN koAddrs = {}
  /\ KoFileInv /\ KoPlacedInv /\ KoWordsInv /\ KoPatchInv

\* Rounding up does not go back.
LEMMA KoUpBounds ==
  ASSUME NEW v \in Nat, NEW a \in Nat \ {0}
  PROVE  KoUp(v, a) \in Nat /\ KoUp(v, a) >= v
<1>1. PICK w \in Nat : w = v + a - 1
  OBVIOUS
<1>2. PICK q \in Int : q = w \div a
  BY <1>1
<1>3. w = a * q + (w % a) /\ w % a \in 0..(a - 1)
  BY <1>1, <1>2
<1>4. PICK m \in Int : m = a * q
  BY <1>2
<1>5. m >= v
  BY <1>1, <1>3, <1>4
<1>6. KoUp(v, a) = m
  BY <1>1, <1>2, <1>4 DEF KoUp
<1> QED  BY <1>5, <1>6

\* What is left of a number is away from it by a multiple.
LEMMA KoModBack ==
  ASSUME NEW x \in Int, NEW n \in Nat \ {0}
  PROVE  ((x % n) - x) % n = 0
<1>1. PICK d \in Int : x = n * d + (x % n)
  <2>1. x \div n \in Int /\ x = n * (x \div n) + (x % n)
    OBVIOUS
  <2> QED  BY <2>1
<1>2. PICK r \in 0..(n - 1) : r = x % n
  OBVIOUS
<1>3. PICK y \in Int : y = r - x
  <2>1. r \in Int /\ x \in Int
    BY <1>2
  <2> QED  BY <2>1
<1>4. y = n * (0 - d)
  BY <1>1, <1>2, <1>3
<1>5. PICK c \in Int : y = n * c + (y % n)
  <2>1. y \div n \in Int /\ y = n * (y \div n) + (y % n)
    BY <1>3
  <2> QED  BY <2>1
<1>6. y % n \in 0..(n - 1)
  BY <1>3
<1>7. y % n = 0
  <2> SUFFICES ASSUME y % n > 0
               PROVE  FALSE
    BY <1>6
  <2>1. n * c < n * (0 - d) /\ n * (0 - d) - n * c < n
    BY <1>4, <1>5, <1>6
  <2> QED  BY <2>1, MultiplesApart
<1> QED  BY <1>2, <1>3, <1>7

\* What a section and a relocation of a file are.
LEMMA KoFileTypes ==
  ASSUME KoFileInv
  PROVE  /\ DOMAIN koFile.sections = 1..Len(koFile.sections) /\ Len(koFile.sections) \in Nat
         /\ \A i \in DOMAIN koFile.sections :
              /\ koFile.sections[i].alloc \in BOOLEAN /\ koFile.sections[i].bits \in BOOLEAN
              /\ koFile.sections[i].addr \in Nat /\ koFile.sections[i].size \in Nat
              /\ koFile.sections[i].align \in Nat
         /\ KoLinkedApart(koFile.sections)
<1>1. koFile.sections \in Seq(KoSection) /\ KoLinkedApart(koFile.sections)
  BY KoAssumption DEF KoFileInv
<1>2. \A i \in 1..Len(koFile.sections) : koFile.sections[i] \in KoSection
  BY <1>1, ElementOfSeq
<1>3. DOMAIN koFile.sections = 1..Len(koFile.sections) /\ Len(koFile.sections) \in Nat
  BY <1>1, LenProperties
<1> QED  BY <1>1, <1>2, <1>3 DEF KoSection

LEMMA KoRelocTypes ==
  ASSUME KoFileInv
  PROVE  /\ Len(koFile.relocs) \in Nat /\ DOMAIN koFile.relocs = 1..Len(koFile.relocs)
         /\ \A i \in 1..Len(koFile.relocs) :
              /\ koFile.relocs[i].sec \in DOMAIN koFile.sections
              /\ koFile.relocs[i].off \in Nat /\ koFile.relocs[i].addend \in Nat
              /\ koFile.relocs[i].off < koFile.sections[koFile.relocs[i].sec].size
              /\ koFile.relocs[i].sym.kind = "undef" =>
                   koFile.relocs[i].sym.name \in KoExternals \cup KoMissing
              /\ koFile.relocs[i].sym.kind = "section" => koFile.relocs[i].sym.value \in Nat
<1>1. Len(koFile.relocs) \in Nat /\ DOMAIN koFile.relocs = 1..Len(koFile.relocs)
  BY LenProperties DEF KoFileInv
<1>2. ASSUME NEW i \in 1..Len(koFile.relocs)
      PROVE  koFile.relocs[i] \in KoRelocs(koFile.sections)
  BY ElementOfSeq DEF KoFileInv
<1>3. ASSUME NEW sym \in KoSymbols(koFile.sections)
      PROVE  /\ sym.kind = "undef" => sym.name \in KoExternals \cup KoMissing
             /\ sym.kind = "section" => sym.value \in Nat
  <2>1. CASE \E n \in KoExternals \cup KoMissing : sym = [kind |-> "undef", name |-> n]
    BY <2>1
  <2>2. CASE sym = [kind |-> "abs", value |-> 1]
    BY <2>2
  <2>3. ASSUME NEW s \in DOMAIN koFile.sections, NEW v \in 0..(koFile.sections[s].size - 1),
               sym = [kind |-> "section", shndx |-> s, value |-> v]
        PROVE  /\ sym.kind = "undef" => sym.name \in KoExternals \cup KoMissing
               /\ sym.kind = "section" => sym.value \in Nat
    <3>1. sym.kind = "section" /\ sym.value = v
      BY <2>3
    <3> QED  BY <3>1
  <2> QED  BY <2>1, <2>2, <2>3 DEF KoSymbols
<1>4. ASSUME NEW r \in KoRelocs(koFile.sections)
      PROVE  /\ r.sec \in DOMAIN koFile.sections /\ r.off \in Nat /\ r.addend \in Nat
             /\ r.off < koFile.sections[r.sec].size
             /\ r.sym.kind = "undef" => r.sym.name \in KoExternals \cup KoMissing
             /\ r.sym.kind = "section" => r.sym.value \in Nat
  <2>1. CASE r \in [sec : DOMAIN koFile.sections, off : 0..1, sym : KoSymbols(koFile.sections),
                    type : KoTypes, addend : {0}] /\ r.off < koFile.sections[r.sec].size
    BY <1>3, <2>1
  <2>2. ASSUME NEW s \in DOMAIN koFile.sections, koFile.sections[s].size > 0,
               r = [sec |-> s, off |-> 0, sym |-> [kind |-> "abs", value |-> 1], type |-> "64",
                    addend |-> 1]
        PROVE  /\ r.sec \in DOMAIN koFile.sections /\ r.off \in Nat /\ r.addend \in Nat
               /\ r.off < koFile.sections[r.sec].size
               /\ r.sym.kind = "undef" => r.sym.name \in KoExternals \cup KoMissing
               /\ r.sym.kind = "section" => r.sym.value \in Nat
    <3>1. r.sec = s /\ r.off = 0 /\ r.addend = 1 /\ r.sym.kind = "abs"
      BY <2>2
    <3>2. koFile.sections[s].size \in Nat
      BY KoFileTypes
    <3> QED  BY <2>2, <3>1, <3>2
  <2> QED  BY <2>1, <2>2 DEF KoRelocs
<1> QED  BY <1>1, <1>2, <1>4

\* Ranges stay the same ranges away from the base.
LEMMA KoShifted ==
  ASSUME NEW base \in Nat, NEW x \in Nat, NEW z \in Nat, NEW a \in Int,
         a \in (base + x)..((base + x) + z - 1)
  PROVE  a - base \in x..(x + z - 1)
OBVIOUS

\* A section starts past what is placed, or where the file has it, apart from the others.
LEMMA KoStartApart ==
  ASSUME KoInv, koPhase = "place", koAt <= Len(koFile.sections), koFile.sections[koAt].alloc
  PROVE  /\ koAt \in DOMAIN koFile.sections
         /\ KoStart(koFile.sections[koAt]) \in Nat /\ KoStart(koFile.sections[koAt]) >= KoBase
         /\ IF KoNeedsLayout
            THEN /\ KoStart(koFile.sections[koAt]) >= koCur
                 /\ KoEnd(koFile.sections[koAt], KoStart(koFile.sections[koAt])) \in Nat
                 /\ KoEnd(koFile.sections[koAt], KoStart(koFile.sections[koAt]))
                      >= KoStart(koFile.sections[koAt]) + koFile.sections[koAt].size
            ELSE KoStart(koFile.sections[koAt]) = KoBase + koFile.sections[koAt].addr
         /\ \A s \in DOMAIN koAddrs : \A a \in KoExtent(s) :
              a \notin KoStart(koFile.sections[koAt])..
                         (KoStart(koFile.sections[koAt]) + koFile.sections[koAt].size - 1)
<1> PICK sec : sec = koFile.sections[koAt]
  OBVIOUS
<1> PICK start : start = KoStart(sec)
  OBVIOUS
<1>1. KoFileInv /\ KoPlacedInv /\ koCur \in Nat /\ koCur >= KoBase /\ koAt \in Nat \ {0} /\ KoBase \in Nat
  BY KoAssumption DEF KoInv
<1>2. /\ koAt \in DOMAIN koFile.sections /\ sec.alloc
      /\ sec.addr \in Nat /\ sec.size \in Nat /\ sec.align \in Nat
  BY <1>1, KoFileTypes
<1>3. ASSUME NEW s \in DOMAIN koAddrs
      PROVE  /\ s \in DOMAIN koFile.sections /\ koFile.sections[s].alloc /\ s < koAt
             /\ koAddrs[s] \in Nat /\ koFile.sections[s].size \in Nat /\ koFile.sections[s].addr \in Nat
             /\ IF KoNeedsLayout THEN koAddrs[s] + koFile.sections[s].size <= koCur
                ELSE koAddrs[s] = KoBase + koFile.sections[s].addr
  BY <1>1, KoFileTypes DEF KoPlacedInv
<1>4. CASE KoNeedsLayout
  <2>1. start \in Nat /\ start >= koCur
    <3>1. PICK a \in Nat \ {0} : a = IF sec.align = 0 THEN 2 ELSE sec.align
      BY <1>2
    <3>2. start = KoUp(koCur, a)
      BY <1>4, <3>1 DEF KoStart
    <3> QED  BY <1>1, <3>2, KoUpBounds
  <2>2. KoEnd(sec, start) \in Nat /\ KoEnd(sec, start) >= start + sec.size
    <3>1. PICK e \in Nat : e = start + sec.size
      BY <1>2, <2>1
    <3>2. 2 \in Nat \ {0}
      OBVIOUS
    <3>3. KoUp(e, 2) \in Nat /\ KoUp(e, 2) >= e
      BY <3>2, KoUpBounds
    <3> QED  BY <3>1, <3>3 DEF KoEnd
  <2>3. \A s \in DOMAIN koAddrs : \A a \in KoExtent(s) : a \notin start..(start + sec.size - 1)
    <3> TAKE s \in DOMAIN koAddrs
    <3> TAKE a \in KoExtent(s)
    <3>1. a \in koAddrs[s]..(koAddrs[s] + koFile.sections[s].size - 1)
      BY DEF KoExtent
    <3>2. a < koCur
      BY <1>1, <1>3, <1>4, <3>1
    <3> QED  BY <1>1, <1>2, <2>1, <3>1, <3>2
  <2> QED  BY <1>1, <1>2, <1>4, <2>1, <2>2, <2>3
<1>5. CASE ~KoNeedsLayout
  <2>1. start = KoBase + sec.addr
    BY <1>5 DEF KoStart
  <2>2. \A i \in DOMAIN koFile.sections : koFile.sections[i].alloc => koFile.sections[i].addr # 0
    BY <1>5 DEF KoNeedsLayout
  <2>3. ASSUME NEW s \in DOMAIN koAddrs, NEW a \in KoExtent(s), a \in start..(start + sec.size - 1)
        PROVE  FALSE
    <3>1. /\ koAddrs[s] = KoBase + koFile.sections[s].addr /\ koFile.sections[s].addr \in Nat
          /\ koFile.sections[s].size \in Nat
          /\ a \in koAddrs[s]..(koAddrs[s] + koFile.sections[s].size - 1)
      BY <1>3, <1>5 DEF KoExtent
    <3>2. PICK x \in Nat, z \in Nat, y \in Nat, w \in Nat, base \in Nat :
            /\ x = koFile.sections[s].addr /\ z = koFile.sections[s].size
            /\ y = sec.addr /\ w = sec.size /\ base = KoBase
      BY <1>1, <1>2, <3>1
    <3>5. a \in (base + x)..((base + x) + z - 1) /\ a \in (base + y)..((base + y) + w - 1)
      BY <2>1, <2>3, <3>1, <3>2
    <3>6. PICK b \in Int : b = a - base
      BY <3>2, <3>5
    <3>7. b \in x..(x + z - 1) /\ b \in y..(y + w - 1)
      <4>1. a \in Int
        BY <3>2, <3>5
      <4> QED  BY <3>5, <3>6, <4>1, KoShifted
    <3>3. /\ b \in koFile.sections[s].addr..(koFile.sections[s].addr + koFile.sections[s].size - 1)
          /\ b \in sec.addr..(sec.addr + sec.size - 1)
      BY <3>2, <3>7
    <3>4. s # koAt
      BY <1>1, <1>3
    <3> QED  BY <1>1, <1>2, <1>3, <2>2, <3>3, <3>4, KoFileTypes DEF KoLinkedApart
  <2> QED  BY <1>1, <1>2, <1>5, <2>1, <2>3
<1> QED  BY <1>4, <1>5

-----------------------------------------------------------------------------
LEMMA KoInvInit == KoInit => KoInv
<1> SUFFICES ASSUME KoInit
             PROVE  KoInv
  OBVIOUS
<1>1. PICK sections \in KoSectionLists, fault \in KoFaults \cup {"none"} :
        \E relocs \in IF fault = "none" THEN KoLists(sections) ELSE {<<>>} :
          koFile = [fault |-> fault, sections |-> sections, relocs |-> relocs]
  BY DEF KoInit
<1>9. PICK relocs \in KoLists(sections) \cup {<<>>} :
        koFile = [fault |-> fault, sections |-> sections, relocs |-> relocs]
  BY <1>1
<1>2. koFile.sections = sections /\ koFile.relocs = relocs
  BY <1>9
<1>3. /\ relocs \in Seq(KoRelocs(sections))
      /\ \A i, j \in 1..Len(relocs) :
           i # j => relocs[i].sec # relocs[j].sec \/ relocs[i].off # relocs[j].off
  <2>1. CASE relocs = <<>>
    BY <2>1, EmptySeq
  <2>2. CASE relocs \in KoLists(sections)
    <3>1. PICK n \in 0..KoMaxRelocs : relocs \in [1..n -> KoRelocs(sections)]
      BY <2>2 DEF KoLists
    <3>2. n \in Nat /\ relocs \in Seq(KoRelocs(sections)) /\ DOMAIN relocs = 1..Len(relocs)
      BY <3>1, SeqDef, LenProperties, KoAssumption
    <3>3. \A i, j \in DOMAIN relocs : i # j =>
             <<relocs[i].sec, relocs[i].off>> # <<relocs[j].sec, relocs[j].off>>
      BY <2>2 DEF KoLists
    <3> QED  BY <3>2, <3>3
  <2> QED  BY <2>1, <2>2
<1>4. KoFileInv
  BY <1>2, <1>3 DEF KoFileInv
<1>5. /\ koPhase = "new" /\ koAt = 1 /\ koCur = KoBase /\ DOMAIN koAddrs = {} /\ DOMAIN koMem = {}
      /\ koUsed \in BOOLEAN /\ koApplied = 0 /\ koUnresolved = <<>>
  BY DEF KoInit
<1>6. KoPlacedInv
  BY <1>5 DEF KoPlacedInv
<1>7. KoWordsInv /\ KoPatchInv
  BY <1>5 DEF KoWordsInv, KoPatchInv
<1>8. koUnresolved \in Seq(KoExternals \cup KoMissing) /\ koCur \in Nat /\ koCur >= KoBase
  BY <1>5, KoAssumption, EmptySeq
<1> QED  BY <1>4, <1>5, <1>6, <1>7, <1>8 DEF KoInv

\* A section that is placed takes words nobody has; the others keep theirs.
LEMMA KoPlaceStep == KoInv /\ KoPlace => KoInv'
<1> SUFFICES ASSUME KoInv, KoPlace
             PROVE  KoInv'
  OBVIOUS
<1>1. /\ koPhase = "place" /\ koAt <= Len(koFile.sections) /\ koAt' = koAt + 1
      /\ UNCHANGED <<koPhase, koFile, koUsed, koApplied, koUnresolved>>
  BY DEF KoPlace
<1>2. KoFileInv /\ KoPlacedInv /\ KoWordsInv /\ KoPatchInv
      /\ koAt \in Nat \ {0} /\ koCur \in Nat /\ koCur >= KoBase /\ KoBase \in Nat
  BY KoAssumption DEF KoInv
<1>3. KoFileInv' /\ KoPatchInv' /\ koAt' \in Nat \ {0}
  BY <1>1, <1>2 DEF KoFileInv, KoPatchInv
<1>4. KoNeedsLayout' = KoNeedsLayout /\ \A s : KoPatched(s)' = KoPatched(s)
  BY <1>1 DEF KoNeedsLayout, KoPatched
<1>5. CASE ~koFile.sections[koAt].alloc
  <2>1. UNCHANGED <<koCur, koAddrs, koMem>>
    BY <1>5 DEF KoPlace
  <2>2. \A s : KoExtent(s)' = KoExtent(s)
    BY <1>1, <2>1 DEF KoExtent
  <2>3. KoPlacedInv'
    <3>1. \A s \in DOMAIN koAddrs : s < koAt' /\ s \in DOMAIN koFile.sections
      BY <1>1, <1>2, KoFileTypes DEF KoPlacedInv
    <3> QED  BY <1>1, <1>2, <1>4, <2>1, <2>2, <3>1 DEF KoPlacedInv
  <2>4. KoWordsInv'
    BY <1>1, <1>2, <1>4, <2>1 DEF KoWordsInv
  <2> QED  BY <1>1, <1>2, <1>3, <2>1, <2>3, <2>4 DEF KoInv
<1>6. CASE koFile.sections[koAt].alloc
  <2>1. PICK i, sec, start : i = koAt /\ sec = koFile.sections[koAt] /\ start = KoStart(sec)
    OBVIOUS
  <2>2. PICK words : words = start..(start + sec.size - 1)
    OBVIOUS
  <2>3. /\ koCur' = IF KoNeedsLayout THEN KoEnd(sec, start) ELSE koCur
        /\ koAddrs' = [s \in DOMAIN koAddrs \cup {i} |-> IF s = i THEN start ELSE koAddrs[s]]
        /\ koMem' = KoLoaded(i, start)
    BY <1>6, <2>1 DEF KoPlace
  <2>4. /\ i \in DOMAIN koFile.sections /\ start \in Nat /\ start >= KoBase
        /\ KoNeedsLayout => /\ start >= koCur /\ KoEnd(sec, start) \in Nat
                            /\ KoEnd(sec, start) >= start + sec.size
        /\ ~KoNeedsLayout => start = KoBase + sec.addr
        /\ \A s \in DOMAIN koAddrs : \A a \in KoExtent(s) : a \notin words
    BY <1>1, <1>6, <2>1, <2>2, KoStartApart
  <2>5. sec.size \in Nat /\ sec.addr \in Nat /\ sec.bits \in BOOLEAN
    BY <1>2, <2>1, <2>4, KoFileTypes
  <2>6. \A s \in DOMAIN koAddrs :
          /\ s \in DOMAIN koFile.sections /\ koFile.sections[s].alloc /\ s < koAt /\ s # i
          /\ koAddrs[s] \in Nat /\ koAddrs[s] >= KoBase
    BY <1>1, <1>2, <2>1 DEF KoPlacedInv
  <2>7. /\ DOMAIN koAddrs' = DOMAIN koAddrs \cup {i} /\ koAddrs'[i] = start
        /\ \A s \in DOMAIN koAddrs : koAddrs'[s] = koAddrs[s]
    BY <2>3, <2>6
  <2>8. /\ KoExtent(i)' = words
        /\ \A s \in DOMAIN koAddrs : KoExtent(s)' = KoExtent(s)
    BY <1>1, <2>1, <2>2, <2>7 DEF KoExtent
  <2>9. koCur' \in Nat /\ koCur' >= KoBase /\ (KoNeedsLayout => start + sec.size <= koCur' /\ koCur <= koCur')
    BY <1>2, <2>3, <2>4, <2>5
  <2>10. /\ DOMAIN koMem' = DOMAIN koMem \cup words
         /\ \A a \in DOMAIN koMem : a \notin words => koMem'[a] = koMem[a]
         /\ \A a \in words : /\ sec.bits => koMem'[a] = <<"data", i, a - start>>
                             /\ ~sec.bits /\ a \notin DOMAIN koMem => koUsed \/ koMem'[a] = <<"zero">>
    BY <2>1, <2>2, <2>3, <2>5 DEF KoLoaded
  <2>11. KoPlacedInv'
    <3>1. DOMAIN koAddrs' \subseteq { s \in DOMAIN koFile'.sections : koFile'.sections[s].alloc }
      BY <1>1, <1>6, <2>1, <2>4, <2>6, <2>7
    <3>2. \A s \in DOMAIN koAddrs' : s < koAt'
      BY <1>1, <1>2, <2>1, <2>6, <2>7, KoFileTypes
    <3>3. \A s \in DOMAIN koAddrs' : koAddrs'[s] \in Nat /\ koAddrs'[s] >= KoBase
      BY <2>4, <2>6, <2>7
    <3>4. ASSUME NEW s \in DOMAIN koAddrs'
          PROVE  IF KoNeedsLayout THEN koAddrs'[s] + koFile.sections[s].size <= koCur'
                 ELSE koAddrs'[s] = KoBase + koFile.sections[s].addr
      <4>1. CASE s = i
        BY <2>1, <2>4, <2>7, <2>9, <4>1
      <4>2. CASE s \in DOMAIN koAddrs
        <5>1. /\ IF KoNeedsLayout THEN koAddrs[s] + koFile.sections[s].size <= koCur
                 ELSE koAddrs[s] = KoBase + koFile.sections[s].addr
              /\ koFile.sections[s].size \in Nat
          BY <1>2, <2>6, <4>2, KoFileTypes DEF KoPlacedInv
        <5> QED  BY <1>2, <2>6, <2>7, <2>9, <4>2, <5>1
      <4> QED  BY <2>7, <4>1, <4>2
    <3>5. ASSUME NEW s \in DOMAIN koAddrs', NEW t \in DOMAIN koAddrs', s # t
          PROVE  KoExtent(s)' \cap KoExtent(t)' = {}
      <4>1. \A x, y \in DOMAIN koAddrs : x # y => KoExtent(x) \cap KoExtent(y) = {}
        BY <1>2 DEF KoPlacedInv
      <4>2. CASE s \in DOMAIN koAddrs /\ t \in DOMAIN koAddrs
        BY <2>8, <3>5, <4>1, <4>2
      <4>3. CASE s = i /\ t \in DOMAIN koAddrs
        BY <2>4, <2>8, <4>3
      <4>4. CASE s \in DOMAIN koAddrs /\ t = i
        BY <2>4, <2>8, <4>4
      <4> QED  BY <2>7, <3>5, <4>2, <4>3, <4>4
    <3>6. DOMAIN koMem' = UNION { KoExtent(s)' : s \in DOMAIN koAddrs' }
      <4>1. DOMAIN koMem = UNION { KoExtent(s) : s \in DOMAIN koAddrs }
        BY <1>2 DEF KoPlacedInv
      <4>2. \A a : a \in DOMAIN koMem' <=> \E s \in DOMAIN koAddrs' : a \in KoExtent(s)'
        BY <2>7, <2>8, <2>10, <4>1
      <4> QED  BY <4>2
    <3> QED  BY <1>1, <1>4, <3>1, <3>2, <3>3, <3>4, <3>5, <3>6 DEF KoPlacedInv
  <2>12. KoWordsInv'
    <3> SUFFICES ASSUME NEW s \in DOMAIN koAddrs',
                        NEW k \in (0..(koFile.sections[s].size - 1)) \ KoPatched(s)
                 PROVE  IF koFile.sections[s].bits THEN koMem'[koAddrs'[s] + k] = <<"data", s, k>>
                        ELSE koUsed \/ koMem'[koAddrs'[s] + k] = <<"zero">>
      BY <1>1, <1>4 DEF KoWordsInv
    <3>1. CASE s = i
      <4>1. start + k \in words /\ (start + k) - start = k
        BY <2>1, <2>2, <2>4, <2>5, <3>1
      <4>2. start + k \notin DOMAIN koMem
        BY <1>2, <2>4, <4>1 DEF KoPlacedInv
      <4> QED  BY <2>1, <2>5, <2>7, <2>10, <3>1, <4>1, <4>2
    <3>2. CASE s \in DOMAIN koAddrs
      <4>1. koAddrs[s] + k \in KoExtent(s)
        <5>1. koAddrs[s] \in Nat /\ koFile.sections[s].size \in Nat
          BY <1>2, <2>6, <3>2, KoFileTypes
        <5> QED  BY <5>1 DEF KoExtent
      <4>2. koAddrs[s] + k \in DOMAIN koMem /\ koAddrs[s] + k \notin words
        BY <1>2, <2>4, <3>2, <4>1 DEF KoPlacedInv
      <4>3. koMem'[koAddrs'[s] + k] = koMem[koAddrs[s] + k]
        BY <2>7, <2>10, <3>2, <4>2
      <4> QED  BY <1>2, <3>2, <4>3 DEF KoWordsInv
    <3> QED  BY <2>7, <3>1, <3>2
  <2> QED  BY <1>1, <1>3, <2>9, <2>11, <2>12 DEF KoInv
<1> QED  BY <1>5, <1>6

\* An offset below a size is inside the extent.
LEMMA InExtent ==
  ASSUME NEW a \in Nat, NEW o \in Nat, NEW z \in Nat, o < z
  PROVE  a + o \in a..(a + z - 1)
OBVIOUS

\* A relocation patches its own word, one of those it is listed to patch.
LEMMA KoRelocStep == KoInv /\ applyRelocs => KoInv'
<1> SUFFICES ASSUME KoInv, applyRelocs
             PROVE  KoInv'
  OBVIOUS
<1>1. /\ koPhase = "relocate" /\ koAt <= Len(koFile.relocs) /\ koAt' = koAt + 1
      /\ UNCHANGED <<koPhase, koFile, koCur, koAddrs, koUsed>>
  BY DEF applyRelocs
<1>2. /\ KoFileInv /\ KoPlacedInv /\ KoWordsInv /\ KoPatchInv /\ koAt \in Nat \ {0}
      /\ koApplied \in Nat /\ koUnresolved \in Seq(KoExternals \cup KoMissing)
      /\ koCur \in Nat /\ koCur >= KoBase /\ koUsed \in BOOLEAN
  BY DEF KoInv
<1>n. PICK n : n = koAt /\ n \in 1..Len(koFile.relocs)
  BY <1>1, <1>2, KoRelocTypes
<1>r. PICK r : r = koFile.relocs[n]
  OBVIOUS
<1>p. PICK p : p = KoPlaces(r)
  OBVIOUS
<1>3. /\ \A s : KoExtent(s)' = KoExtent(s) /\ KoPatched(s)' = KoPatched(s)
      /\ \A q : KoApplies(q)' = KoApplies(q) /\ KoPlaces(q)' = KoPlaces(q)
      /\ \A q, a : KoWord(q, a)' = KoWord(q, a)
      /\ KoNeedsLayout' = KoNeedsLayout
  BY <1>1 DEF KoExtent, KoPatched, KoApplies, KoPlaces, KoWord, KoResolved, KoNeedsLayout
<1>4. /\ r.sec \in DOMAIN koFile.sections /\ r.off \in Nat
      /\ r.off < koFile.sections[r.sec].size
      /\ r.sym.kind = "undef" => r.sym.name \in KoExternals \cup KoMissing
  BY <1>2, <1>n, <1>r, KoRelocTypes
<1>5. ASSUME NEW i \in 1..Len(koFile.relocs), koFile.relocs[i].sec \in DOMAIN koAddrs
      PROVE  /\ KoPlaces(koFile.relocs[i]) \in KoExtent(koFile.relocs[i].sec)
             /\ KoPlaces(koFile.relocs[i]) = koAddrs[koFile.relocs[i].sec] + koFile.relocs[i].off
             /\ koAddrs[koFile.relocs[i].sec] \in Nat
  <2>1. PICK q : q = koFile.relocs[i]
    OBVIOUS
  <2>2. /\ koAddrs[q.sec] \in Nat /\ q.off \in Nat /\ q.off < koFile.sections[q.sec].size
        /\ koFile.sections[q.sec].size \in Nat
    BY <1>2, <1>5, <2>1, KoRelocTypes, KoFileTypes DEF KoPlacedInv
  <2>3. PICK a \in Nat, o \in Nat, z \in Nat :
          a = koAddrs[q.sec] /\ o = q.off /\ z = koFile.sections[q.sec].size /\ o < z
    BY <2>2
  <2>o. o < z
    BY <2>3, Zenon
  <2>4. a + o \in a..(a + z - 1)
    BY <2>o, InExtent
  <2>5. KoPlaces(q) = a + o /\ KoExtent(q.sec) = a..(a + z - 1)
    BY <2>3, Zenon DEF KoPlaces, KoExtent
  <2>6. KoPlaces(q) \in KoExtent(q.sec) /\ KoPlaces(q) = koAddrs[q.sec] + q.off
        /\ koAddrs[q.sec] \in Nat
    BY <2>3, <2>4, <2>5, Zenon
  <2> QED  BY <2>1, <2>6, Zenon
<1>6. \A s, t \in DOMAIN koAddrs : \A a : a \in KoExtent(s) /\ a \in KoExtent(t) => s = t
  BY <1>2 DEF KoPlacedInv
<1>7. /\ koAt' \in Nat \ {0} /\ koAt' <= Len(koFile.relocs) + 1
      /\ \A i \in 1..(koAt' - 1) : i = n \/ i \in 1..(koAt - 1)
      /\ \A i \in 1..(koAt - 1) : i \in 1..Len(koFile.relocs) /\ i # n
  BY <1>1, <1>2, <1>n, KoRelocTypes
<1>8. KoFileInv'
  BY <1>1, <1>2 DEF KoFileInv
<1>9. /\ \A i \in 1..(koAt - 1) : KoApplies(koFile.relocs[i]) =>
           koMem[KoPlaces(koFile.relocs[i])] = KoWord(koFile.relocs[i], KoPlaces(koFile.relocs[i]))
      /\ koApplied + Len(koUnresolved) <= koAt - 1
  BY <1>1, <1>2 DEF KoPatchInv
<1>10. CASE ~KoApplies(r)
  <2>1. koMem' = koMem /\ koApplied' = koApplied
    BY <1>10, <1>n, <1>r DEF applyRelocs, KoApplies
  <2>2. /\ koUnresolved' \in Seq(KoExternals \cup KoMissing)
        /\ koApplied' + Len(koUnresolved') <= koAt' - 1
    <3>1. CASE koUnresolved' = koUnresolved
      BY <1>1, <1>2, <1>9, <2>1, <3>1, LenProperties
    <3>2. CASE koUnresolved' # koUnresolved
      <4>1. koUnresolved' = Append(koUnresolved, r.sym.name) /\ r.sym.kind = "undef"
        BY <1>n, <1>r, <3>2 DEF applyRelocs
      <4>2. /\ koUnresolved' \in Seq(KoExternals \cup KoMissing)
            /\ Len(koUnresolved') = Len(koUnresolved) + 1 /\ Len(koUnresolved) \in Nat
        BY <1>2, <1>4, <4>1, Appended
      <4> QED  BY <1>1, <1>2, <1>9, <2>1, <4>2
    <3> QED  BY <3>1, <3>2
  <2>3. KoPatchInv'
    <3>1. \A i \in 1..(koAt' - 1) : KoApplies(koFile.relocs[i]) =>
            koMem[KoPlaces(koFile.relocs[i])] = KoWord(koFile.relocs[i], KoPlaces(koFile.relocs[i]))
      BY <1>7, <1>9, <1>10, <1>r
    <3> QED  BY <1>1, <1>3, <1>7, <2>1, <2>2, <3>1 DEF KoPatchInv
  <2>4. KoPlacedInv' /\ KoWordsInv'
    BY <1>1, <1>2, <1>3, <2>1 DEF KoPlacedInv, KoWordsInv
  <2> QED  BY <1>1, <1>2, <1>7, <1>8, <2>1, <2>2, <2>3, <2>4 DEF KoInv
<1>11. CASE KoApplies(r)
  <2>1. r.sec \in DOMAIN koAddrs
    BY <1>11 DEF KoApplies
  <2>2. /\ koMem' = [koMem EXCEPT ![p] = KoWord(r, p)]
        /\ koApplied' = koApplied + 1 /\ UNCHANGED koUnresolved
    <3>1. p = koAddrs[r.sec] + r.off
      BY <1>p DEF KoPlaces
    <3> QED  BY <1>11, <1>n, <1>r, <3>1 DEF applyRelocs, KoApplies
  <2>3. p \in KoExtent(r.sec) /\ p = koAddrs[r.sec] + r.off /\ koAddrs[r.sec] \in Nat
    BY <1>5, <1>n, <1>r, <1>p, <2>1
  <2>4. p \in DOMAIN koMem
    BY <1>2, <2>1, <2>3 DEF KoPlacedInv
  <2>5. /\ DOMAIN koMem' = DOMAIN koMem /\ koMem'[p] = KoWord(r, p)
        /\ \A a \in DOMAIN koMem : a # p => koMem'[a] = koMem[a]
    BY <2>2, <2>4
  <2>6. ASSUME NEW s \in DOMAIN koAddrs, NEW a \in KoExtent(s), a # p
        PROVE  koMem'[a] = koMem[a]
    <3>1. a \in DOMAIN koMem
      BY <1>2, <2>6 DEF KoPlacedInv
    <3> QED  BY <2>5, <2>6, <3>1
  <2>7. KoPlacedInv'
    BY <1>1, <1>2, <1>3, <2>5 DEF KoPlacedInv
  <2>8. KoWordsInv'
    <3> SUFFICES ASSUME NEW s \in DOMAIN koAddrs,
                        NEW k \in (0..(koFile.sections[s].size - 1)) \ KoPatched(s)
                 PROVE  koMem'[koAddrs[s] + k] = koMem[koAddrs[s] + k]
      BY <1>1, <1>2, <1>3 DEF KoWordsInv
    <3>1. koAddrs[s] \in Nat /\ koFile.sections[s].size \in Nat /\ k \in Nat
      BY <1>2, KoFileTypes DEF KoPlacedInv
    <3>2. koAddrs[s] + k \in KoExtent(s)
      BY <3>1 DEF KoExtent
    <3>3. koAddrs[s] + k # p
      <4> SUFFICES ASSUME koAddrs[s] + k = p
                   PROVE  FALSE
        OBVIOUS
      <4>1. s = r.sec
        BY <1>6, <2>1, <2>3, <3>2
      <4>2. k = r.off
        BY <1>4, <2>3, <3>1, <4>1
      <4>3. n \in DOMAIN koFile.relocs /\ koFile.relocs[n].sec = s /\ koFile.relocs[n].off = k
        BY <1>2, <1>n, <1>r, <4>1, <4>2, KoRelocTypes
      <4> QED  BY <4>3 DEF KoPatched
    <3> QED  BY <2>6, <3>2, <3>3
  <2>9. KoPatchInv'
    <3>1. ASSUME NEW i \in 1..(koAt' - 1), KoApplies(koFile.relocs[i])
          PROVE  koMem'[KoPlaces(koFile.relocs[i])] = KoWord(koFile.relocs[i], KoPlaces(koFile.relocs[i]))
      <4>1. CASE i = n
        BY <1>r, <1>p, <2>5, <4>1
      <4>2. CASE i \in 1..(koAt - 1)
        <5>1. i \in 1..Len(koFile.relocs) /\ i # n /\ koFile.relocs[i].sec \in DOMAIN koAddrs
          BY <1>7, <3>1, <4>2 DEF KoApplies
        <5>2. PICK q : q = koFile.relocs[i]
          OBVIOUS
        <5>3. /\ KoPlaces(q) \in KoExtent(q.sec) /\ KoPlaces(q) = koAddrs[q.sec] + q.off
              /\ koAddrs[q.sec] \in Nat /\ q.off \in Nat
          BY <1>2, <1>5, <5>1, <5>2, KoRelocTypes
        <5>4. q.sec # r.sec \/ q.off # r.off
          BY <1>2, <1>n, <1>r, <5>1, <5>2 DEF KoFileInv
        <5>5. KoPlaces(q) # p
          <6>1. CASE q.sec # r.sec
            BY <1>6, <2>1, <2>3, <5>1, <5>2, <5>3, <6>1
          <6>2. CASE q.sec = r.sec
            BY <1>4, <2>3, <5>3, <5>4, <6>2
          <6> QED  BY <6>1, <6>2
        <5>6. koMem'[KoPlaces(q)] = koMem[KoPlaces(q)]
          BY <2>6, <5>1, <5>2, <5>3, <5>5
        <5> QED  BY <1>9, <3>1, <4>2, <5>2, <5>6
      <4> QED  BY <1>7, <4>1, <4>2
    <3>2. koApplied' + Len(koUnresolved') <= koAt' - 1
      BY <1>1, <1>2, <1>9, <2>2, LenProperties
    <3> QED  BY <1>1, <1>3, <1>7, <3>1, <3>2 DEF KoPatchInv
  <2> QED  BY <1>1, <1>2, <1>7, <1>8, <2>2, <2>7, <2>8, <2>9 DEF KoInv
<1> QED  BY <1>10, <1>11

LEMMA KoInvNext == KoInv /\ [KoNext]_koVars => KoInv'
<1> SUFFICES ASSUME KoInv, [KoNext]_koVars
             PROVE  KoInv'
  OBVIOUS
<1>1. ASSUME UNCHANGED <<koFile, koCur, koAddrs, koMem, koUsed, koApplied, koUnresolved>>,
             koPhase' \in {"place", "relocate", "done", "refused"}, koAt' \in Nat \ {0},
             koPhase' = "place" => \A s \in DOMAIN koAddrs : s < koAt', KoPatchInv'
      PROVE  KoInv'
  <2>1. KoFileInv' /\ KoWordsInv'
    BY <1>1 DEF KoInv, KoFileInv, KoWordsInv, KoPatched
  <2>2. KoPlacedInv'
    BY <1>1 DEF KoInv, KoPlacedInv, KoExtent, KoNeedsLayout
  <2> QED  BY <1>1, <2>1, <2>2 DEF KoInv
<1>2. CASE parseElfKo
  <2>1. /\ koPhase = "new" /\ koPhase' \in {"refused", "place"}
        /\ UNCHANGED <<koFile, koAt, koCur, koAddrs, koMem, koUsed, koApplied, koUnresolved>>
    BY <1>2 DEF parseElfKo
  <2>2. koAt' \in Nat \ {0} /\ DOMAIN koAddrs = {} /\ KoPatchInv'
    BY <2>1 DEF KoInv, KoPatchInv
  <2> QED  BY <1>1, <2>1, <2>2
<1>3. CASE KoPlaced
  <2>1. /\ koPhase = "place" /\ koPhase' = "relocate" /\ koAt' = 1
        /\ UNCHANGED <<koFile, koCur, koAddrs, koMem, koUsed, koApplied, koUnresolved>>
    BY <1>3 DEF KoPlaced
  <2>2. koApplied = 0 /\ Len(koUnresolved) = 0 /\ Len(koFile.relocs) \in Nat
    BY <2>1, KoRelocTypes DEF KoInv, KoPatchInv
  <2>3. KoPatchInv'
    BY <2>1, <2>2 DEF KoPatchInv
  <2> QED  BY <1>1, <2>1, <2>3
<1>4. CASE KoDone
  <2>1. /\ koPhase = "relocate" /\ koPhase' = "done" /\ koAt > Len(koFile.relocs)
        /\ UNCHANGED <<koFile, koAt, koCur, koAddrs, koMem, koUsed, koApplied, koUnresolved>>
    BY <1>4 DEF KoDone
  <2>2. koAt \in Nat \ {0} /\ KoPatchInv /\ Len(koFile.relocs) \in Nat
    BY KoRelocTypes DEF KoInv
  <2>3. koAt' = Len(koFile'.relocs) + 1 /\ koAt' <= Len(koFile'.relocs) + 1
    BY <2>1, <2>2 DEF KoPatchInv
  <2>4. KoPatchInv'
    BY <2>1, <2>2, <2>3 DEF KoPatchInv, KoApplies, KoPlaces, KoWord, KoResolved
  <2> QED  BY <1>1, <2>1, <2>2, <2>4
<1>5. CASE UNCHANGED koVars
  <2>1. UNCHANGED <<koPhase, koFile, koAt, koCur, koAddrs, koMem, koUsed, koApplied, koUnresolved>>
    BY <1>5 DEF koVars
  <2>2. /\ \A s : KoExtent(s)' = KoExtent(s) /\ KoPatched(s)' = KoPatched(s)
        /\ \A q : KoApplies(q)' = KoApplies(q) /\ KoPlaces(q)' = KoPlaces(q)
        /\ \A q, a : KoWord(q, a)' = KoWord(q, a)
        /\ KoNeedsLayout' = KoNeedsLayout
    BY <2>1 DEF KoExtent, KoPatched, KoApplies, KoPlaces, KoWord, KoResolved, KoNeedsLayout
  <2>3. KoFileInv /\ KoPlacedInv /\ KoWordsInv /\ KoPatchInv
    BY DEF KoInv
  <2>4. KoFileInv'
    BY <2>1, <2>3 DEF KoFileInv
  <2>5. KoPlacedInv'
    BY <2>1, <2>2, <2>3 DEF KoPlacedInv
  <2>6. KoWordsInv'
    BY <2>1, <2>2, <2>3 DEF KoWordsInv
  <2>7. KoPatchInv'
    BY <2>1, <2>2, <2>3 DEF KoPatchInv
  <2> QED  BY <2>1, <2>4, <2>5, <2>6, <2>7 DEF KoInv
<1> QED  BY <1>2, <1>3, <1>4, <1>5, KoPlaceStep, KoRelocStep DEF KoNext

-----------------------------------------------------------------------------
\* What the invariant says of a loaded module is that it is whole.
LEMMA KoInvWhole == KoInv => KoImageWhole
<1> SUFFICES ASSUME KoInv, koPhase = "done"
             PROVE  KoImageWhole
  BY DEF KoImageWhole
<1>1. KoFileInv /\ KoPlacedInv /\ KoWordsInv /\ KoPatchInv /\ koAt = Len(koFile.relocs) + 1
  BY DEF KoInv, KoPatchInv
<1>2. \A s, t \in DOMAIN koAddrs : s # t => KoExtent(s) \cap KoExtent(t) = {}
  BY <1>1 DEF KoPlacedInv
<1>3. ASSUME NEW i \in DOMAIN koFile.relocs, NEW r, r = koFile.relocs[i], r.sec \in DOMAIN koAddrs,
             r.sym.kind = "section", r.type \in {"64", "PC32"}, r.sym.shndx \in DOMAIN koAddrs
      PROVE  IF r.type = "PC32"
             THEN (KoLeadsTo(r, KoPlaces(r)) - (koAddrs[r.sym.shndx] + r.sym.value)) % KoRange = 0
             ELSE KoLeadsTo(r, KoPlaces(r)) = koAddrs[r.sym.shndx] + r.sym.value
  <2>1. i \in 1..(koAt - 1) /\ i \in 1..Len(koFile.relocs)
    BY <1>1, KoRelocTypes
  <2>2. KoApplies(r)
    BY <1>3 DEF KoApplies
  <2>3. koMem[KoPlaces(r)] = KoWord(r, KoPlaces(r))
    BY <1>1, <1>3, <2>1, <2>2 DEF KoPatchInv
  <2>4. PICK to \in Nat : to = koAddrs[r.sym.shndx] + r.sym.value
    BY <1>1, <1>3, <2>1, KoRelocTypes, SMTT(30) DEF KoPlacedInv
  <2>5. PICK p \in Nat : p = KoPlaces(r)
    BY <1>1, <1>3, <2>1, KoRelocTypes DEF KoPlacedInv, KoPlaces
  <2>6. PICK d \in Nat : d = r.addend
    BY <1>1, <1>3, <2>1, KoRelocTypes
  <2>7. KoResolved(r.sym) = to
    BY <1>3, <2>4 DEF KoResolved
  <2>8. CASE r.type = "64"
    <3>1. koMem[p] = <<"64", to + d>>
      BY <2>3, <2>5, <2>6, <2>7, <2>8 DEF KoWord
    <3>2. KoLeadsTo(r, p) = (to + d) - d
      BY <2>6, <2>8, <3>1 DEF KoLeadsTo
    <3> QED  BY <2>4, <2>5, <2>8, <3>2
  <2>9. CASE r.type = "PC32"
    <3>1. PICK x \in Int : x = (to + d) - p
      OBVIOUS
    <3>2. PICK m \in Int : m = x % KoRange
      BY KoAssumption
    <3>3. koMem[p] = <<"32", m>>
      BY <2>3, <2>5, <2>6, <2>7, <2>9, <3>1, <3>2 DEF KoWord
    <3>4. KoLeadsTo(r, p) = (p + m) - d
      BY <2>6, <2>9, <3>3 DEF KoLeadsTo
    <3>5. ((p + m) - d) - to = m - x
      BY <3>1
    <3>6. (m - x) % KoRange = 0
      BY <3>2, KoModBack, KoAssumption
    <3> QED  BY <2>4, <2>5, <2>9, <3>4, <3>5, <3>6
  <2> QED  BY <1>3, <2>8, <2>9
<1>4. \A i \in DOMAIN koFile.relocs :
        LET r == koFile.relocs[i] IN
        (r.sec \in DOMAIN koAddrs /\ r.sym.kind = "section" /\ r.type \in {"64", "PC32"}) =>
          (r.sym.shndx \in DOMAIN koAddrs =>
            LET P == koAddrs[r.sec] + r.off IN
            IF r.type = "PC32"
            THEN (KoLeadsTo(r, P) - (koAddrs[r.sym.shndx] + r.sym.value)) % KoRange = 0
            ELSE KoLeadsTo(r, P) = koAddrs[r.sym.shndx] + r.sym.value)
  BY <1>3 DEF KoPlaces
<1> QED  BY <1>1, <1>2, <1>4 DEF KoImageWhole, KoExtent, KoWordsInv

LEMMA KoInvTypes == KoInv => KoTypeOK
<1> SUFFICES ASSUME KoInv
             PROVE  KoTypeOK
  OBVIOUS
<1>1. KoFileInv /\ KoPlacedInv /\ KoPatchInv /\ Len(koFile.relocs) \in Nat
  BY KoRelocTypes DEF KoInv
<1>2. DOMAIN koAddrs \subseteq DOMAIN koFile.sections
  BY <1>1 DEF KoPlacedInv
<1>3. \A a \in DOMAIN koMem : a >= KoBase
  <2>1. ASSUME NEW s \in DOMAIN koAddrs, NEW a \in KoExtent(s)
        PROVE  a >= KoBase
    <3>1. koAddrs[s] \in Nat /\ koAddrs[s] >= KoBase /\ koFile.sections[s].size \in Nat /\ KoBase \in Nat
      BY <1>1, <1>2, KoFileTypes, KoAssumption DEF KoPlacedInv
    <3> QED  BY <3>1 DEF KoExtent
  <2> QED  BY <1>1, <2>1 DEF KoPlacedInv
<1>4. koApplied + Len(koUnresolved) <= Len(koFile.relocs)
  <2>1. koApplied \in Nat /\ Len(koUnresolved) \in Nat /\ koAt \in Nat
    BY LenProperties DEF KoInv
  <2>2. CASE koPhase \in {"relocate", "done"}
    BY <1>1, <2>1, <2>2 DEF KoPatchInv
  <2>3. CASE koPhase \in {"new", "place", "refused"}
    BY <1>1, <2>1, <2>3 DEF KoPatchInv
  <2> QED  BY <2>2, <2>3 DEF KoInv
<1> QED  BY <1>1, <1>2, <1>3, <1>4 DEF KoTypeOK, KoInv, KoFileInv

\* What the loader writes lies past the base, in the sections of the file, and every
\* relocation is counted at most once.
THEOREM KoTypeCorrect == KoSpec => []KoTypeOK
BY KoInvTypes, KoInvInit, KoInvNext, PTL DEF KoSpec

\* A loaded module is whole, for every table of sections, alignments and relocations, and
\* every width of the fields.
THEOREM ImageWhole == KoSpec => []KoImageWhole
BY KoInvWhole, KoInvInit, KoInvNext, PTL DEF KoSpec

-----------------------------------------------------------------------------
(***************************************************************************)
(* What a module registers (LinuxRegistry).  The lists and the ghost of what *)
(* is held agree (LxMirrors); from there on the harvest is followed one      *)
(* stage after the other, each entry of which is true (LxTrue), and the last *)
(* of which keeps the first of the entries that are the same.               *)
(***************************************************************************)
\* One list with an element more, or with one taken out.
LEMMA LxCut ==
  ASSUME NEW S, NEW s \in Seq(S), NEW I
  PROVE  /\ Kept(s, I) \in Seq(S) /\ Len(Kept(s, I)) \in Nat /\ Len(Kept(s, I)) <= Len(s)
         /\ I \subseteq DOMAIN s => /\ LxWithoutFirst(s, I) \in Seq(S)
                                    /\ Len(LxWithoutFirst(s, I)) \in Nat
                                    /\ Len(LxWithoutFirst(s, I)) <= Len(s)
<1>1. Kept(s, I) \in Seq(S) /\ Len(Kept(s, I)) \in Nat /\ Len(Kept(s, I)) <= Len(s)
  BY KeptProperties
<1>2. ASSUME I \subseteq DOMAIN s
      PROVE  /\ LxWithoutFirst(s, I) \in Seq(S) /\ Len(LxWithoutFirst(s, I)) \in Nat
             /\ Len(LxWithoutFirst(s, I)) <= Len(s)
  <2>1. CASE I = {}
    BY <2>1, LenProperties DEF LxWithoutFirst
  <2>2. CASE I # {}
    <3>1. I \subseteq Nat /\ I \subseteq 1..Len(s)
      BY <1>2, LenProperties
    <3>2. \E i \in I : \A k \in I : i <= k
      BY <2>2, <3>1, LeastNumber
    <3>3. PICK k \in 1..Len(s) : k = CHOOSE i \in I : \A j \in I : i <= j
      BY <3>1, <3>2
    <3>4. LxWithoutFirst(s, I) = RemoveAt(s, k)
      BY <2>2, <3>3 DEF LxWithoutFirst
    <3> QED  BY <3>4, TakenOut
  <2> QED  BY <2>1, <2>2
<1> QED  BY <1>1, <1>2

\* Nothing is registered at first.
LEMMA LxTypeInit == LxInit => LxTypeOK
<1> SUFFICES ASSUME LxInit
             PROVE  LxTypeOK
  OBVIOUS
<1>1. \A S : <<>> \in Seq(S) /\ Len(<<>>) = 0
  BY EmptySeq
<1>2. LxMaxCalls \in Nat
  BY LxAssumption
<1> QED  BY <1>1, <1>2 DEF LxInit, LxTypeOK

\* The registry of devices.
LEMMA LxDeviceTypes == LxTypeOK /\ LxDeviceStep => LxTypeOK'
<1> SUFFICES ASSUME LxTypeOK, LxDeviceStep
             PROVE  LxTypeOK'
  OBVIOUS
<1>1. /\ lxDevs \in Seq(LxDevSet) /\ lxMisc \in Seq(LxFops) /\ Len(lxDevs) \in Nat
      /\ lxHooks \in Seq(LxHookSet) /\ Len(lxHooks) \in Nat /\ LxMaxCalls \in Nat
      /\ lxCalls \in 0..LxMaxCalls /\ lxProgs \in 0..lxCalls /\ lxRings \in 0..lxCalls
      /\ Len(lxDevs) + Len(lxHooks) <= lxCalls
  BY LxAssumption, LenProperties DEF LxTypeOK
<1>2. LxCall /\ UNCHANGED <<lxHookVars, lxProgs, lxRings>>
  BY DEF LxDeviceStep, misc_register, misc_deregister, proc_create, netlink_kernel_create,
         register_chrdev, unregister_chrdev, alloc_chrdev_region
<1>3. /\ lxDevs' \in Seq(LxDevSet) /\ Len(lxDevs') \in Nat /\ Len(lxDevs') <= Len(lxDevs) + 1
  <2>1. ASSUME NEW major \in Nat, NEW fops \in LxFops \cup {"0"},
               NEW type \in {"chrdev", "alloc_region", "misc", "proc", "netlink"},
               LxNewDevice(major, fops, type)
        PROVE  lxDevs' \in Seq(LxDevSet) /\ Len(lxDevs') \in Nat /\ Len(lxDevs') <= Len(lxDevs) + 1
    <3>1. [major |-> major, fops |-> fops, type |-> type] \in LxDevSet
      BY DEF LxDevSet
    <3>2. PICK d \in LxDevSet : lxDevs' = Append(lxDevs, d)
      BY <2>1, <3>1 DEF LxNewDevice
    <3> QED  BY <1>1, <3>2, Appended
  <2>2. CASE lxDevs' = lxDevs
    BY <1>1, <2>2
  <2>3. ASSUME NEW f \in LxFops,
               misc_register(f) \/ misc_deregister(f) \/ proc_create(f) \/ netlink_kernel_create(f)
        PROVE  lxDevs' \in Seq(LxDevSet) /\ Len(lxDevs') \in Nat /\ Len(lxDevs') <= Len(lxDevs) + 1
    BY <2>1, <2>2, <2>3 DEF misc_register, misc_deregister, proc_create, netlink_kernel_create
  <2>4. ASSUME NEW m \in LxMajors \cup {0}, NEW f \in LxFops, register_chrdev(m, f)
        PROVE  lxDevs' \in Seq(LxDevSet) /\ Len(lxDevs') \in Nat /\ Len(lxDevs') <= Len(lxDevs) + 1
    BY <2>1, <2>4, LxAssumption DEF register_chrdev
  <2>5. ASSUME NEW m \in LxMajors, unregister_chrdev(m)
        PROVE  lxDevs' \in Seq(LxDevSet) /\ Len(lxDevs') \in Nat /\ Len(lxDevs') <= Len(lxDevs) + 1
    <3>1. PICK I \in SUBSET DOMAIN lxDevs : lxDevs' = LxWithoutFirst(lxDevs, I)
      BY <2>5 DEF unregister_chrdev
    <3> QED  BY <1>1, <3>1, LxCut
  <2>6. CASE alloc_chrdev_region
    BY <2>1, <2>6 DEF alloc_chrdev_region
  <2> QED  BY <2>3, <2>4, <2>5, <2>6 DEF LxDeviceStep
<1>4. lxMisc' \in Seq(LxFops)
  <2>1. ASSUME NEW f \in LxFops, misc_register(f)
        PROVE  lxMisc' \in Seq(LxFops)
    BY <1>1, <2>1, Appended DEF misc_register
  <2>2. ASSUME NEW f \in LxFops, misc_deregister(f)
        PROVE  lxMisc' \in Seq(LxFops)
    <3>1. PICK I \in SUBSET DOMAIN lxMisc : lxMisc' = LxWithoutFirst(lxMisc, I)
      BY <2>2 DEF misc_deregister
    <3> QED  BY <1>1, <3>1, LxCut
  <2> QED  BY <1>1, <2>1, <2>2 DEF LxDeviceStep, proc_create, netlink_kernel_create,
              register_chrdev, unregister_chrdev, alloc_chrdev_region
<1>5. lxCalls' \in 0..LxMaxCalls /\ lxCalls' = lxCalls + 1 /\ Len(lxDevs') + Len(lxHooks') <= lxCalls'
      /\ lxProgs' \in 0..lxCalls' /\ lxRings' \in 0..lxCalls'
  BY <1>1, <1>2, <1>3 DEF LxCall, lxHookVars
<1> QED  BY <1>2, <1>3, <1>4, <1>5 DEF LxTypeOK, lxHookVars

\* The hooks.
LEMMA LxHookTypes == LxTypeOK /\ LxHookStep => LxTypeOK'
<1> SUFFICES ASSUME LxTypeOK, LxHookStep
             PROVE  LxTypeOK'
  OBVIOUS
<1>1. /\ Len(lxDevs) \in Nat /\ lxDevs \in Seq(LxDevSet) /\ lxMisc \in Seq(LxFops)
      /\ lxHooks \in Seq(LxHookSet) /\ Len(lxHooks) \in Nat /\ LxMaxCalls \in Nat
      /\ lxFtrace \in Seq(LxFtraceSet) /\ lxKprobes \in Seq(LxKprobeSet) /\ lxTps \in Seq(LxTpSet)
      /\ lxHeld \subseteq {"ftrace", "kprobe", "tracepoint"} \X LxOps \X LxFuncs
      /\ lxLeft \subseteq {"tracepoint"} \X LxOps \X LxFuncs
      /\ lxCalls \in 0..LxMaxCalls /\ lxProgs \in 0..lxCalls /\ lxRings \in 0..lxCalls
      /\ Len(lxDevs) + Len(lxHooks) <= lxCalls
  BY LxAssumption, LenProperties DEF LxTypeOK
<1>2. LxCall /\ UNCHANGED <<lxDevs, lxMisc>>
  BY DEF LxHookStep, register_ftrace_function, tracepoint_probe_register,
         tracepoint_probe_unregister, register_kprobe,
         unregister_ftrace_function, unregister_kprobe, ftrace_set_filter_ip, bpf, io_uring_setup
<1>3. lxCalls' \in 0..LxMaxCalls /\ lxCalls' = lxCalls + 1
  BY <1>1, <1>2 DEF LxCall
<1>4. ASSUME NEW sub \in {"ftrace", "tracepoint", "ebpf", "io_uring"},
             NEW ops \in LxOps \cup {"attr", "params"}, NEW va \in LxHookVas,
             NEW fops \in LxOps \cup LxHookFds, LxHook(sub, ops, va, fops)
      PROVE  lxHooks' \in Seq(LxHookSet) /\ Len(lxHooks') \in Nat /\ Len(lxHooks') = Len(lxHooks) + 1
  <2>1. [sub |-> sub, ops |-> ops, va |-> va, fops |-> fops] \in LxHookSet
    BY DEF LxHookSet
  <2>2. PICK h \in LxHookSet : lxHooks' = Append(lxHooks, h)
    BY <1>4, <2>1 DEF LxHook
  <2> QED  BY <1>1, <2>2, Appended
<1>5. ASSUME NEW sub, NEW ops, lxHooks' = LxHooksWithout(sub, ops)
      PROVE  lxHooks' \in Seq(LxHookSet) /\ Len(lxHooks') \in Nat /\ Len(lxHooks') <= Len(lxHooks)
  BY <1>1, <1>5, LxCut DEF LxHooksWithout
<1>6. ASSUME NEW sub, NEW ops, LxReleased(sub, ops)
      PROVE  lxHeld' \subseteq {"ftrace", "kprobe", "tracepoint"} \X LxOps \X LxFuncs
  BY <1>1, <1>6 DEF LxReleased
<1>7. LxFuncs \subseteq LxHookVas
  BY DEF LxHookVas
<1>a. ASSUME NEW o \in LxOps, NEW f \in LxFuncs, register_ftrace_function(o, f)
      PROVE  LxTypeOK'
  <2>1. lxHooks' \in Seq(LxHookSet) /\ Len(lxHooks') \in Nat /\ Len(lxHooks') = Len(lxHooks) + 1
    BY <1>4, <1>7, <1>a DEF register_ftrace_function
  <2>2. PICK h \in LxFtraceSet : lxFtrace' = Append(lxFtrace, h)
    BY <1>a DEF register_ftrace_function, LxFtraceSet
  <2>3. lxFtrace' \in Seq(LxFtraceSet)
    BY <1>1, <2>2, Appended
  <2>4. lxHeld' \subseteq {"ftrace", "kprobe", "tracepoint"} \X LxOps \X LxFuncs
    BY <1>1, <1>a DEF register_ftrace_function
  <2>5. UNCHANGED <<lxKprobes, lxTps, lxProgs, lxRings, lxLeft>>
    BY <1>a DEF register_ftrace_function
  <2> QED  BY <1>1, <1>2, <1>3, <2>1, <2>3, <2>4, <2>5 DEF LxTypeOK
<1>b. ASSUME NEW o \in LxOps, NEW f \in LxFuncs, tracepoint_probe_register(o, f)
      PROVE  LxTypeOK'
  <2>1. lxHooks' \in Seq(LxHookSet) /\ Len(lxHooks') \in Nat /\ Len(lxHooks') = Len(lxHooks) + 1
    BY <1>4, <1>7, <1>b DEF tracepoint_probe_register
  <2>2. PICK h \in LxTpSet : lxTps' = Append(lxTps, h)
    BY <1>b DEF tracepoint_probe_register, LxTpSet
  <2>3. lxTps' \in Seq(LxTpSet)
    BY <1>1, <2>2, Appended
  <2>4. lxHeld' \subseteq {"ftrace", "kprobe", "tracepoint"} \X LxOps \X LxFuncs
    BY <1>1, <1>b DEF tracepoint_probe_register
  <2>6. lxLeft' \subseteq {"tracepoint"} \X LxOps \X LxFuncs
    BY <1>1, <1>b DEF tracepoint_probe_register
  <2>5. UNCHANGED <<lxKprobes, lxFtrace, lxProgs, lxRings>>
    BY <1>b DEF tracepoint_probe_register
  <2> QED  BY <1>1, <1>2, <1>3, <2>1, <2>3, <2>4, <2>5, <2>6 DEF LxTypeOK
<1>i. ASSUME NEW o \in LxOps, NEW f \in LxFuncs, tracepoint_probe_unregister(o, f)
      PROVE  LxTypeOK'
  <2>1. UNCHANGED <<lxHooks, lxFtrace, lxKprobes, lxTps, lxProgs, lxRings>>
    BY <1>i DEF tracepoint_probe_unregister
  <2>2. /\ lxHeld' \subseteq {"ftrace", "kprobe", "tracepoint"} \X LxOps \X LxFuncs
        /\ lxLeft' \subseteq {"tracepoint"} \X LxOps \X LxFuncs
    BY <1>1, <1>i DEF tracepoint_probe_unregister
  <2> QED  BY <1>1, <1>2, <1>3, <2>1, <2>2 DEF LxTypeOK
<1>c. ASSUME NEW o \in LxOps, NEW pre \in LxFuncs \cup {"0"}, NEW post \in LxFuncs \cup {"0"},
             register_kprobe(o, pre, post)
      PROVE  LxTypeOK'
  <2>2. PICK h \in LxKprobeSet : lxKprobes' = Append(lxKprobes, h)
    BY <1>c DEF register_kprobe, LxKprobeSet
  <2>3. lxKprobes' \in Seq(LxKprobeSet)
    BY <1>1, <2>2, Appended
  <2>4. lxHeld' \subseteq {"ftrace", "kprobe", "tracepoint"} \X LxOps \X LxFuncs
    BY <1>1, <1>c DEF register_kprobe
  <2>5. UNCHANGED <<lxHooks, lxTps, lxFtrace, lxProgs, lxRings, lxLeft>>
    BY <1>c DEF register_kprobe
  <2> QED  BY <1>1, <1>2, <1>3, <2>3, <2>4, <2>5 DEF LxTypeOK
<1>d. ASSUME NEW o \in LxOps, unregister_ftrace_function(o)
      PROVE  LxTypeOK'
  <2>1. lxHooks' \in Seq(LxHookSet) /\ Len(lxHooks') \in Nat /\ Len(lxHooks') <= Len(lxHooks)
    BY <1>5, <1>d DEF unregister_ftrace_function
  <2>3. lxFtrace' \in Seq(LxFtraceSet)
    BY <1>1, <1>d, LxCut DEF unregister_ftrace_function, LxFtraceWithout
  <2>4. lxHeld' \subseteq {"ftrace", "kprobe", "tracepoint"} \X LxOps \X LxFuncs
    BY <1>6, <1>d DEF unregister_ftrace_function
  <2>5. UNCHANGED <<lxKprobes, lxTps, lxProgs, lxRings, lxLeft>>
    BY <1>d DEF unregister_ftrace_function
  <2> QED  BY <1>1, <1>2, <1>3, <2>1, <2>3, <2>4, <2>5 DEF LxTypeOK
<1>e. ASSUME NEW o \in LxOps, unregister_kprobe(o)
      PROVE  LxTypeOK'
  <2>1. lxHooks' \in Seq(LxHookSet) /\ Len(lxHooks') \in Nat /\ Len(lxHooks') <= Len(lxHooks)
    BY <1>5, <1>e DEF unregister_kprobe
  <2>3. lxKprobes' \in Seq(LxKprobeSet)
    BY <1>1, <1>e, LxCut DEF unregister_kprobe
  <2>4. lxHeld' \subseteq {"ftrace", "kprobe", "tracepoint"} \X LxOps \X LxFuncs
    BY <1>6, <1>e DEF unregister_kprobe
  <2>5. UNCHANGED <<lxFtrace, lxTps, lxProgs, lxRings, lxLeft>>
    BY <1>e DEF unregister_kprobe
  <2> QED  BY <1>1, <1>2, <1>3, <2>1, <2>3, <2>4, <2>5 DEF LxTypeOK
<1>f. ASSUME NEW o \in LxOps, ftrace_set_filter_ip(o, "ip")
      PROVE  LxTypeOK'
  <2>1. DOMAIN lxFtrace = 1..Len(lxFtrace) /\ Len(lxFtrace) \in Nat
        /\ \A i \in DOMAIN lxFtrace : lxFtrace[i] \in LxFtraceSet
    BY <1>1, LenProperties, ElementOfSeq
  <2>2. PICK I : lxFtrace' = [i \in DOMAIN lxFtrace |->
                   IF i \in I THEN [lxFtrace[i] EXCEPT !.addr = "ip"] ELSE lxFtrace[i]]
    <3>1. PICK m : m = {i \in DOMAIN lxFtrace : lxFtrace[i].ops = o}
      OBVIOUS
    <3>2. lxFtrace' = [i \in DOMAIN lxFtrace |->
                   IF i \in {j \in m : \A k \in m : j <= k}
                   THEN [lxFtrace[i] EXCEPT !.addr = "ip"] ELSE lxFtrace[i]]
      BY <1>f, <3>1 DEF ftrace_set_filter_ip
    <3> QED  BY <3>2
  <2>3. \A h \in LxFtraceSet : [h EXCEPT !.addr = "ip"] \in LxFtraceSet
    BY DEF LxFtraceSet
  <2>4. lxFtrace' \in [1..Len(lxFtrace) -> LxFtraceSet]
    BY <2>1, <2>2, <2>3
  <2>5. lxFtrace' \in Seq(LxFtraceSet)
    BY <2>1, <2>4
  <2>6. UNCHANGED <<lxHooks, lxKprobes, lxTps, lxProgs, lxRings, lxHeld, lxLeft>>
    BY <1>f DEF ftrace_set_filter_ip
  <2> QED  BY <1>1, <1>2, <1>3, <2>5, <2>6 DEF LxTypeOK
<1>g. ASSUME NEW f \in LxFuncs, bpf(f)
      PROVE  LxTypeOK'
  <2>1. LxProgFd(lxProgs) \in LxHookFds
    BY <1>1 DEF LxHookFds
  <2>2. lxHooks' \in Seq(LxHookSet) /\ Len(lxHooks') \in Nat /\ Len(lxHooks') = Len(lxHooks) + 1
    BY <1>4, <1>7, <1>g, <2>1 DEF bpf
  <2>3. UNCHANGED <<lxFtrace, lxKprobes, lxTps, lxRings, lxHeld, lxLeft>> /\ lxProgs' = lxProgs + 1
    BY <1>g DEF bpf
  <2> QED  BY <1>1, <1>2, <1>3, <2>2, <2>3 DEF LxTypeOK
<1>h. CASE io_uring_setup
  <2>1. LxRingFd(lxRings) \in LxHookFds /\ LxSqRing(lxRings) \in LxHookVas
    BY <1>1 DEF LxHookFds, LxHookVas
  <2>2. lxHooks' \in Seq(LxHookSet) /\ Len(lxHooks') \in Nat /\ Len(lxHooks') = Len(lxHooks) + 1
    BY <1>4, <1>h, <2>1 DEF io_uring_setup
  <2>3. UNCHANGED <<lxFtrace, lxKprobes, lxTps, lxProgs, lxHeld, lxLeft>> /\ lxRings' = lxRings + 1
    BY <1>h DEF io_uring_setup, lxHookVars
  <2> QED  BY <1>1, <1>2, <1>3, <2>2, <2>3 DEF LxTypeOK
<1> QED  BY <1>a, <1>b, <1>c, <1>d, <1>e, <1>f, <1>g, <1>h, <1>i DEF LxHookStep

\* Every step, and none.
LEMMA LxTypeNext == LxTypeOK /\ [LxNext]_lxVars => LxTypeOK'
<1>1. ASSUME LxTypeOK, UNCHANGED lxVars
      PROVE  LxTypeOK'
  BY <1>1 DEF lxVars, lxHookVars, LxTypeOK
<1> QED  BY <1>1, LxDeviceTypes, LxHookTypes DEF LxNext

\* Registrations and removals keep every list in its type.
THEOREM LxTypeCorrect == LxSpec => []LxTypeOK
BY LxTypeInit, LxTypeNext, PTL DEF LxSpec

\* The lists and the ghost of what is held agree.
LxMirrors ==
  /\ \A x \in ToSet(lxFtrace) : <<"ftrace", x.ops, x.func>> \in LxStanding
  /\ \A o \in LxOps, f \in LxFuncs : <<"ftrace", o, f>> \in LxStanding =>
       \E h \in ToSet(lxHooks) : h.sub = "ftrace" /\ h.fops = o /\ h.va = f
  /\ \A h \in ToSet(lxHooks) : h.sub \in {"ftrace", "tracepoint"} =>
       h.fops = h.ops /\ <<h.sub, h.ops, h.va>> \in LxStanding
  /\ \A o \in LxOps, f \in LxFuncs : <<"kprobe", o, f>> \in LxStanding <=>
       \E k \in ToSet(lxKprobes) : k.kp = o /\ (k.pre = f \/ k.post = f)
  /\ \A o \in LxOps, f \in LxFuncs : <<"tracepoint", o, f>> \in LxStanding <=>
       \E t \in ToSet(lxTps) : t.tp = o /\ t.probe = f

LxInv == LxTypeOK /\ LxMirrors

\* Empty lists agree.
LEMMA LxInvInit == LxInit => LxInv
<1> SUFFICES ASSUME LxInit
             PROVE  LxInv
  OBVIOUS
<1>1. LxTypeOK
  BY LxTypeInit
<1>2. PICK e : e = <<>> /\ \A S : e \in Seq(S) /\ Len(e) = 0
  BY EmptySeq
<1>3. ToSet(e) = {}
  <2>a. e \in Seq({})
    BY <1>2
  <2>1. ToSet(e) = {e[i] : i \in 1..Len(e)}
    BY <2>a, Elements
  <2>2. 1..0 = {} /\ Len(e) = 0
    BY <1>2
  <2> QED  BY <2>1, <2>2
<1>4. /\ lxFtrace = e /\ lxHooks = e /\ lxKprobes = e /\ lxTps = e /\ LxStanding = {}
  BY <1>2 DEF LxInit, LxStanding
<1>5. LxMirrors
  BY <1>3, <1>4 DEF LxMirrors
<1> QED  BY <1>1, <1>5 DEF LxInv

\* What a removal leaves of the hooks.
LEMMA LxHooksLeft ==
  ASSUME LxTypeOK, NEW sub, NEW ops
  PROVE  ToSet(LxHooksWithout(sub, ops)) = {h \in ToSet(lxHooks) : h.sub # sub \/ h.ops # ops}
<1>1. lxHooks \in Seq(LxHookSet)
  BY DEF LxTypeOK
<1>2. PICK I : I = {i \in DOMAIN lxHooks : lxHooks[i].sub # sub \/ lxHooks[i].ops # ops}
  OBVIOUS
<1>3. ToSet(Kept(lxHooks, I)) = {lxHooks[i] : i \in I \cap (1..Len(lxHooks))}
  BY <1>1, ElementsKept
<1>4. ToSet(lxHooks) = {lxHooks[i] : i \in 1..Len(lxHooks)} /\ DOMAIN lxHooks = 1..Len(lxHooks)
  BY <1>1, Elements
<1>5. LxHooksWithout(sub, ops) = Kept(lxHooks, I)
  BY <1>2 DEF LxHooksWithout
<1>6. ToSet(Kept(lxHooks, I)) = {h \in ToSet(lxHooks) : h.sub # sub \/ h.ops # ops}
  BY <1>2, <1>3, <1>4
<1> QED  BY <1>5, <1>6

\* An ftrace hook that is listed stands.
LEMMA LxFtraceStands ==
  ASSUME LxMirrors, NEW x \in ToSet(lxFtrace)
  PROVE  <<"ftrace", x.ops, x.func>> \in LxStanding
BY DEF LxMirrors

\* A registration adds to both, a removal takes from both, and an address changes neither.
LEMMA LxMirrorsNext == LxInv /\ [LxNext]_lxVars => LxMirrors'
<1> SUFFICES ASSUME LxInv, [LxNext]_lxVars
             PROVE  LxMirrors'
  OBVIOUS
<1>1. /\ LxTypeOK /\ LxMirrors /\ lxHooks \in Seq(LxHookSet) /\ lxFtrace \in Seq(LxFtraceSet)
      /\ lxKprobes \in Seq(LxKprobeSet) /\ lxTps \in Seq(LxTpSet)
      /\ LxStanding \subseteq {"ftrace", "kprobe", "tracepoint"} \X LxOps \X LxFuncs
      /\ lxLeft \subseteq {"tracepoint"} \X LxOps \X LxFuncs
  BY DEF LxInv, LxTypeOK, LxStanding
<1>2. ASSUME UNCHANGED <<lxHooks, lxFtrace, lxKprobes, lxTps, LxStanding>>
      PROVE  LxMirrors'
  BY <1>1, <1>2 DEF LxMirrors
<1>3. ASSUME NEW sub, NEW ops \in LxOps \cup {"attr", "params"}, NEW va, NEW fops,
             LxHook(sub, ops, va, fops),
             [sub |-> sub, ops |-> ops, va |-> va, fops |-> fops] \in LxHookSet
      PROVE  ToSet(lxHooks') = ToSet(lxHooks)
                                 \cup {[sub |-> sub, ops |-> ops, va |-> va, fops |-> fops]}
  BY <1>1, <1>3, ElementsAppended DEF LxHook
<1>4. LxFuncs \subseteq LxHookVas /\ \A n \in 0..LxMaxCalls :
        LxProgFd(n) \in LxHookFds /\ LxRingFd(n) \in LxHookFds /\ LxSqRing(n) \in LxHookVas
  BY DEF LxHookVas, LxHookFds
<1>5. lxProgs \in 0..LxMaxCalls /\ lxRings \in 0..LxMaxCalls
  BY <1>1, LxAssumption DEF LxTypeOK
<1>a. ASSUME NEW o \in LxOps, NEW f \in LxFuncs, register_ftrace_function(o, f)
      PROVE  LxMirrors'
  <2>1. PICK h \in LxHookSet : h = [sub |-> "ftrace", ops |-> o, va |-> f, fops |-> o]
    BY <1>4 DEF LxHookSet
  <2>2. ToSet(lxHooks') = ToSet(lxHooks) \cup {h}
    BY <1>a, <1>3, <2>1 DEF register_ftrace_function
  <2>3. PICK x \in LxFtraceSet : x = [ops |-> o, func |-> f, addr |-> "0"]
    BY DEF LxFtraceSet
  <2>4. ToSet(lxFtrace') = ToSet(lxFtrace) \cup {x}
    BY <1>1, <1>a, <2>3, ElementsAppended DEF register_ftrace_function
  <2>5. UNCHANGED <<lxKprobes, lxTps>> /\ LxStanding' = LxStanding \cup {<<"ftrace", o, f>>}
    BY <1>a DEF register_ftrace_function, LxStanding
  <2>6. h.sub = "ftrace" /\ h.ops = o /\ h.va = f /\ h.fops = o /\ x.ops = o /\ x.func = f
    BY <2>1, <2>3
  <2> QED  BY <1>1, <2>2, <2>4, <2>5, <2>6 DEF LxMirrors
<1>b. ASSUME NEW o \in LxOps, NEW f \in LxFuncs, tracepoint_probe_register(o, f)
      PROVE  LxMirrors'
  <2>1. PICK h \in LxHookSet : h = [sub |-> "tracepoint", ops |-> o, va |-> f, fops |-> o]
    BY <1>4 DEF LxHookSet
  <2>2. ToSet(lxHooks') = ToSet(lxHooks) \cup {h}
    BY <1>b, <1>3, <2>1 DEF tracepoint_probe_register
  <2>3. PICK x \in LxTpSet : x = [tp |-> o, probe |-> f]
    BY DEF LxTpSet
  <2>4. ToSet(lxTps') = ToSet(lxTps) \cup {x}
    BY <1>1, <1>b, <2>3, ElementsAppended DEF tracepoint_probe_register
  <2>5. UNCHANGED <<lxKprobes, lxFtrace>> /\ LxStanding' = LxStanding \cup {<<"tracepoint", o, f>>}
    BY <1>b DEF tracepoint_probe_register, LxStanding
  <2>6. h.sub = "tracepoint" /\ h.ops = o /\ h.va = f /\ h.fops = o /\ x.tp = o /\ x.probe = f
    BY <2>1, <2>3
  <2> QED  BY <1>1, <2>2, <2>4, <2>5, <2>6 DEF LxMirrors
<1>c. ASSUME NEW o \in LxOps, NEW pre \in LxFuncs \cup {"0"}, NEW post \in LxFuncs \cup {"0"},
             register_kprobe(o, pre, post)
      PROVE  LxMirrors'
  <2>1. PICK x \in LxKprobeSet : x = [kp |-> o, pre |-> pre, post |-> post]
    BY DEF LxKprobeSet
  <2>2. ToSet(lxKprobes') = ToSet(lxKprobes) \cup {x}
    BY <1>1, <1>c, <2>1, ElementsAppended DEF register_kprobe
  <2>3. /\ UNCHANGED <<lxHooks, lxTps, lxFtrace>>
        /\ LxStanding' = LxStanding \cup ({<<"kprobe", o, pre>>, <<"kprobe", o, post>>}
                                    \ {<<"kprobe", o, "0">>})
    BY <1>c DEF register_kprobe, LxStanding
  <2>4. x.kp = o /\ x.pre = pre /\ x.post = post /\ "0" \notin LxFuncs
    BY <2>1, LxAssumption
  <2>5. ASSUME NEW p \in LxOps, NEW f \in LxFuncs
        PROVE  <<"kprobe", p, f>> \in LxStanding' <=>
                 \E k \in ToSet(lxKprobes') : k.kp = p /\ (k.pre = f \/ k.post = f)
    <3>1. <<"kprobe", p, f>> \in LxStanding <=>
            \E k \in ToSet(lxKprobes) : k.kp = p /\ (k.pre = f \/ k.post = f)
      BY <1>1 DEF LxMirrors
    <3>2. <<"kprobe", p, f>> \in LxStanding' <=>
            \/ <<"kprobe", p, f>> \in LxStanding
            \/ p = o /\ (pre = f \/ post = f)
      <4>1. f # "0"
        BY <2>4
      <4> QED  BY <2>3, <4>1
    <3> QED  BY <2>2, <2>4, <3>1, <3>2
  <2>6. \A s : s # "kprobe" => \A p, f : <<s, p, f>> \in LxStanding' <=> <<s, p, f>> \in LxStanding
    BY <2>3
  <2>7. \A p \in LxOps, f \in LxFuncs : <<"ftrace", p, f>> \in LxStanding' =>
          <<"ftrace", p, f>> \in LxStanding
    BY <2>6
  <2>8. \A p \in LxOps, f \in LxFuncs : <<"tracepoint", p, f>> \in LxStanding' <=>
          <<"tracepoint", p, f>> \in LxStanding
    BY <2>6
  <2>9. LxStanding \subseteq LxStanding'
    BY <2>3
  <2> QED  BY <1>1, <2>3, <2>5, <2>7, <2>8, <2>9 DEF LxMirrors
<1>d. ASSUME NEW o \in LxOps, unregister_ftrace_function(o)
      PROVE  LxMirrors'
  <2>1. ToSet(lxHooks') = {h \in ToSet(lxHooks) : h.sub # "ftrace" \/ h.ops # o}
    BY <1>1, <1>d, LxHooksLeft DEF unregister_ftrace_function
  <2>2. ToSet(lxFtrace') = {x \in ToSet(lxFtrace) : x.ops # o}
    <3>1. PICK I : I = {i \in DOMAIN lxFtrace : lxFtrace[i].ops # o}
      OBVIOUS
    <3>2. ToSet(Kept(lxFtrace, I)) = {lxFtrace[i] : i \in I \cap (1..Len(lxFtrace))}
      BY <1>1, ElementsKept
    <3>3. /\ ToSet(lxFtrace) = {lxFtrace[i] : i \in 1..Len(lxFtrace)}
          /\ DOMAIN lxFtrace = 1..Len(lxFtrace)
      BY <1>1, Elements
    <3>4. lxFtrace' = Kept(lxFtrace, I)
      BY <1>d, <3>1 DEF unregister_ftrace_function, LxFtraceWithout
    <3> QED  BY <3>1, <3>2, <3>3, <3>4
  <2>3. UNCHANGED <<lxKprobes, lxTps>> /\ LxStanding' = {h \in LxStanding : h[1] # "ftrace" \/ h[2] # o}
    <3>1. \A h \in lxLeft : h[1] # "ftrace"
      BY <1>1
    <3>2. /\ UNCHANGED <<lxKprobes, lxTps, lxLeft>>
          /\ lxHeld' = {h \in lxHeld : h[1] # "ftrace" \/ h[2] # o}
      BY <1>d DEF unregister_ftrace_function, LxReleased
    <3> QED  BY <3>1, <3>2 DEF LxStanding
  <2>4. \A s, p, f : <<s, p, f>> \in LxStanding' <=> <<s, p, f>> \in LxStanding /\ (s # "ftrace" \/ p # o)
    BY <2>3
  <2>5. ASSUME NEW x \in ToSet(lxFtrace')
        PROVE  <<"ftrace", x.ops, x.func>> \in LxStanding'
    <3>1. x \in ToSet(lxFtrace) /\ x.ops # o
      BY <2>2
    <3>2. <<"ftrace", x.ops, x.func>> \in LxStanding
      BY <1>1, <3>1, LxFtraceStands
    <3> QED  BY <2>4, <3>1, <3>2
  <2>6. \A p \in LxOps, f \in LxFuncs : <<"ftrace", p, f>> \in LxStanding' =>
          \E h \in ToSet(lxHooks') : h.sub = "ftrace" /\ h.fops = p /\ h.va = f
    <3> SUFFICES ASSUME NEW p \in LxOps, NEW f \in LxFuncs, <<"ftrace", p, f>> \in LxStanding'
                 PROVE  \E h \in ToSet(lxHooks') : h.sub = "ftrace" /\ h.fops = p /\ h.va = f
      OBVIOUS
    <3>1. <<"ftrace", p, f>> \in LxStanding /\ p # o
      BY <2>4
    <3>2. PICK h \in ToSet(lxHooks) : h.sub = "ftrace" /\ h.fops = p /\ h.va = f
      BY <1>1, <3>1 DEF LxMirrors
    <3>3. h.ops = p
      BY <1>1, <3>2 DEF LxMirrors
    <3> QED  BY <2>1, <3>1, <3>2, <3>3
  <2>7. \A h \in ToSet(lxHooks') : h.sub \in {"ftrace", "tracepoint"} =>
          h.fops = h.ops /\ <<h.sub, h.ops, h.va>> \in LxStanding'
    BY <1>1, <2>1, <2>4 DEF LxMirrors
  <2>8. /\ \A p \in LxOps, f \in LxFuncs : <<"kprobe", p, f>> \in LxStanding' <=>
             <<"kprobe", p, f>> \in LxStanding
        /\ \A p \in LxOps, f \in LxFuncs : <<"tracepoint", p, f>> \in LxStanding' <=>
             <<"tracepoint", p, f>> \in LxStanding
    BY <2>4
  <2> QED  BY <1>1, <2>3, <2>5, <2>6, <2>7, <2>8 DEF LxMirrors
<1>e. ASSUME NEW o \in LxOps, unregister_kprobe(o)
      PROVE  LxMirrors'
  <2>1. ToSet(lxHooks') = {h \in ToSet(lxHooks) : h.sub # "kprobe" \/ h.ops # o}
    BY <1>1, <1>e, LxHooksLeft DEF unregister_kprobe
  <2>2. ToSet(lxKprobes') = {x \in ToSet(lxKprobes) : x.kp # o}
    <3>1. PICK I : I = {i \in DOMAIN lxKprobes : lxKprobes[i].kp # o}
      OBVIOUS
    <3>2. ToSet(Kept(lxKprobes, I)) = {lxKprobes[i] : i \in I \cap (1..Len(lxKprobes))}
      BY <1>1, ElementsKept
    <3>3. /\ ToSet(lxKprobes) = {lxKprobes[i] : i \in 1..Len(lxKprobes)}
          /\ DOMAIN lxKprobes = 1..Len(lxKprobes)
      BY <1>1, Elements
    <3>4. lxKprobes' = Kept(lxKprobes, I)
      BY <1>e, <3>1 DEF unregister_kprobe
    <3> QED  BY <3>1, <3>2, <3>3, <3>4
  <2>3. UNCHANGED <<lxFtrace, lxTps>> /\ LxStanding' = {h \in LxStanding : h[1] # "kprobe" \/ h[2] # o}
    <3>1. \A h \in lxLeft : h[1] # "kprobe"
      BY <1>1
    <3>2. /\ UNCHANGED <<lxFtrace, lxTps, lxLeft>>
          /\ lxHeld' = {h \in lxHeld : h[1] # "kprobe" \/ h[2] # o}
      BY <1>e DEF unregister_kprobe, LxReleased
    <3> QED  BY <3>1, <3>2 DEF LxStanding
  <2> QED  BY <1>1, <2>1, <2>2, <2>3, SMTT(30) DEF LxMirrors
<1>f. ASSUME NEW o \in LxOps, ftrace_set_filter_ip(o, "ip")
      PROVE  LxMirrors'
  <2>1. UNCHANGED <<lxHooks, lxKprobes, lxTps, LxStanding>>
    BY <1>f DEF ftrace_set_filter_ip, LxStanding
  <2>2. /\ ToSet(lxFtrace) = {lxFtrace[i] : i \in DOMAIN lxFtrace}
        /\ \A i \in DOMAIN lxFtrace : lxFtrace[i] \in LxFtraceSet
    BY <1>1, Elements
  <2>3. PICK I : lxFtrace' = [i \in DOMAIN lxFtrace |->
                   IF i \in I THEN [lxFtrace[i] EXCEPT !.addr = "ip"] ELSE lxFtrace[i]]
    <3>1. PICK m : m = {i \in DOMAIN lxFtrace : lxFtrace[i].ops = o}
      OBVIOUS
    <3>2. lxFtrace' = [i \in DOMAIN lxFtrace |->
                   IF i \in {j \in m : \A k \in m : j <= k}
                   THEN [lxFtrace[i] EXCEPT !.addr = "ip"] ELSE lxFtrace[i]]
      BY <1>f, <3>1 DEF ftrace_set_filter_ip
    <3> QED  BY <3>2
  <2>4. \A h \in LxFtraceSet : /\ [h EXCEPT !.addr = "ip"].ops = h.ops
                               /\ [h EXCEPT !.addr = "ip"].func = h.func
    BY DEF LxFtraceSet
  <2>5. /\ DOMAIN lxFtrace' = DOMAIN lxFtrace
        /\ \A i \in DOMAIN lxFtrace : /\ lxFtrace'[i].ops = lxFtrace[i].ops
                                      /\ lxFtrace'[i].func = lxFtrace[i].func
    BY <2>2, <2>3, <2>4
  <2>6. ToSet(lxFtrace') = {lxFtrace'[i] : i \in DOMAIN lxFtrace}
    BY <2>5 DEF ToSet
  <2>7. ASSUME NEW x \in ToSet(lxFtrace')
        PROVE  <<"ftrace", x.ops, x.func>> \in LxStanding
    <3>1. PICK i \in DOMAIN lxFtrace : x = lxFtrace'[i]
      BY <2>6, <2>7
    <3>2. lxFtrace[i] \in ToSet(lxFtrace)
      BY <3>1 DEF ToSet
    <3>3. x.ops = lxFtrace[i].ops /\ x.func = lxFtrace[i].func
      BY <2>5, <3>1
    <3>4. <<"ftrace", lxFtrace[i].ops, lxFtrace[i].func>> \in LxStanding
      BY <1>1, <3>2, LxFtraceStands
    <3> QED  BY <3>3, <3>4
  <2> QED  BY <1>1, <2>1, <2>7 DEF LxMirrors
<1>g. ASSUME NEW f \in LxFuncs, bpf(f)
      PROVE  LxMirrors'
  <2>1. PICK h \in LxHookSet : h = [sub |-> "ebpf", ops |-> "attr", va |-> f, fops |-> LxProgFd(lxProgs)]
    BY <1>4, <1>5 DEF LxHookSet
  <2>2. ToSet(lxHooks') = ToSet(lxHooks) \cup {h}
    BY <1>g, <1>3, <2>1 DEF bpf
  <2>3. UNCHANGED <<lxFtrace, lxKprobes, lxTps, LxStanding>> /\ h.sub = "ebpf"
    BY <1>g, <2>1 DEF bpf, LxStanding
  <2> QED  BY <1>1, <2>2, <2>3 DEF LxMirrors
<1>h. CASE io_uring_setup
  <2>1. PICK h \in LxHookSet : h = [sub |-> "io_uring", ops |-> "params", va |-> LxSqRing(lxRings),
                                    fops |-> LxRingFd(lxRings)]
    BY <1>4, <1>5 DEF LxHookSet
  <2>2. ToSet(lxHooks') = ToSet(lxHooks) \cup {h}
    BY <1>h, <1>3, <2>1 DEF io_uring_setup
  <2>3. UNCHANGED <<lxFtrace, lxKprobes, lxTps, LxStanding>> /\ h.sub = "io_uring"
    BY <1>h, <2>1 DEF io_uring_setup, LxStanding
  <2> QED  BY <1>1, <2>2, <2>3 DEF LxMirrors
<1>k. ASSUME NEW o \in LxOps, NEW f \in LxFuncs, tracepoint_probe_unregister(o, f)
      PROVE  LxMirrors'
  <2>1. UNCHANGED <<lxHooks, lxFtrace, lxKprobes, lxTps>>
    BY <1>k DEF tracepoint_probe_unregister
  <2>2. LxStanding' = LxStanding
    BY <1>k DEF tracepoint_probe_unregister, LxStanding
  <2> QED  BY <1>2, <2>1, <2>2
<1>i. CASE LxDeviceStep
  BY <1>2, <1>i DEF LxStanding, LxDeviceStep, misc_register, misc_deregister, proc_create,
     netlink_kernel_create, register_chrdev, unregister_chrdev, alloc_chrdev_region, lxHookVars
<1>j. CASE UNCHANGED lxVars
  BY <1>2, <1>j DEF lxVars, lxHookVars, LxStanding
<1> QED  BY <1>a, <1>b, <1>c, <1>d, <1>e, <1>f, <1>g, <1>h, <1>i, <1>j, <1>k DEF LxNext, LxHookStep

\* The two together are inductive.
LEMMA LxInvNext == LxInv /\ [LxNext]_lxVars => LxInv'
BY LxTypeNext, LxMirrorsNext DEF LxInv

LxVas == LxHookVas \cup {"0"} \cup {LxProgFd(n) : n \in 0..LxMaxCalls}
           \cup UNION {{LxTable[f][op] : op \in Range(LxRawOps)} : f \in LxFops}
LxOpNames == Range(LxRawOps)
               \cup {"ftrace", "tracepoint", "ebpf", "io_uring", "kprobe_pre", "kprobe_post"}
LxEntries == [sub : {"file", "ftrace", "kprobe", "tracepoint", "ebpf", "io_uring"},
              op : LxOpNames, va : LxVas, fops : LxFops \cup {"0"} \cup LxOps \cup LxHookFds]

\* An entry that tells what is registered: a handler of a structure, or a hook that stands.
LxTrue(x) ==
  \/ /\ x.sub = "file" /\ x.fops \in LxFops /\ x.fops # "0" /\ x.op \in Range(LxRawOps)
     /\ x.va = LxTable[x.fops][x.op]
  \/ /\ x.sub \in {"ftrace", "kprobe", "tracepoint"} /\ <<x.sub, x.fops, x.va>> \in LxStanding
     /\ x.op \in {"ftrace", "kprobe_pre", "kprobe_post", "tracepoint"}
  \/ x.sub \in {"ebpf", "io_uring"}

\* The fields of an entry, and when it is one of LxEntries.
LEMMA LxEntryIs ==
  ASSUME NEW sub, NEW op, NEW va, NEW fops
  PROVE  /\ LxEntry(sub, op, va, fops).sub = sub /\ LxEntry(sub, op, va, fops).op = op
         /\ LxEntry(sub, op, va, fops).va = va /\ LxEntry(sub, op, va, fops).fops = fops
         /\ (/\ sub \in {"file", "ftrace", "kprobe", "tracepoint", "ebpf", "io_uring"}
             /\ op \in LxOpNames /\ va \in LxVas
             /\ fops \in LxFops \cup {"0"} \cup LxOps \cup LxHookFds)
            => LxEntry(sub, op, va, fops) \in LxEntries
BY DEF LxEntry, LxEntries

\* The first of the entries that are the same.
LEMMA LxFirst ==
  ASSUME NEW S, NEW s \in Seq(S), NEW i \in 1..Len(s)
  PROVE  \E k \in 1..Len(s) : k <= i /\ LxSame(s[k], s[i]) /\ LxNew(s, k)
<1>1. Len(s) \in Nat
  BY LenProperties
<1>2. PICK I : I = {k \in 1..i : LxSame(s[k], s[i])}
  OBVIOUS
<1>3. i \in I /\ I \subseteq Nat
  BY <1>1, <1>2 DEF LxSame
<1>4. PICK k \in I : \A j \in I : k <= j
  BY <1>3, LeastNumber
<1>5. k \in 1..i /\ k \in 1..Len(s) /\ k <= i /\ LxSame(s[k], s[i])
  BY <1>1, <1>2
<1>6. ASSUME NEW j \in 1..(k - 1), LxSame(s[j], s[k])
      PROVE  FALSE
  <2>1. j \in 1..i /\ ~(k <= j)
    BY <1>5, <1>1
  <2>2. LxSame(s[j], s[i])
    BY <1>5, <1>6 DEF LxSame
  <2> QED  BY <1>2, <1>4, <2>1, <2>2
<1> QED  BY <1>5, <1>6 DEF LxNew

\* The seven operations that are harvested.
LEMMA LxRaw ==
  /\ Len(LxRawOps) = 7 /\ Range(LxRawOps) = {LxRawOps[k] : k \in 1..7}
  /\ Range(LxRawOps) = {"read", "write", "unlocked_ioctl", "compat_ioctl", "mmap", "open", "release"}
<1>1. DOMAIN LxRawOps = 1..7 /\ Len(LxRawOps) = 7
  BY DEF LxRawOps
<1>2. \A k : k \in 1..7 <=> k = 1 \/ k = 2 \/ k = 3 \/ k = 4 \/ k = 5 \/ k = 6 \/ k = 7
  OBVIOUS
<1>3. /\ LxRawOps[1] = "read" /\ LxRawOps[2] = "write" /\ LxRawOps[3] = "unlocked_ioctl"
      /\ LxRawOps[4] = "compat_ioctl" /\ LxRawOps[5] = "mmap" /\ LxRawOps[6] = "open"
      /\ LxRawOps[7] = "release"
  BY DEF LxRawOps
<1>4. Range(LxRawOps) = {LxRawOps[k] : k \in 1..7}
  BY <1>1 DEF Range
<1>5. Range(LxRawOps)
        = {"read", "write", "unlocked_ioctl", "compat_ioctl", "mmap", "open", "release"}
  BY <1>2, <1>3, <1>4
<1> QED  BY <1>1, <1>4, <1>5

\* The handlers of the devices, and no others.
LEMMA LxFilesTrue ==
  ASSUME LxInv
  PROVE  /\ LxFileEntries \in Seq(LxEntries)
         /\ \A x \in ToSet(LxFileEntries) : LxTrue(x)
         /\ \A d \in DOMAIN lxDevs, op \in Range(LxRawOps) :
              lxDevs[d].fops # "0" /\ LxTable[lxDevs[d].fops][op] # "0" =>
                \E x \in ToSet(LxFileEntries) : /\ x.fops = lxDevs[d].fops
                                                /\ x.va = LxTable[lxDevs[d].fops][op]
<1>1. PICK n \in Nat : n = Len(lxDevs) /\ DOMAIN lxDevs = 1..n
  BY LenProperties DEF LxInv, LxTypeOK
<1>2. \A d \in 1..n : lxDevs[d].fops \in LxFops \cup {"0"}
  <2>1. \A d \in 1..n : lxDevs[d] \in LxDevSet
    BY <1>1, ElementOfSeq DEF LxInv, LxTypeOK
  <2> QED  BY <2>1 DEF LxDevSet
<1> DEFINE dev(i) == lxDevs[(i - 1) \div 7 + 1].fops
           op(i) == LxRawOps[((i - 1) % 7) + 1]
           entry(i) == LxEntry("file", op(i), IF dev(i) = "0" THEN "0" ELSE LxTable[dev(i)][op(i)],
                               dev(i))
<1>3. PICK slots : slots = [i \in 1..7 * n |-> entry(i)]
  OBVIOUS
<1>4. LxFileEntries = Kept(slots, {i \in DOMAIN slots : slots[i].va # "0"})
  BY <1>1, <1>3, LxRaw DEF LxFileEntries
<1>5. \A i \in 1..7 * n : (i - 1) \div 7 + 1 \in 1..n /\ ((i - 1) % 7) + 1 \in 1..7
  OBVIOUS
<1>6. \A i \in 1..7 * n : /\ dev(i) \in LxFops \cup {"0"} /\ op(i) \in Range(LxRawOps)
  BY <1>2, <1>5, LxRaw
<1>7. ASSUME NEW i \in 1..7 * n
      PROVE  /\ entry(i) \in LxEntries /\ entry(i).sub = "file"
             /\ entry(i).op = op(i) /\ entry(i).fops = dev(i)
             /\ entry(i).va = IF dev(i) = "0" THEN "0" ELSE LxTable[dev(i)][op(i)]
  <2>1. PICK o \in Range(LxRawOps), f \in LxFops \cup {"0"} : o = op(i) /\ f = dev(i)
    BY <1>6
  <2>2. PICK va : va = IF f = "0" THEN "0" ELSE LxTable[f][o]
    OBVIOUS
  <2>3. va \in LxVas /\ o \in LxOpNames
    BY <2>2 DEF LxVas, LxOpNames
  <2>4. entry(i) = LxEntry("file", o, va, f)
    BY <2>1, <2>2
  <2> HIDE DEF entry, op, dev
  <2> QED  BY <2>1, <2>2, <2>3, <2>4, LxEntryIs
<1> HIDE DEF entry
<1>8. slots \in Seq(LxEntries) /\ Len(slots) = 7 * n /\ DOMAIN slots = 1..7 * n
  <2>1. slots \in [1..7 * n -> LxEntries] /\ 7 * n \in Nat
    BY <1>3, <1>7
  <2> QED  BY <2>1
<1>9. PICK I : I = {i \in DOMAIN slots : slots[i].va # "0"}
  OBVIOUS
<1>10. LxFileEntries \in Seq(LxEntries)
       /\ ToSet(LxFileEntries) = {slots[i] : i \in I \cap (1..Len(slots))}
  BY <1>4, <1>8, <1>9, KeptProperties, ElementsKept
<1>11. ToSet(LxFileEntries) = {slots[i] : i \in I} /\ I \subseteq 1..7 * n
  BY <1>8, <1>9, <1>10
<1>12. ASSUME NEW x \in ToSet(LxFileEntries)
       PROVE  LxTrue(x)
  <2>1. PICK i \in 1..7 * n : x = entry(i) /\ x.va # "0"
    BY <1>3, <1>9, <1>11
  <2>2. dev(i) # "0"
    BY <1>7, <2>1
  <2>3. /\ x.sub = "file" /\ x.fops \in LxFops /\ x.fops # "0" /\ x.op \in Range(LxRawOps)
        /\ x.va = LxTable[x.fops][x.op]
    <3>1. PICK o, f : o = op(i) /\ f = dev(i)
      OBVIOUS
    <3> HIDE DEF op, dev
    <3> QED  BY <1>6, <1>7, <2>1, <2>2, <3>1
  <2> QED  BY <2>3 DEF LxTrue
<1>13. ASSUME NEW d \in DOMAIN lxDevs, NEW o \in Range(LxRawOps),
              lxDevs[d].fops # "0", LxTable[lxDevs[d].fops][o] # "0"
       PROVE  \E x \in ToSet(LxFileEntries) : /\ x.fops = lxDevs[d].fops
                                              /\ x.va = LxTable[lxDevs[d].fops][o]
  <2>1. PICK k \in 1..7 : o = LxRawOps[k]
    BY LxRaw
  <2>2. PICK i \in 1..7 * n : (i - 1) \div 7 + 1 = d /\ ((i - 1) % 7) + 1 = k
    <3>1. d \in 1..n
      BY <1>1
    <3>2. 7 * (d - 1) + k \in 1..7 * n
      BY <3>1
    <3>3. ((7 * (d - 1) + k) - 1) \div 7 + 1 = d /\ (((7 * (d - 1) + k) - 1) % 7) + 1 = k
      BY <3>1
    <3> QED  BY <3>2, <3>3
  <2>3. dev(i) = lxDevs[d].fops /\ op(i) = o
    BY <2>1, <2>2
  <2>4. entry(i).fops = lxDevs[d].fops /\ entry(i).va = LxTable[lxDevs[d].fops][o]
    <3> HIDE DEF op, dev
    <3> QED  BY <1>7, <1>13, <2>3
  <2>5. slots[i] = entry(i) /\ i \in I
    BY <1>3, <1>8, <1>9, <1>13, <2>4
  <2> QED  BY <1>11, <2>4, <2>5
<1> QED  BY <1>10, <1>12, <1>13

\* An entry of each hook is added to the handlers.
LEMMA LxHooksTrue ==
  ASSUME LxInv
  PROVE  /\ getHarvestedOps \in Seq(LxEntries)
         /\ \A x \in ToSet(getHarvestedOps) : LxTrue(x)
         /\ ToSet(LxFileEntries) \subseteq ToSet(getHarvestedOps)
         /\ \A o \in LxOps, f \in LxFuncs : <<"ftrace", o, f>> \in LxStanding =>
              \E x \in ToSet(getHarvestedOps) : x.sub = "ftrace" /\ x.fops = o /\ x.va = f
<1>1. PICK files \in Seq(LxEntries) : files = LxFileEntries
  BY LxFilesTrue
<1>2. /\ lxHooks \in Seq(LxHookSet) /\ DOMAIN lxHooks = 1..Len(lxHooks) /\ Len(lxHooks) \in Nat
      /\ \A i \in DOMAIN lxHooks : lxHooks[i] \in LxHookSet
      /\ ToSet(lxHooks) = {lxHooks[i] : i \in DOMAIN lxHooks}
  BY Elements DEF LxInv, LxTypeOK
<1> DEFINE entry(h) == LxEntry(h.sub, h.sub, h.va, h.fops)
<1>3. PICK hooks : hooks = [i \in DOMAIN lxHooks |-> entry(lxHooks[i])]
  OBVIOUS
<1>4. ASSUME NEW h \in LxHookSet
      PROVE  /\ entry(h) \in LxEntries /\ entry(h).sub = h.sub /\ entry(h).op = h.sub
             /\ entry(h).fops = h.fops /\ entry(h).va = h.va
  <2>1. /\ h.sub \in {"ftrace", "tracepoint", "ebpf", "io_uring"} /\ h.sub \in LxOpNames
        /\ h.va \in LxVas /\ h.fops \in LxFops \cup {"0"} \cup LxOps \cup LxHookFds
    BY DEF LxHookSet, LxOpNames, LxVas
  <2> QED  BY <2>1, LxEntryIs
<1> HIDE DEF entry
<1>5. hooks \in Seq(LxEntries) /\ ToSet(hooks) = {entry(lxHooks[i]) : i \in DOMAIN lxHooks}
  <2>1. hooks \in [1..Len(lxHooks) -> LxEntries]
    BY <1>2, <1>3, <1>4
  <2> QED  BY <1>2, <1>3, <2>1 DEF ToSet
<1>6. ASSUME NEW x \in ToSet(hooks)
      PROVE  LxTrue(x)
  <2>1. PICK h \in LxHookSet : h \in ToSet(lxHooks) /\ x = entry(h)
    BY <1>2, <1>5
  <2>2. x.sub = h.sub /\ x.op = h.sub /\ x.fops = h.fops /\ x.va = h.va
    BY <1>4, <2>1
  <2>3. h.sub \in {"ftrace", "tracepoint", "ebpf", "io_uring"}
    BY DEF LxHookSet
  <2>4. h.sub \in {"ftrace", "tracepoint"} => h.fops = h.ops /\ <<h.sub, h.ops, h.va>> \in LxStanding
    BY <2>1 DEF LxInv, LxMirrors
  <2> QED  BY <2>2, <2>3, <2>4 DEF LxTrue
<1>7. PICK all : all = files \o hooks
  OBVIOUS
<1>8. /\ all \in Seq(LxEntries) /\ ToSet(all) = ToSet(files) \cup ToSet(hooks)
      /\ Len(files) \in Nat /\ \A i \in 1..Len(files) : i \in 1..Len(all) /\ all[i] = files[i]
  BY <1>5, <1>7, ElementsJoined
<1>9. PICK I : I = {i \in DOMAIN all : i <= Len(files) \/ (all[i].va # "0" /\ LxNew(all, i))}
  OBVIOUS
<1>10. getHarvestedOps = Kept(all, I)
  BY <1>1, <1>3, <1>7, <1>9 DEF getHarvestedOps, entry
<1>11. /\ DOMAIN all = 1..Len(all) /\ ToSet(all) = {all[i] : i \in 1..Len(all)} /\ Len(all) \in Nat
  BY <1>8, Elements
<1>12. /\ getHarvestedOps \in Seq(LxEntries)
       /\ ToSet(getHarvestedOps) = {all[i] : i \in I \cap (1..Len(all))}
  BY <1>8, <1>10, KeptProperties, ElementsKept
<1>13. ToSet(getHarvestedOps) \subseteq ToSet(all)
  BY <1>11, <1>12
<1>14. ASSUME NEW x \in ToSet(getHarvestedOps)
       PROVE  LxTrue(x)
  BY <1>1, <1>6, <1>8, <1>13, LxFilesTrue
<1>15. ToSet(LxFileEntries) \subseteq ToSet(getHarvestedOps)
  <2>1. ToSet(files) = {files[i] : i \in 1..Len(files)}
    BY Elements
  <2>2. \A i \in 1..Len(files) : i \in I \cap (1..Len(all)) /\ all[i] = files[i]
    BY <1>8, <1>9, <1>11
  <2> QED  BY <1>1, <1>12, <2>1, <2>2
<1>16. ASSUME NEW o \in LxOps, NEW f \in LxFuncs, <<"ftrace", o, f>> \in LxStanding
       PROVE  \E x \in ToSet(getHarvestedOps) : x.sub = "ftrace" /\ x.fops = o /\ x.va = f
  <2>1. PICK h \in ToSet(lxHooks) : h.sub = "ftrace" /\ h.fops = o /\ h.va = f
    BY <1>16 DEF LxInv, LxMirrors
  <2>2. h \in LxHookSet /\ entry(h) \in ToSet(hooks)
    BY <1>2, <1>5
  <2>3. PICK i \in 1..Len(all) : all[i] = entry(h)
    BY <1>8, <1>11, <2>2
  <2>4. all[i].sub = "ftrace" /\ all[i].fops = o /\ all[i].va = f
    BY <1>4, <2>1, <2>2, <2>3
  <2>5. PICK k \in 1..Len(all) : LxSame(all[k], all[i]) /\ LxNew(all, k)
    BY <1>8, LxFirst
  <2>6. all[k].sub = "ftrace" /\ all[k].fops = o /\ all[k].va = f /\ f # "0"
    BY <2>4, <2>5, LxAssumption DEF LxSame
  <2>7. k \in I
    BY <1>9, <1>11, <2>5, <2>6
  <2> QED  BY <1>12, <2>6, <2>7
<1> QED  BY <1>12, <1>14, <1>15, <1>16

\* The ftrace hooks that are added stand, and no entry is lost.
LEMMA LxFtraceTrue ==
  ASSUME LxInv
  PROVE  /\ LxWithFtrace \in Seq(LxEntries)
         /\ \A x \in ToSet(LxWithFtrace) : LxTrue(x)
         /\ ToSet(getHarvestedOps) \subseteq ToSet(LxWithFtrace)
<1>1. PICK base \in Seq(LxEntries) : base = getHarvestedOps
  BY LxHooksTrue
<1>2. /\ lxFtrace \in Seq(LxFtraceSet) /\ DOMAIN lxFtrace = 1..Len(lxFtrace)
      /\ Len(lxFtrace) \in Nat /\ \A i \in DOMAIN lxFtrace : lxFtrace[i] \in LxFtraceSet
      /\ ToSet(lxFtrace) = {lxFtrace[i] : i \in DOMAIN lxFtrace}
  BY Elements DEF LxInv, LxTypeOK
<1> DEFINE entry(h) == LxEntry("ftrace", "ftrace", h.func, h.ops)
<1>3. PICK hooks : hooks = [i \in DOMAIN lxFtrace |-> entry(lxFtrace[i])]
  OBVIOUS
<1>4. ASSUME NEW h \in LxFtraceSet
      PROVE  /\ entry(h) \in LxEntries /\ entry(h).sub = "ftrace" /\ entry(h).op = "ftrace"
             /\ entry(h).fops = h.ops /\ entry(h).va = h.func
  <2>1. /\ "ftrace" \in LxOpNames /\ h.func \in LxVas
        /\ h.ops \in LxFops \cup {"0"} \cup LxOps \cup LxHookFds
    BY DEF LxFtraceSet, LxOpNames, LxVas, LxHookVas
  <2> QED  BY <2>1, LxEntryIs
<1> HIDE DEF entry
<1>5. hooks \in Seq(LxEntries) /\ ToSet(hooks) = {entry(lxFtrace[i]) : i \in DOMAIN lxFtrace}
  <2>1. hooks \in [1..Len(lxFtrace) -> LxEntries]
    BY <1>2, <1>3, <1>4
  <2> QED  BY <1>2, <1>3, <2>1 DEF ToSet
<1>6. ASSUME NEW x \in ToSet(hooks)
      PROVE  LxTrue(x)
  <2>1. PICK h \in LxFtraceSet : h \in ToSet(lxFtrace) /\ x = entry(h)
    BY <1>2, <1>5
  <2>2. <<"ftrace", h.ops, h.func>> \in LxStanding
    BY <2>1 DEF LxInv, LxMirrors
  <2> QED  BY <1>4, <2>1, <2>2 DEF LxTrue
<1>7. PICK all : all = base \o hooks
  OBVIOUS
<1>8. /\ all \in Seq(LxEntries) /\ ToSet(all) = ToSet(base) \cup ToSet(hooks)
      /\ Len(base) \in Nat /\ \A i \in 1..Len(base) : i \in 1..Len(all) /\ all[i] = base[i]
  BY <1>5, <1>7, ElementsJoined
<1>9. PICK I : I = {i \in DOMAIN all : \/ i <= Len(base)
                                       \/ \A j \in 1..(i - 1) : all[j].va # all[i].va}
  OBVIOUS
<1>10. LxWithFtrace = Kept(all, I)
  BY <1>1, <1>3, <1>7, <1>9 DEF LxWithFtrace, entry
<1>11. /\ DOMAIN all = 1..Len(all) /\ ToSet(all) = {all[i] : i \in 1..Len(all)}
  BY <1>8, Elements
<1>12. /\ LxWithFtrace \in Seq(LxEntries)
       /\ ToSet(LxWithFtrace) = {all[i] : i \in I \cap (1..Len(all))}
  BY <1>8, <1>10, KeptProperties, ElementsKept
<1>13. ToSet(LxWithFtrace) \subseteq ToSet(all)
  BY <1>11, <1>12
<1>14. ASSUME NEW x \in ToSet(LxWithFtrace)
       PROVE  LxTrue(x)
  BY <1>1, <1>6, <1>8, <1>13, LxHooksTrue
<1>15. ToSet(getHarvestedOps) \subseteq ToSet(LxWithFtrace)
  <2>1. ToSet(base) = {base[i] : i \in 1..Len(base)}
    BY Elements
  <2>2. \A i \in 1..Len(base) : i \in I \cap (1..Len(all)) /\ all[i] = base[i]
    BY <1>8, <1>9, <1>11
  <2> QED  BY <1>1, <1>12, <2>1, <2>2
<1> QED  BY <1>12, <1>14, <1>15

\* The handlers of the kprobes, and no others.
LEMMA LxKprobesTrue ==
  ASSUME LxInv
  PROVE  /\ LxKprobeEntries \in Seq(LxEntries)
         /\ \A x \in ToSet(LxKprobeEntries) : LxTrue(x)
         /\ \A o \in LxOps, f \in LxFuncs : <<"kprobe", o, f>> \in LxStanding =>
              \E x \in ToSet(LxKprobeEntries) : x.sub = "kprobe" /\ x.fops = o /\ x.va = f
<1>1. PICK n \in Nat : n = Len(lxKprobes) /\ DOMAIN lxKprobes = 1..n
  BY LenProperties DEF LxInv, LxTypeOK
<1>2. /\ \A d \in 1..n : lxKprobes[d] \in LxKprobeSet
      /\ ToSet(lxKprobes) = {lxKprobes[d] : d \in 1..n}
  <2>1. lxKprobes \in Seq(LxKprobeSet)
    BY DEF LxInv, LxTypeOK
  <2> QED  BY <1>1, <2>1, Elements
<1> DEFINE probe(i) == lxKprobes[(i - 1) \div 2 + 1]
           pre(k) == LxEntry("kprobe", "kprobe_pre", k.pre, k.kp)
           post(k) == LxEntry("kprobe", "kprobe_post", k.post, k.kp)
<1>3. PICK slots : slots = [i \in 1..2 * n |-> IF i % 2 = 1 THEN pre(probe(i)) ELSE post(probe(i))]
  OBVIOUS
<1>4. LxKprobeEntries = Kept(slots, {i \in DOMAIN slots : slots[i].va # "0"})
  BY <1>1, <1>3 DEF LxKprobeEntries
<1>5. ASSUME NEW k \in LxKprobeSet
      PROVE  /\ pre(k) \in LxEntries /\ pre(k).sub = "kprobe" /\ pre(k).op = "kprobe_pre"
             /\ pre(k).va = k.pre /\ pre(k).fops = k.kp
             /\ post(k) \in LxEntries /\ post(k).sub = "kprobe" /\ post(k).op = "kprobe_post"
             /\ post(k).va = k.post /\ post(k).fops = k.kp
  <2>1. /\ "kprobe_pre" \in LxOpNames /\ "kprobe_post" \in LxOpNames /\ k.pre \in LxVas
        /\ k.post \in LxVas /\ k.kp \in LxFops \cup {"0"} \cup LxOps \cup LxHookFds
    BY DEF LxKprobeSet, LxOpNames, LxVas, LxHookVas
  <2> QED  BY <2>1, LxEntryIs
<1>6. \A i \in 1..2 * n : (i - 1) \div 2 + 1 \in 1..n
  OBVIOUS
<1>7. \A i \in 1..2 * n : probe(i) \in LxKprobeSet /\ probe(i) \in ToSet(lxKprobes)
  BY <1>2, <1>6
<1> HIDE DEF pre, post
<1>8. slots \in Seq(LxEntries) /\ Len(slots) = 2 * n /\ DOMAIN slots = 1..2 * n
  <2>1. slots \in [1..2 * n -> LxEntries] /\ 2 * n \in Nat
    <3> HIDE DEF probe
    <3> QED  BY <1>3, <1>5, <1>7
  <2> QED  BY <2>1
<1>9. PICK I : I = {i \in DOMAIN slots : slots[i].va # "0"}
  OBVIOUS
<1>10. LxKprobeEntries \in Seq(LxEntries)
       /\ ToSet(LxKprobeEntries) = {slots[i] : i \in I \cap (1..Len(slots))}
  BY <1>4, <1>8, <1>9, KeptProperties, ElementsKept
<1>11. ToSet(LxKprobeEntries) = {slots[i] : i \in I} /\ I \subseteq 1..2 * n
  BY <1>8, <1>9, <1>10
<1>12. ASSUME NEW x \in ToSet(LxKprobeEntries)
       PROVE  LxTrue(x)
  <2>1. PICK k \in LxKprobeSet : /\ k \in ToSet(lxKprobes) /\ (x = pre(k) \/ x = post(k))
                                 /\ x.va # "0"
    <3>1. PICK i \in 1..2 * n : x = slots[i] /\ x.va # "0"
      BY <1>9, <1>11
    <3> HIDE DEF probe
    <3> QED  BY <1>3, <1>7, <3>1
  <2>2. /\ x.sub = "kprobe" /\ x.op \in {"kprobe_pre", "kprobe_post"} /\ x.fops = k.kp
        /\ x.va = k.pre \/ x.va = k.post
    BY <1>5, <2>1
  <2>3. k.kp \in LxOps /\ x.va \in LxFuncs
    BY <2>1, <2>2 DEF LxKprobeSet
  <2>4. <<"kprobe", x.fops, x.va>> \in LxStanding
    BY <2>1, <2>2, <2>3 DEF LxInv, LxMirrors
  <2> QED  BY <2>2, <2>4 DEF LxTrue
<1>13. ASSUME NEW o \in LxOps, NEW f \in LxFuncs, <<"kprobe", o, f>> \in LxStanding
       PROVE  \E x \in ToSet(LxKprobeEntries) : x.sub = "kprobe" /\ x.fops = o /\ x.va = f
  <2>1. PICK k \in ToSet(lxKprobes) : k.kp = o /\ (k.pre = f \/ k.post = f)
    BY <1>13 DEF LxInv, LxMirrors
  <2>2. PICK d \in 1..n : k = lxKprobes[d] /\ k \in LxKprobeSet
    BY <1>2
  <2>3. f # "0"
    BY LxAssumption
  <2>4. CASE k.pre = f
    <3>1. /\ 2 * (d - 1) + 1 \in 1..2 * n /\ (2 * (d - 1) + 1) % 2 = 1
          /\ ((2 * (d - 1) + 1) - 1) \div 2 + 1 = d
      OBVIOUS
    <3>2. PICK i \in 1..2 * n : i % 2 = 1 /\ probe(i) = k
      BY <2>2, <3>1
    <3> HIDE DEF probe
    <3>3. slots[i] = pre(k)
      BY <1>3, <3>2
    <3>4. slots[i].sub = "kprobe" /\ slots[i].fops = o /\ slots[i].va = f
      BY <1>5, <2>1, <2>2, <2>4, <3>3
    <3> QED  BY <1>8, <1>9, <1>11, <2>3, <3>4
  <2>5. CASE k.post = f
    <3>1. /\ 2 * (d - 1) + 2 \in 1..2 * n /\ (2 * (d - 1) + 2) % 2 = 0
          /\ ((2 * (d - 1) + 2) - 1) \div 2 + 1 = d
      OBVIOUS
    <3>2. PICK i \in 1..2 * n : i % 2 = 0 /\ probe(i) = k
      BY <2>2, <3>1
    <3> HIDE DEF probe
    <3>3. slots[i] = post(k)
      BY <1>3, <3>2
    <3>4. slots[i].sub = "kprobe" /\ slots[i].fops = o /\ slots[i].va = f
      BY <1>5, <2>1, <2>2, <2>5, <3>3
    <3> QED  BY <1>8, <1>9, <1>11, <2>3, <3>4
  <2> QED  BY <2>1, <2>4, <2>5
<1> QED  BY <1>10, <1>12, <1>13

\* The entries of the tracepoints, programs and rings.
LxTpEntries == [i \in DOMAIN lxTps |->
                  LxEntry("tracepoint", "tracepoint", lxTps[i].probe, lxTps[i].tp)]
LxProgEntries == [i \in 1..lxProgs |-> LxEntry("ebpf", "ebpf", LxProgFd(i - 1), LxProgFd(i - 1))]
LxRingEntries == [i \in 1..lxRings |->
                    LxEntry("io_uring", "io_uring", LxSqRing(i - 1), LxRingFd(i - 1))]

\* They are true, and every tracepoint that stands has one.
LEMMA LxRestTrue ==
  ASSUME LxInv
  PROVE  /\ LxTpEntries \in Seq(LxEntries) /\ LxProgEntries \in Seq(LxEntries)
         /\ LxRingEntries \in Seq(LxEntries)
         /\ \A x \in ToSet(LxTpEntries) \cup ToSet(LxProgEntries) \cup ToSet(LxRingEntries) : LxTrue(x)
         /\ \A o \in LxOps, f \in LxFuncs : <<"tracepoint", o, f>> \in LxStanding =>
              \E x \in ToSet(LxTpEntries) : x.sub = "tracepoint" /\ x.fops = o /\ x.va = f
<1>t. PICK tps : tps = LxTpEntries
  OBVIOUS
<1>p. PICK progs : progs = LxProgEntries
  OBVIOUS
<1>r. PICK rings : rings = LxRingEntries
  OBVIOUS
<1>1. /\ lxTps \in Seq(LxTpSet) /\ DOMAIN lxTps = 1..Len(lxTps)
      /\ Len(lxTps) \in Nat /\ \A i \in DOMAIN lxTps : lxTps[i] \in LxTpSet
      /\ ToSet(lxTps) = {lxTps[i] : i \in DOMAIN lxTps}
  BY Elements DEF LxInv, LxTypeOK
<1>2. lxProgs \in 0..LxMaxCalls /\ lxRings \in 0..LxMaxCalls /\ LxMaxCalls \in Nat
  BY LxAssumption DEF LxInv, LxTypeOK
<1> DEFINE entry(t) == LxEntry("tracepoint", "tracepoint", t.probe, t.tp)
<1>3. ASSUME NEW t \in LxTpSet
      PROVE  /\ entry(t) \in LxEntries /\ entry(t).sub = "tracepoint"
             /\ entry(t).op = "tracepoint" /\ entry(t).fops = t.tp /\ entry(t).va = t.probe
  <2>1. /\ "tracepoint" \in LxOpNames /\ t.probe \in LxVas
        /\ t.tp \in LxFops \cup {"0"} \cup LxOps \cup LxHookFds
    BY DEF LxTpSet, LxOpNames, LxVas, LxHookVas
  <2> QED  BY <2>1, LxEntryIs
<1>4. tps = [i \in DOMAIN lxTps |-> entry(lxTps[i])]
  BY <1>t DEF LxTpEntries
<1> HIDE DEF entry
<1>5. tps \in Seq(LxEntries) /\ ToSet(tps) = {entry(lxTps[i]) : i \in DOMAIN lxTps}
  <2>1. tps \in [1..Len(lxTps) -> LxEntries]
    BY <1>1, <1>3, <1>4
  <2> QED  BY <1>1, <1>4, <2>1 DEF ToSet
<1>6. ASSUME NEW x \in ToSet(tps)
      PROVE  LxTrue(x)
  <2>1. PICK t \in LxTpSet : t \in ToSet(lxTps) /\ x = entry(t)
    BY <1>1, <1>5
  <2>2. t.tp \in LxOps /\ t.probe \in LxFuncs
    BY DEF LxTpSet
  <2>3. <<"tracepoint", t.tp, t.probe>> \in LxStanding
    BY <2>1, <2>2 DEF LxInv, LxMirrors
  <2> QED  BY <1>3, <2>1, <2>3 DEF LxTrue
<1>7. ASSUME NEW o \in LxOps, NEW f \in LxFuncs, <<"tracepoint", o, f>> \in LxStanding
      PROVE  \E x \in ToSet(tps) : x.sub = "tracepoint" /\ x.fops = o /\ x.va = f
  <2>1. PICK t \in ToSet(lxTps) : t.tp = o /\ t.probe = f
    BY <1>7 DEF LxInv, LxMirrors
  <2>2. t \in LxTpSet /\ entry(t) \in ToSet(tps)
    BY <1>1, <1>5
  <2> QED  BY <1>3, <2>1, <2>2
<1>8. ASSUME NEW n \in 0..LxMaxCalls
      PROVE  /\ LxEntry("ebpf", "ebpf", LxProgFd(n), LxProgFd(n)) \in LxEntries
             /\ LxEntry("ebpf", "ebpf", LxProgFd(n), LxProgFd(n)).sub = "ebpf"
             /\ LxEntry("io_uring", "io_uring", LxSqRing(n), LxRingFd(n)) \in LxEntries
             /\ LxEntry("io_uring", "io_uring", LxSqRing(n), LxRingFd(n)).sub = "io_uring"
  <2>1. /\ LxProgFd(n) \in LxHookFds /\ LxProgFd(n) \in LxVas /\ LxSqRing(n) \in LxVas
        /\ LxRingFd(n) \in LxHookFds /\ "ebpf" \in LxOpNames /\ "io_uring" \in LxOpNames
    BY DEF LxHookFds, LxVas, LxHookVas, LxOpNames
  <2> QED  BY <2>1, LxEntryIs
<1>9. progs \in Seq(LxEntries) /\ \A x \in ToSet(progs) : LxTrue(x)
  <2>1. \A i \in 1..lxProgs : /\ progs[i] \in LxEntries /\ progs[i].sub = "ebpf"
    <3>1. \A i \in 1..lxProgs : i - 1 \in 0..LxMaxCalls
      BY <1>2
    <3> QED  BY <1>8, <1>p, <3>1 DEF LxProgEntries
  <2>2. progs \in [1..lxProgs -> LxEntries] /\ lxProgs \in Nat
    BY <1>2, <1>p, <2>1 DEF LxProgEntries
  <2>3. ToSet(progs) = {progs[i] : i \in 1..lxProgs}
    BY <1>p DEF ToSet, LxProgEntries
  <2> QED  BY <2>1, <2>2, <2>3 DEF LxTrue
<1>10. rings \in Seq(LxEntries) /\ \A x \in ToSet(rings) : LxTrue(x)
  <2>1. \A i \in 1..lxRings : /\ rings[i] \in LxEntries /\ rings[i].sub = "io_uring"
    <3>1. \A i \in 1..lxRings : i - 1 \in 0..LxMaxCalls
      BY <1>2
    <3> QED  BY <1>8, <1>r, <3>1 DEF LxRingEntries
  <2>2. rings \in [1..lxRings -> LxEntries] /\ lxRings \in Nat
    BY <1>2, <1>r, <2>1 DEF LxRingEntries
  <2>3. ToSet(rings) = {rings[i] : i \in 1..lxRings}
    BY <1>r DEF ToSet, LxRingEntries
  <2> QED  BY <2>1, <2>2, <2>3 DEF LxTrue
<1> QED  BY <1>t, <1>p, <1>r, <1>5, <1>6, <1>7, <1>9, <1>10

\* What is harvested is true, complete, and each thing once.
LEMMA LxHarvestTrue ==
  ASSUME LxInv
  PROVE  /\ getAllHarvestedOps \in Seq(LxEntries)
         /\ \A x \in ToSet(getAllHarvestedOps) : LxTrue(x)
         /\ \A h \in LxStanding : \E x \in ToSet(getAllHarvestedOps) :
              x.sub = h[1] /\ x.fops = h[2] /\ x.va = h[3]
         /\ \A d \in DOMAIN lxDevs, op \in Range(LxRawOps) :
              lxDevs[d].fops # "0" /\ LxTable[lxDevs[d].fops][op] # "0" =>
                \E x \in ToSet(getAllHarvestedOps) : /\ x.fops = lxDevs[d].fops
                                                     /\ x.va = LxTable[lxDevs[d].fops][op]
         /\ \A a, b \in 1..Len(getAllHarvestedOps) : a < b =>
              ~LxSame(getAllHarvestedOps[a], getAllHarvestedOps[b])
<1>1. PICK tps : tps = LxTpEntries
  OBVIOUS
<1>2. PICK progs : progs = LxProgEntries
  OBVIOUS
<1>3. PICK rings : rings = LxRingEntries
  OBVIOUS
<1>4. /\ tps \in Seq(LxEntries) /\ progs \in Seq(LxEntries) /\ rings \in Seq(LxEntries)
      /\ \A x \in ToSet(tps) \cup ToSet(progs) \cup ToSet(rings) : LxTrue(x)
      /\ \A o \in LxOps, f \in LxFuncs : <<"tracepoint", o, f>> \in LxStanding =>
           \E x \in ToSet(tps) : x.sub = "tracepoint" /\ x.fops = o /\ x.va = f
  BY <1>1, <1>2, <1>3, LxRestTrue
<1>5. LxWithFtrace \in Seq(LxEntries) /\ LxKprobeEntries \in Seq(LxEntries)
  BY LxFtraceTrue, LxKprobesTrue
<1>6. PICK two : two = LxWithFtrace \o LxKprobeEntries
  OBVIOUS
<1>7. two \in Seq(LxEntries) /\ ToSet(two) = ToSet(LxWithFtrace) \cup ToSet(LxKprobeEntries)
  BY <1>5, <1>6, ElementsJoined
<1>8. PICK three : three = two \o tps
  OBVIOUS
<1>9. three \in Seq(LxEntries) /\ ToSet(three) = ToSet(two) \cup ToSet(tps)
  BY <1>4, <1>7, <1>8, ElementsJoined
<1>10. PICK four : four = three \o progs
  OBVIOUS
<1>11. four \in Seq(LxEntries) /\ ToSet(four) = ToSet(three) \cup ToSet(progs)
  BY <1>4, <1>9, <1>10, ElementsJoined
<1>12. PICK all : all = four \o rings
  OBVIOUS
<1>13. all \in Seq(LxEntries) /\ ToSet(all) = ToSet(four) \cup ToSet(rings)
  BY <1>4, <1>11, <1>12, ElementsJoined
<1>14. PICK I : I = {i \in DOMAIN all : LxNew(all, i)}
  OBVIOUS
<1>15. getAllHarvestedOps = Kept(all, I)
  BY <1>1, <1>2, <1>3, <1>6, <1>8, <1>10, <1>12, <1>14
  DEF getAllHarvestedOps, LxTpEntries, LxProgEntries, LxRingEntries
<1>16. PICK res : res = getAllHarvestedOps
  OBVIOUS
<1>17. DOMAIN all = 1..Len(all) /\ ToSet(all) = {all[i] : i \in 1..Len(all)} /\ Len(all) \in Nat
  BY <1>13, Elements
<1>18. res \in Seq(LxEntries) /\ ToSet(res) = {all[i] : i \in I \cap (1..Len(all))}
  BY <1>13, <1>15, <1>16, KeptProperties, ElementsKept
<1>19. PICK e : KeptFrom(res, all, Len(all), I, e)
  BY <1>13, <1>15, <1>16, KeptProperties
<1>20. ASSUME NEW x \in ToSet(all)
       PROVE  \E y \in ToSet(res) : LxSame(y, x)
  <2>1. PICK i \in 1..Len(all) : all[i] = x
    BY <1>17
  <2>2. PICK k \in 1..Len(all) : LxSame(all[k], all[i]) /\ LxNew(all, k)
    BY <1>13, LxFirst
  <2> QED  BY <1>14, <1>17, <1>18, <2>1, <2>2
<1>21. ASSUME NEW x \in ToSet(res)
       PROVE  LxTrue(x)
  <2>1. x \in ToSet(all)
    BY <1>17, <1>18
  <2> QED  BY <1>4, <1>7, <1>9, <1>11, <1>13, <2>1, LxFtraceTrue, LxKprobesTrue
<1>22. ASSUME NEW h \in LxStanding
       PROVE  \E x \in ToSet(res) : x.sub = h[1] /\ x.fops = h[2] /\ x.va = h[3]
  <2>1. PICK s \in {"ftrace", "kprobe", "tracepoint"}, o \in LxOps, f \in LxFuncs : h = <<s, o, f>>
    BY DEF LxInv, LxTypeOK, LxStanding
  <2>2. \E x \in ToSet(all) : x.sub = s /\ x.fops = o /\ x.va = f
    <3>1. CASE s = "ftrace"
      <4>1. \E x \in ToSet(LxWithFtrace) : x.sub = s /\ x.fops = o /\ x.va = f
        BY <2>1, <3>1, LxHooksTrue, LxFtraceTrue
      <4> QED  BY <1>7, <1>9, <1>11, <1>13, <4>1
    <3>2. CASE s = "kprobe"
      <4>1. \E x \in ToSet(LxKprobeEntries) : x.sub = s /\ x.fops = o /\ x.va = f
        BY <2>1, <3>2, LxKprobesTrue
      <4> QED  BY <1>7, <1>9, <1>11, <1>13, <4>1
    <3>3. CASE s = "tracepoint"
      <4>1. \E x \in ToSet(tps) : x.sub = s /\ x.fops = o /\ x.va = f
        BY <1>4, <2>1, <3>3
      <4> QED  BY <1>9, <1>11, <1>13, <4>1
    <3> QED  BY <3>1, <3>2, <3>3
  <2> QED  BY <1>20, <2>1, <2>2 DEF LxSame
<1>23. ASSUME NEW d \in DOMAIN lxDevs, NEW op \in Range(LxRawOps),
              lxDevs[d].fops # "0", LxTable[lxDevs[d].fops][op] # "0"
       PROVE  \E x \in ToSet(res) : /\ x.fops = lxDevs[d].fops
                                    /\ x.va = LxTable[lxDevs[d].fops][op]
  <2>1. PICK x \in ToSet(LxFileEntries) : /\ x.fops = lxDevs[d].fops
                                          /\ x.va = LxTable[lxDevs[d].fops][op]
    BY <1>23, LxFilesTrue
  <2>2. x \in ToSet(all)
    BY <1>7, <1>9, <1>11, <1>13, LxHooksTrue, LxFtraceTrue
  <2> QED  BY <1>20, <2>1, <2>2 DEF LxSame
<1>24. ASSUME NEW a \in 1..Len(res), NEW b \in 1..Len(res), a < b
       PROVE  ~LxSame(res[a], res[b])
  <2>1. /\ e[a] \in I \cap (1..Len(all)) /\ e[b] \in I \cap (1..Len(all)) /\ e[a] < e[b]
        /\ res[a] = all[e[a]] /\ res[b] = all[e[b]]
    BY <1>19, <1>24 DEF KeptFrom
  <2>2. PICK i \in 1..Len(all), k \in 1..Len(all) : i = e[a] /\ k = e[b]
    BY <2>1
  <2>3. i \in 1..(k - 1)
    BY <1>17, <2>1, <2>2
  <2>4. LxNew(all, k)
    BY <1>14, <2>1, <2>2
  <2> QED  BY <2>1, <2>2, <2>3, <2>4 DEF LxNew
<1> QED  BY <1>16, <1>18, <1>21, <1>22, <1>23, <1>24

\* Driving an entry calls what it names.
LEMMA LxTargetTrue ==
  ASSUME LxInv, NEW x, LxTrue(x), x.sub \in {"file", "ftrace", "kprobe", "tracepoint"}
  PROVE  LxTarget(x.op, x.fops, x.va) = x.va
<1>1. CASE x.sub = "file"
  <2>1. /\ x.fops \in LxFops /\ x.fops # "0" /\ x.op \in Range(LxRawOps)
        /\ x.va = LxTable[x.fops][x.op]
    BY <1>1 DEF LxTrue
  <2>2. x.op \notin {"ftrace", "kprobe", "kprobe_pre", "kprobe_post", "tracepoint"}
        /\ x.op # "netlink"
    BY <2>1, LxRaw
  <2>3. x.op \in DOMAIN LxTable[x.fops]
    BY <2>1, LxAssumption
  <2> QED  BY <2>1, <2>2, <2>3 DEF LxTarget
<1>2. CASE x.sub # "file"
  <2>1. x.op \in {"ftrace", "kprobe_pre", "kprobe_post", "tracepoint"} /\ x.fops # "0"
    <3>1. <<x.sub, x.fops, x.va>> \in LxStanding
      BY <1>2 DEF LxTrue
    <3>2. x.fops \in LxOps
      BY <3>1 DEF LxInv, LxTypeOK, LxStanding
    <3> QED  BY <1>2, <3>2, LxAssumption DEF LxTrue
  <2> QED  BY <2>1 DEF LxTarget
<1> QED  BY <1>1, <1>2

\* What is harvested is what stands, each once, and leads to its handler.
LEMMA LxInvTells == LxInv => LxHarvestTells
<1> SUFFICES ASSUME LxInv
             PROVE  LxHarvestTells
  OBVIOUS
<1>1. PICK all \in Seq(LxEntries) : all = getAllHarvestedOps
  BY LxHarvestTrue
<1>2. /\ DOMAIN all = 1..Len(all) /\ Len(all) \in Nat
      /\ ToSet(all) = {all[i] : i \in 1..Len(all)}
  BY Elements
<1>3. PICK hooks : hooks = {i \in DOMAIN all : all[i].sub \in {"ftrace", "kprobe", "tracepoint"}}
  OBVIOUS
<1>4. \A i \in DOMAIN all : LxTrue(all[i])
  BY <1>1, <1>2, LxHarvestTrue
<1>5. ASSUME NEW i \in hooks
      PROVE  <<all[i].sub, all[i].fops, all[i].va>> \in LxStanding
  BY <1>3, <1>4 DEF LxTrue
<1>6. ASSUME NEW h \in LxStanding
      PROVE  \E i \in hooks : h = <<all[i].sub, all[i].fops, all[i].va>>
  <2>1. PICK s \in {"ftrace", "kprobe", "tracepoint"}, o \in LxOps, f \in LxFuncs : h = <<s, o, f>>
    BY DEF LxInv, LxTypeOK, LxStanding
  <2>2. \E x \in ToSet(all) : x.sub = h[1] /\ x.fops = h[2] /\ x.va = h[3]
    BY <1>1, LxHarvestTrue
  <2>3. PICK i \in DOMAIN all : all[i].sub = s /\ all[i].fops = o /\ all[i].va = f
    BY <1>2, <2>1, <2>2
  <2> QED  BY <1>3, <2>1, <2>3
<1>7. {<<all[i].sub, all[i].fops, all[i].va>> : i \in hooks} = LxStanding
  BY <1>5, <1>6
<1>8. Cardinality(hooks) = Cardinality(LxStanding)
  <2>1. IsFiniteSet(hooks)
    <3>1. PICK n \in Nat : n = Len(all)
      BY <1>2
    <3>2. IsFiniteSet(1..n)
      BY FS_Interval
    <3>3. hooks \in SUBSET (1..n)
      BY <1>2, <1>3, <3>1
    <3> QED  BY <3>2, <3>3, FS_Subset
  <2>2. PICK F : F = [i \in hooks |-> <<all[i].sub, all[i].fops, all[i].va>>]
    OBVIOUS
  <2>3. F \in [hooks -> LxStanding] /\ \A h \in LxStanding : \E i \in hooks : F[i] = h
    BY <1>5, <1>6, <2>2
  <2>4. ASSUME NEW i \in hooks, NEW k \in hooks, F[i] = F[k]
        PROVE  i = k
    <3>1. i \in 1..Len(all) /\ k \in 1..Len(all)
      BY <1>2, <1>3
    <3>2. LxSame(all[i], all[k]) /\ LxSame(all[k], all[i])
      BY <2>2, <2>4 DEF LxSame
    <3>3. ~(i < k) /\ ~(k < i)
      BY <1>1, <3>1, <3>2, LxHarvestTrue
    <3> QED  BY <1>2, <3>1, <3>3
  <2>5. F \in Bijection(hooks, LxStanding)
    BY <2>3, <2>4 DEF Bijection, Injection, Surjection, IsInjective
  <2> QED  BY <2>1, <2>5, FS_Bijection DEF ExistsBijection
<1>9. ASSUME NEW i \in DOMAIN all, all[i].sub \in {"file", "ftrace", "kprobe", "tracepoint"}
      PROVE  LxTarget(all[i].op, all[i].fops, all[i].va) = all[i].va
  BY <1>4, <1>9, LxTargetTrue
<1>10. ASSUME NEW d \in DOMAIN lxDevs, lxDevs[d].fops # "0",
              NEW op \in Range(LxRawOps), LxTable[lxDevs[d].fops][op] # "0"
       PROVE  \E k \in DOMAIN all : /\ all[k].fops = lxDevs[d].fops
                                    /\ all[k].va = LxTable[lxDevs[d].fops][op]
  <2>1. \E x \in ToSet(all) : /\ x.fops = lxDevs[d].fops
                              /\ x.va = LxTable[lxDevs[d].fops][op]
    BY <1>1, <1>10, LxHarvestTrue
  <2> QED  BY <1>2, <2>1
<1> QED  BY <1>1, <1>3, <1>7, <1>8, <1>9, <1>10 DEF LxHarvestTells

\* However hooks are registered and removed, what stands is harvested exactly once.
THEOREM HarvestTells == LxSpec => []LxHarvestTells
<1>1. LxSpec => []LxInv
  BY LxInvInit, LxInvNext, PTL DEF LxSpec
<1> QED  BY <1>1, LxInvTells, PTL

-----------------------------------------------------------------------------
(***************************************************************************)
(* Both kernels together (MCKernels).                                      *)
(***************************************************************************)

\* Whichever component is in focus moves, all keep their variables in their types.
THEOREM KernelsTyped == MCSpec => []MCTypeOK
<1> DEFINE GuestInv == GlInv /\ HnInv /\ HpTypes /\ AtInv
           LinuxInv == LxInv /\ LcInv /\ KoInv /\ IoInv
<1>1. MCInit => GuestInv
  <2>1. HpInit => HpTypes
    BY HpInvInit DEF HpInv, HpTyped, HpTypes
  <2> QED  BY <2>1, GlInvInit, HnInvInit, AtInvInit DEF MCInit
<1>2. MCInit => LinuxInv
  BY LxInvInit, LcInvInit, KoInvInit, IoInvInit DEF MCInit
<1>3. [MCNext]_<<focus, guestVars, linuxVars>> =>
        /\ [GlNext]_glVars /\ [HnNext]_hnVars /\ [HpStep]_hpVars /\ [AtNext]_atVars
        /\ [LxNext]_lxVars /\ [LcNext]_lcVars /\ [KoNext]_koVars /\ [Next]_vars
  BY DEF MCNext, guestVars, linuxVars, GlNext, HnNext, AtNext
<1>4. GuestInv /\ [MCNext]_<<focus, guestVars, linuxVars>> => GuestInv'
  BY <1>3, GlInvNext, HnInvNext, HpTypesNext, AtInvNext
<1>5. LinuxInv /\ [MCNext]_<<focus, guestVars, linuxVars>> => LinuxInv'
  BY <1>3, LxInvNext, LcInvNext, KoInvNext, IoInvNext
<1>6. GuestInv => GlTypeOK /\ HnTypeOK /\ HpTypeOK /\ AtTypeOK
  <2>1. GlInv => GlTypeOK
    BY DEF GlInv, GlRingsInv, GlTableInv, GlTypeOK, GlRoots, GlLinks
  <2>2. HnInv => HnTypeOK
    BY DEF HnInv, HnHandlesInv, HnKeysInv, HnLogInv, HnTypeOK, HnRecord, HnGrant, HnValues
  <2>3. HpTypes => HpTypeOK
    BY DEF HpTypes, HpTypeOK, HpValues
  <2>4. AtInv => AtTypeOK
    BY DEF AtInv, AtListsInv, AtDetoursInv, AtCallsInv, AtTypeOK
  <2> QED  BY <2>1, <2>2, <2>3, <2>4
<1>7. LinuxInv => LxTypeOK /\ LcTypeOK /\ KoTypeOK /\ TypeOK
  <2>1. LcInv => LcTypeOK
    BY DEF LcInv, LcTypeOK
  <2>2. IoInv => TypeOK
    BY IoUringAssumption DEF IoInv, IoSqType, IoRing, IoQueue, RingHoldsLog, TypeOK
  <2> QED  BY <2>1, <2>2, KoInvTypes DEF LxInv
<1> HIDE DEF GuestInv, LinuxInv
<1>8. GuestInv /\ LinuxInv => MCTypeOK
  BY <1>6, <1>7 DEF MCTypeOK
<1> QED  BY <1>1, <1>2, <1>4, <1>5, <1>8, PTL DEF MCSpec

================================================================================

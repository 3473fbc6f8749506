----------------------------- MODULE EnginesProofs -----------------------------
(***************************************************************************)
(* What TLAPS proves of the engines that execute guest code: the run loop  *)
(* of the interpreter, for both policies, every budget and every depth of  *)
(* nesting, and the hand-off of the hybrid backend, for every set of guest *)
(* functions; and of the page tables that the paging labs give the guest,  *)
(* for any pages, self-reference indices and edits.                        *)
(***************************************************************************)
EXTENDS MCEngines, PageTableSpace, StackLemmas, FiniteSetTheorems

-----------------------------------------------------------------------------
(***************************************************************************)
(* The run loop (CpuRun).                                                   *)
(***************************************************************************)

(***************************************************************************)
(* The invariant.                                                          *)
(***************************************************************************)

\* stopOnRip while frame d is the innermost: run leaves it as it found it, and is
\* entered by the host alone.
RunExpects(d) ==
  IF d = 0 THEN "none" ELSE IF runFrames[d].via = "run" THEN "none" ELSE "marker"

\* Frames with others on top are in an API, and so are those a fault is dispatched
\* for, which nest as their calls did.
RunNested ==
  /\ \A d \in 1..RunDepth - 1 : runFrames[d].inApi
  /\ \A d \in 2..RunDepth : runFrames[d].via # "run"
  /\ \A i \in DOMAIN runHandled :
       /\ runHandled[i].depth <= RunDepth
       /\ runHandled[i].depth > 0 => runFrames[runHandled[i].depth].inApi
       /\ \A k \in 1..i - 1 : runHandled[k].depth < runHandled[i].depth

\* Unless a host error went through a call, each frame and each dispatched fault
\* keeps what stopOnRip is to be when it is done.
RunKept ==
  ~runTainted =>
    /\ \A d \in 1..RunDepth : runFrames[d].saved = RunExpects(d - 1)
    /\ runStop = RunExpects(RunDepth)
    /\ \A i \in DOMAIN runHandled : runHandled[i].saved = RunExpects(runHandled[i].depth)

RunInv == RunTypeOK /\ RunNested /\ RunKept /\ ~runSlipped

\* No fault is dispatched for the innermost frame.
RunFree == \A i \in DOMAIN runHandled : runHandled[i].depth < RunDepth

RunHandler == [depth : 0..RunMaxDepth, saved : RunStops]

\* The frames and what is kept of them; the rest of the type invariant.
RunStackOK ==
  /\ runFrames \in Seq(RunFrame) /\ RunDepth <= RunMaxDepth
  /\ runHandled \in Seq(RunHandler)
  /\ runStop \in RunStops /\ runFault \in RunStops \cup {NoFrame}
RunRestOK ==
  /\ runAt \in RunPlaces /\ runTf \in BOOLEAN /\ runWindow \in 0..1
  /\ runHalted \in BOOLEAN /\ runSteps \in 0..RunMaxSteps /\ runDebug \in BOOLEAN
  /\ runSlipped \in BOOLEAN /\ runTainted \in BOOLEAN

\* The type invariant is the two together.
LEMMA RunTypeSplit ==
  /\ RunTypeOK <=> RunStackOK /\ RunRestOK
  /\ RunTypeOK' <=> RunStackOK' /\ RunRestOK'
BY DEF RunTypeOK, RunStackOK, RunRestOK, RunHandler

\* Nothing runs at first.
LEMMA RunInvInit == RunInit => RunInv
<1> SUFFICES ASSUME RunInit
             PROVE  RunInv
  OBVIOUS
<1>1. RunDepth = 0 /\ DOMAIN runHandled = {}
  BY DEF RunInit, RunDepth
<1>2. RunRestOK
  <2>1. runWindow \in 0..1 /\ runSteps \in 0..RunMaxSteps
    BY RunAssumption DEF RunInit
  <2>2. /\ runTf \in BOOLEAN /\ runHalted \in BOOLEAN /\ runDebug \in BOOLEAN
        /\ runSlipped \in BOOLEAN /\ runTainted \in BOOLEAN
    BY DEF RunInit
  <2>3. runAt \in RunPlaces
    BY DEF RunInit, RunPlaces
  <2> QED  BY <2>1, <2>2, <2>3 DEF RunRestOK
<1>3. RunStackOK
  BY <1>1, RunAssumption DEF RunInit, RunStackOK, RunStops
<1> QED  BY <1>1, <1>2, <1>3, RunTypeSplit DEF RunInit, RunInv, RunNested, RunKept, RunExpects

-----------------------------------------------------------------------------
(***************************************************************************)
(* What happens to the frames.                                             *)
(***************************************************************************)

\* A popped frame leaves the others.
LEMMA PoppedFrames ==
  ASSUME RunStackOK, runFrames # <<>>, runFrames' = RunPopped
  PROVE  /\ RunDepth \in Nat \ {0} /\ RunDepth' = RunDepth - 1
         /\ runFrames' \in Seq(RunFrame)
         /\ \A d \in 1..RunDepth - 1 : runFrames'[d] = runFrames[d]
<1>1. runFrames \in Seq(RunFrame)
  BY DEF RunStackOK
<1>2. runFrames' = SubSeq(runFrames, 1, Len(runFrames) - 1)
  BY DEF RunPopped, RunDepth
<1>3. /\ Len(runFrames) \in Nat \ {0}
      /\ Len(runFrames') = Len(runFrames) - 1
      /\ runFrames' \in Seq(RunFrame)
      /\ \A d \in 1..Len(runFrames) - 1 : runFrames'[d] = runFrames[d]
  BY <1>1, <1>2, FrontProperties, Zenon
<1> QED  BY <1>3 DEF RunDepth

\* A pushed frame comes on top of the others.
LEMMA PushedFrames ==
  ASSUME RunStackOK, NEW f \in RunFrame, runFrames' = Append(runFrames, f)
  PROVE  /\ RunDepth \in Nat /\ RunDepth' = RunDepth + 1
         /\ runFrames' \in Seq(RunFrame)
         /\ runFrames'[RunDepth'] = f
         /\ \A d \in 1..RunDepth : runFrames'[d] = runFrames[d]
BY DEF RunStackOK, RunDepth

\* Faults that were dispatched leave those below them.
LEMMA SettledHandled ==
  ASSUME RunStackOK, runHandled # <<>>, runHandled' = RunSettled
  PROVE  /\ Len(runHandled) \in Nat \ {0} /\ Len(runHandled') = Len(runHandled) - 1
         /\ runHandled' \in Seq(RunHandler)
         /\ \A i \in 1..Len(runHandled) - 1 : runHandled'[i] = runHandled[i]
<1>1. runHandled \in Seq(RunHandler)
  BY DEF RunStackOK
<1>2. runHandled' = SubSeq(runHandled, 1, Len(runHandled) - 1)
  BY DEF RunSettled
<1> QED  BY <1>1, <1>2, FrontProperties, Zenon

\* The entries of runHandled have depths.
LEMMA HandledDepths ==
  ASSUME RunStackOK
  PROVE  \A i \in DOMAIN runHandled :
           runHandled[i].depth \in Nat /\ runHandled[i].saved \in RunStops
<1> SUFFICES ASSUME NEW i \in DOMAIN runHandled
             PROVE  runHandled[i].depth \in Nat /\ runHandled[i].saved \in RunStops
  OBVIOUS
<1>1. runHandled[i] \in RunHandler
  BY DEF RunStackOK
<1> QED  BY <1>1, RunAssumption DEF RunHandler

\* Nothing is dispatched for a frame that runs guest code, or that the dispatcher is not at.
LEMMA FreeToRun ==
  ASSUME RunStackOK, RunNested, runFrames # <<>>, ~RunTop.inApi \/ ~RunDispatching
  PROVE  RunFree
<1> SUFFICES ASSUME NEW i \in DOMAIN runHandled
             PROVE  runHandled[i].depth < RunDepth
  BY DEF RunFree
<1>1. RunDepth \in Nat \ {0}
  BY DEF RunStackOK, RunDepth
<1>2. runHandled[i].depth \in Nat /\ runHandled[i].depth <= RunDepth
  BY HandledDepths DEF RunNested
<1>3. CASE ~RunTop.inApi
  <2>1. runHandled[i].depth # RunDepth
    BY <1>1, <1>2, <1>3 DEF RunNested, RunTop
  <2> QED  BY <1>1, <1>2, <2>1
<1>4. CASE ~RunDispatching
  <2> DEFINE n == Len(runHandled)
  <2>1. n \in Nat \ {0} /\ i \in 1..n /\ n \in DOMAIN runHandled /\ runHandled # <<>>
    BY DEF RunStackOK
  <2>2. runHandled[n].depth \in Nat /\ runHandled[n].depth <= RunDepth
    BY <2>1, HandledDepths DEF RunNested
  <2>3. runHandled[n].depth # RunDepth
    BY <1>4, <2>1 DEF RunDispatching
  <2>4. i = n \/ runHandled[i].depth < runHandled[n].depth
    BY <2>1 DEF RunNested
  <2> QED  BY <1>1, <1>2, <2>2, <2>3, <2>4
<1> QED  BY <1>3, <1>4

\* The fault of a call that ends is dispatched at the depth below it.
RunDispatches ==
  /\ \A i \in DOMAIN runHandled : runHandled[i].depth < RunDepth - 1
  /\ runHandled' = Append(runHandled, [depth |-> RunDepth - 1, saved |-> RunTop.saved])

\* The end of the innermost frame puts stopOnRip back.
LEMMA EndKeeps ==
  ASSUME RunStackOK, RunNested, RunKept, runFrames # <<>>, RunFree,
         NEW keepsFault \in BOOLEAN, RunEnd(keepsFault),
         UNCHANGED runTainted, RunDispatches \/ UNCHANGED runHandled
  PROVE  RunStackOK' /\ RunNested' /\ RunKept'
<1>1. /\ RunDepth \in Nat \ {0} /\ RunDepth' = RunDepth - 1
      /\ runFrames' \in Seq(RunFrame)
      /\ \A d \in 1..RunDepth - 1 : runFrames'[d] = runFrames[d]
  BY PoppedFrames DEF RunEnd
<1>2. runFrames[RunDepth] \in RunFrame
  BY <1>1 DEF RunStackOK, RunDepth
<1>3. runStop' \in RunStops /\ runFault' \in RunStops \cup {NoFrame}
  BY <1>2 DEF RunStackOK, RunEnd, RunTop, RunFrame
<1>4. /\ runHandled' \in Seq(RunHandler)
      /\ \A i \in DOMAIN runHandled' :
           /\ runHandled'[i].depth \in 0..RunDepth - 1
           /\ runHandled'[i].depth > 0 => runFrames[runHandled'[i].depth].inApi
           /\ \A k \in 1..i - 1 : runHandled'[k].depth < runHandled'[i].depth
           /\ ~runTainted => runHandled'[i].saved = RunExpects(runHandled'[i].depth)
  <2>1. CASE UNCHANGED runHandled
    <3>1. \A i \in DOMAIN runHandled : runHandled[i].depth \in 0..RunDepth - 1
      BY <1>1, HandledDepths DEF RunFree
    <3> QED  BY <2>1, <3>1 DEF RunStackOK, RunNested, RunKept
  <2>2. CASE RunDispatches
    <3> DEFINE h == [depth |-> RunDepth - 1, saved |-> RunTop.saved]
               n == Len(runHandled)
    <3>1. h \in RunHandler
      BY <1>1, <1>2, RunAssumption DEF RunHandler, RunTop, RunFrame, RunStackOK
    <3>2. /\ runHandled' \in Seq(RunHandler) /\ n \in Nat /\ Len(runHandled') = n + 1
          /\ runHandled'[n + 1] = h
          /\ \A i \in 1..n : runHandled'[i] = runHandled[i] /\ i \in DOMAIN runHandled
      BY <2>2, <3>1 DEF RunDispatches, RunStackOK
    <3>3. ASSUME NEW i \in 1..n
          PROVE  /\ runHandled'[i].depth \in 0..RunDepth - 1
                 /\ runHandled'[i].depth < RunDepth - 1
                 /\ runHandled'[i].depth > 0 => runFrames[runHandled'[i].depth].inApi
                 /\ \A k \in 1..i - 1 : runHandled'[k].depth < runHandled'[i].depth
                 /\ ~runTainted => runHandled'[i].saved = RunExpects(runHandled'[i].depth)
      <4>1. /\ runHandled[i].depth \in Nat /\ runHandled[i].depth < RunDepth - 1
            /\ runHandled'[i] = runHandled[i] /\ i \in DOMAIN runHandled
        BY <2>2, <3>2, <3>3, HandledDepths DEF RunDispatches
      <4>2. \A k \in 1..i - 1 : runHandled'[k] = runHandled[k]
        BY <3>2, <3>3
      <4>3. runHandled'[i].depth \in 0..RunDepth - 1
        BY <1>1, <4>1
      <4>4. \A k \in 1..i - 1 : runHandled'[k].depth < runHandled'[i].depth
        BY <4>1, <4>2 DEF RunNested
      <4> QED  BY <4>1, <4>3, <4>4 DEF RunNested, RunKept
    <3>4. /\ h.depth \in 0..RunDepth - 1
          /\ h.depth > 0 => runFrames[h.depth].inApi
          /\ \A k \in 1..n : runHandled'[k].depth < h.depth
          /\ ~runTainted => h.saved = RunExpects(h.depth)
      BY <1>1, <3>3 DEF RunNested, RunKept, RunTop
    <3> HIDE DEF h, n
    <3>5. DOMAIN runHandled' = 1..n + 1
      BY <3>2
    <3> QED  BY <3>2, <3>3, <3>4, <3>5
  <2> QED  BY <2>1, <2>2
<1>5. RunStackOK'
  BY <1>1, <1>3, <1>4, RunAssumption DEF RunStackOK, RunHandler, RunStops, RunFrame
<1>6. RunNested'
  <2>1. \A d \in 1..RunDepth' - 1 : runFrames'[d].inApi
    BY <1>1 DEF RunNested
  <2>2. \A d \in 2..RunDepth' : runFrames'[d].via # "run"
    BY <1>1 DEF RunNested
  <2>3. ASSUME NEW i \in DOMAIN runHandled'
        PROVE  /\ runHandled'[i].depth <= RunDepth'
               /\ runHandled'[i].depth > 0 => runFrames'[runHandled'[i].depth].inApi
               /\ \A k \in 1..i - 1 : runHandled'[k].depth < runHandled'[i].depth
    BY <1>1, <1>4, <2>3
  <2> QED  BY <2>1, <2>2, <2>3 DEF RunNested
<1>7. \A d \in 0..RunDepth - 1 : RunExpects(d)' = RunExpects(d)
  BY <1>1 DEF RunExpects
<1>8. ASSUME ~runTainted
      PROVE  runStop' = RunExpects(RunDepth - 1)
  <2>1. runFrames[RunDepth].saved = RunExpects(RunDepth - 1) /\ runStop = RunExpects(RunDepth)
    BY <1>1, <1>8 DEF RunKept
  <2>2. CASE runFrames[RunDepth].via = "run"
    <3>1. RunDepth = 1
      BY <1>1, <2>2 DEF RunNested
    <3> QED  BY <2>1, <2>2, <3>1 DEF RunEnd, RunTop, RunExpects
  <2>3. CASE runFrames[RunDepth].via # "run"
    BY <2>1, <2>3 DEF RunEnd, RunTop
  <2> QED  BY <2>2, <2>3
<1>9. RunKept'
  <2> SUFFICES ASSUME ~runTainted
               PROVE  /\ \A d \in 1..RunDepth' : runFrames'[d].saved = RunExpects(d - 1)'
                      /\ runStop' = RunExpects(RunDepth)'
                      /\ \A i \in DOMAIN runHandled' :
                           runHandled'[i].saved = RunExpects(runHandled[i].depth)'
    BY DEF RunKept
  <2>1. \A d \in 1..RunDepth' : runFrames'[d].saved = RunExpects(d - 1)'
    BY <1>1, <1>7 DEF RunKept
  <2>2. runStop' = RunExpects(RunDepth)'
    BY <1>1, <1>7, <1>8
  <2>3. \A i \in DOMAIN runHandled' : runHandled'[i].saved = RunExpects(runHandled[i].depth)'
    BY <1>4, <1>7
  <2> QED  BY <2>1, <2>2, <2>3
<1> QED  BY <1>5, <1>6, <1>9

\* The innermost frame is a frame.
LEMMA TopFrame ==
  ASSUME RunStackOK, runFrames # <<>>
  PROVE  RunDepth \in Nat \ {0} /\ RunDepth \in DOMAIN runFrames /\ RunTop \in RunFrame
<1>1. /\ RunDepth \in Nat \ {0} /\ RunDepth \in 1..Len(runFrames)
      /\ DOMAIN runFrames = 1..Len(runFrames)
  BY DEF RunStackOK, RunDepth
<1> QED  BY <1>1 DEF RunStackOK, RunTop

\* The innermost frame is replaced, the others stay.
RunReplaces(g) == runFrames' = [runFrames EXCEPT ![RunDepth] = g]

\* What a replaced frame leaves.
LEMMA TopReplaced ==
  ASSUME RunStackOK, runFrames # <<>>, NEW g \in RunFrame,
         g.via = RunTop.via, g.saved = RunTop.saved,
         RunReplaces(g)
  PROVE  /\ runFrames' \in Seq(RunFrame) /\ RunDepth' = RunDepth
         /\ \A d \in 1..RunDepth : /\ runFrames'[d].via = runFrames[d].via
                                   /\ runFrames'[d].saved = runFrames[d].saved
                                   /\ d # RunDepth => runFrames'[d].inApi = runFrames[d].inApi
         /\ runFrames'[RunDepth] = g
<1> DEFINE n == Len(runFrames)
<1>1. n \in Nat \ {0} /\ RunDepth = n /\ runFrames \in Seq(RunFrame)
  BY TopFrame DEF RunDepth, RunStackOK
<1>2. runFrames' \in Seq(RunFrame) /\ Len(runFrames') = n
  BY <1>1 DEF RunReplaces
<1>3. \A d \in 1..n : runFrames'[d] = IF d = n THEN g ELSE runFrames[d]
  BY <1>1 DEF RunReplaces
<1> QED  BY <1>1, <1>2, <1>3 DEF RunDepth, RunTop

\* The innermost frame enters its API or leaves it.
LEMMA TouchKeeps ==
  ASSUME RunStackOK, RunNested, RunKept, runFrames # <<>>, NEW b \in BOOLEAN, b \/ RunFree,
         runFrames' \in Seq(RunFrame), RunDepth' = RunDepth,
         \A d \in 1..RunDepth : /\ runFrames'[d].via = runFrames[d].via
                                /\ runFrames'[d].saved = runFrames[d].saved
                                /\ d # RunDepth => runFrames'[d].inApi = runFrames[d].inApi,
         runFrames'[RunDepth].inApi = b,
         UNCHANGED <<runStop, runFault, runHandled, runTainted>>
  PROVE  RunStackOK' /\ RunNested' /\ RunKept'
<1>1. RunDepth \in Nat \ {0}
  BY DEF RunStackOK, RunDepth
<1>2. RunStackOK'
  BY DEF RunStackOK
<1>3. ASSUME NEW i \in DOMAIN runHandled
      PROVE  runHandled[i].depth \in 0..RunDepth
  BY <1>3, <1>1, HandledDepths DEF RunNested
<1>4. RunNested'
  <2>1. \A d \in 1..RunDepth' - 1 : runFrames'[d].inApi
    BY <1>1 DEF RunNested
  <2>2. \A d \in 2..RunDepth' : runFrames'[d].via # "run"
    BY <1>1 DEF RunNested
  <2>3. ASSUME NEW i \in DOMAIN runHandled
        PROVE  /\ runHandled[i].depth <= RunDepth'
               /\ runHandled[i].depth > 0 => runFrames'[runHandled[i].depth].inApi
               /\ \A k \in 1..i - 1 : runHandled[k].depth < runHandled[i].depth
    BY <1>1, <1>3, <2>3 DEF RunNested, RunFree
  <2> QED  BY <2>1, <2>2, <2>3 DEF RunNested
<1>5. \A d \in 0..RunDepth : RunExpects(d)' = RunExpects(d)
  BY <1>1 DEF RunExpects
<1>6. RunKept'
  <2> SUFFICES ASSUME ~runTainted
               PROVE  /\ \A d \in 1..RunDepth' : runFrames'[d].saved = RunExpects(d - 1)'
                      /\ runStop' = RunExpects(RunDepth)'
                      /\ \A i \in DOMAIN runHandled :
                           runHandled[i].saved = RunExpects(runHandled[i].depth)'
    BY DEF RunKept
  <2>1. \A d \in 1..RunDepth' : runFrames'[d].saved = RunExpects(d - 1)'
    BY <1>1, <1>5 DEF RunKept
  <2>2. runStop' = RunExpects(RunDepth)'
    BY <1>1, <1>5 DEF RunKept
  <2>3. \A i \in DOMAIN runHandled : runHandled[i].saved = RunExpects(runHandled[i].depth)'
    BY <1>3, <1>5 DEF RunKept
  <2> QED  BY <2>1, <2>2, <2>3
<1> QED  BY <1>2, <1>4, <1>6

\* The dispatcher is done with the innermost fault, or goes on with it.
RunSettles == UNCHANGED runHandled \/ (runHandled # <<>> /\ runHandled' = RunSettled)

\* What is left of the dispatched faults is where it was.
LEMMA HandledLeft ==
  ASSUME RunStackOK, RunSettles
  PROVE  /\ runHandled' \in Seq(RunHandler)
         /\ \A i \in DOMAIN runHandled' : i \in DOMAIN runHandled /\ runHandled'[i] = runHandled[i]
<1>1. CASE UNCHANGED runHandled
  BY <1>1 DEF RunStackOK
<1>2. CASE runHandled # <<>> /\ runHandled' = RunSettled
  <2>1. /\ Len(runHandled) \in Nat \ {0} /\ Len(runHandled') = Len(runHandled) - 1
        /\ runHandled' \in Seq(RunHandler)
        /\ \A i \in 1..Len(runHandled) - 1 : runHandled'[i] = runHandled[i]
    BY <1>2, SettledHandled
  <2>2. /\ DOMAIN runHandled' = 1..Len(runHandled')
        /\ DOMAIN runHandled = 1..Len(runHandled)
    BY <2>1 DEF RunStackOK
  <2> QED  BY <2>1, <2>2
<1> QED  BY <1>1, <1>2 DEF RunSettles

\* A fault that is settled leaves the frames alone.
LEMMA SettleKeeps ==
  ASSUME RunStackOK, RunNested, RunKept, RunSettles,
         UNCHANGED <<runFrames, runStop, runFault, runTainted>>
  PROVE  RunStackOK' /\ RunNested' /\ RunKept'
<1>1. /\ runHandled' \in Seq(RunHandler)
      /\ \A i \in DOMAIN runHandled' : i \in DOMAIN runHandled /\ runHandled'[i] = runHandled[i]
  BY HandledLeft
<1>2. RunDepth' = RunDepth /\ \A d : RunExpects(d)' = RunExpects(d)
  BY DEF RunDepth, RunExpects
<1>3. RunStackOK'
  BY <1>1, <1>2 DEF RunStackOK
<1>4. DOMAIN runHandled' \in SUBSET Nat
      /\ \A i \in DOMAIN runHandled' : \A k \in 1..i - 1 : k \in DOMAIN runHandled'
  BY <1>1
<1>5. RunNested'
  BY <1>1, <1>2, <1>4 DEF RunNested
<1>6. RunKept'
  BY <1>1, <1>2 DEF RunKept
<1> QED  BY <1>3, <1>5, <1>6

\* A frame comes on top of the others.
RunPushes(f) == runFrames' = Append(runFrames, f)

\* A run or a call on top, which keeps the stopOnRip there was.
LEMMA PushKeeps ==
  ASSUME RunStackOK, RunNested, RunKept, RunHostTurn, RunDepth < RunMaxDepth, RunSettles,
         NEW f \in RunFrame, RunPushes(f), ~f.inApi,
         f.via = "run" => runFrames = <<>>,
         runStop' = IF f.via = "run" THEN runStop ELSE "marker",
         runFault' \in RunStops \cup {NoFrame},
         ~runTainted' => ~runTainted /\ f.saved = RunExpects(RunDepth)
  PROVE  RunStackOK' /\ RunNested' /\ RunKept'
<1>1. /\ RunDepth \in Nat /\ RunDepth' = RunDepth + 1
      /\ runFrames' \in Seq(RunFrame)
      /\ runFrames'[RunDepth'] = f
      /\ \A d \in 1..RunDepth : runFrames'[d] = runFrames[d]
  BY PushedFrames DEF RunPushes
<1>2. /\ runHandled' \in Seq(RunHandler)
      /\ \A i \in DOMAIN runHandled' : i \in DOMAIN runHandled /\ runHandled'[i] = runHandled[i]
  BY HandledLeft
<1>3. RunStackOK'
  BY <1>1, <1>2, RunAssumption DEF RunStackOK, RunStops
<1>4. ASSUME NEW i \in DOMAIN runHandled'
      PROVE  /\ i \in Nat /\ runHandled'[i].depth \in 0..RunDepth
             /\ runHandled'[i].depth > 0 => runFrames[runHandled'[i].depth].inApi
             /\ \A k \in 1..i - 1 : runHandled'[k].depth < runHandled'[i].depth
             /\ ~runTainted => runHandled'[i].saved = RunExpects(runHandled'[i].depth)
  <2>1. i \in Nat /\ \A k \in 1..i - 1 : k \in DOMAIN runHandled'
    BY <1>2
  <2>2. runHandled[i].depth \in Nat /\ i \in DOMAIN runHandled /\ runHandled'[i] = runHandled[i]
    BY <1>2, HandledDepths
  <2>3. runHandled'[i].depth \in 0..RunDepth
    BY <1>1, <2>2 DEF RunNested
  <2> QED  BY <1>2, <2>1, <2>2, <2>3 DEF RunNested, RunKept
<1>5. RunNested'
  <2>1. \A d \in 1..RunDepth' - 1 : runFrames'[d].inApi
    <3>1. RunDepth > 0 => runFrames[RunDepth].inApi
      BY <1>1 DEF RunHostTurn, RunTop, RunDepth, RunStackOK
    <3> QED  BY <1>1, <3>1 DEF RunNested
  <2>2. \A d \in 2..RunDepth' : runFrames'[d].via # "run"
    <3>1. RunDepth >= 1 => f.via # "run"
      BY DEF RunDepth
    <3> QED  BY <1>1, <3>1 DEF RunNested
  <2>3. ASSUME NEW i \in DOMAIN runHandled'
        PROVE  /\ runHandled'[i].depth <= RunDepth'
               /\ runHandled'[i].depth > 0 => runFrames'[runHandled'[i].depth].inApi
               /\ \A k \in 1..i - 1 : runHandled'[k].depth < runHandled'[i].depth
    <3> DEFINE d == runHandled'[i].depth
    <3>1. /\ d \in 0..RunDepth /\ (d > 0 => runFrames[d].inApi)
          /\ \A k \in 1..i - 1 : runHandled'[k].depth < d
      BY <1>4, <2>3
    <3> HIDE DEF d
    <3>2. d <= RunDepth' /\ (d > 0 => runFrames'[d].inApi)
      BY <1>1, <3>1
    <3> QED  BY <3>1, <3>2 DEF d
  <2> QED  BY <2>1, <2>2, <2>3 DEF RunNested
<1>6. \A d \in 0..RunDepth : RunExpects(d)' = RunExpects(d)
  BY <1>1 DEF RunExpects
<1>7. RunKept'
  <2> SUFFICES ASSUME ~runTainted'
               PROVE  /\ \A d \in 1..RunDepth' : runFrames'[d].saved = RunExpects(d - 1)'
                      /\ runStop' = RunExpects(RunDepth)'
                      /\ \A i \in DOMAIN runHandled' :
                           runHandled'[i].saved = RunExpects(runHandled[i].depth)'
    BY DEF RunKept
  <2>1. ASSUME NEW d \in 1..RunDepth'
        PROVE  runFrames'[d].saved = RunExpects(d - 1)'
    <3>1. CASE d = RunDepth'
      BY <1>1, <1>6, <3>1
    <3>2. CASE d # RunDepth'
      BY <1>1, <1>6, <3>2 DEF RunKept
    <3> QED  BY <3>1, <3>2
  <2>2. runStop' = RunExpects(RunDepth)'
    <3>1. CASE f.via = "run"
      <4>1. RunDepth = 0 /\ runStop = "none"
        BY <1>1, <3>1 DEF RunDepth, RunKept, RunExpects
      <4> QED  BY <1>1, <3>1, <4>1 DEF RunExpects
    <3>2. CASE f.via # "run"
      BY <1>1, <3>2 DEF RunExpects
    <3> QED  BY <3>1, <3>2
  <2>3. \A i \in DOMAIN runHandled' : runHandled'[i].saved = RunExpects(runHandled[i].depth)'
    BY <1>4, <1>6
  <2> QED  BY <2>1, <2>2, <2>3
<1> QED  BY <1>3, <1>5, <1>7

\* A host error throws the innermost frame away, with what was dispatched for it.
LEMMA ThrowKeeps ==
  ASSUME RunStackOK, RunNested, runFrames # <<>>, runFrames' = RunPopped,
         runHandled' = IF RunDispatching THEN RunSettled ELSE runHandled,
         runTainted' = TRUE, UNCHANGED <<runStop, runFault>>
  PROVE  RunStackOK' /\ RunNested' /\ RunKept'
<1>1. /\ RunDepth \in Nat \ {0} /\ RunDepth' = RunDepth - 1
      /\ runFrames' \in Seq(RunFrame)
      /\ \A d \in 1..RunDepth - 1 : runFrames'[d] = runFrames[d]
  BY PoppedFrames
<1>2. RunSettles
  BY DEF RunSettles, RunDispatching
<1>3. /\ runHandled' \in Seq(RunHandler)
      /\ \A i \in DOMAIN runHandled' : i \in DOMAIN runHandled /\ runHandled'[i] = runHandled[i]
  BY <1>2, HandledLeft
<1>4. \A i \in DOMAIN runHandled' : runHandled'[i].depth < RunDepth
  <2>1. CASE RunDispatching
    <3> DEFINE n == Len(runHandled)
    <3>1. n \in Nat \ {0} /\ n \in DOMAIN runHandled /\ Len(runHandled') = n - 1
      BY <2>1, SettledHandled DEF RunDispatching, RunStackOK
    <3>2. \A i \in DOMAIN runHandled' : i \in 1..n - 1
      BY <1>3, <3>1
    <3>3. \A i \in 1..n - 1 : runHandled[i].depth < RunDepth
      BY <2>1, <3>1 DEF RunDispatching, RunNested
    <3> QED  BY <1>3, <3>2, <3>3
  <2>2. CASE ~RunDispatching
    BY <2>2, FreeToRun DEF RunFree
  <2> QED  BY <2>1, <2>2
<1>5. RunStackOK'
  BY <1>1, <1>3, RunAssumption DEF RunStackOK
<1>6. RunNested'
  <2>1. \A d \in 1..RunDepth' - 1 : runFrames'[d].inApi
    BY <1>1 DEF RunNested
  <2>2. \A d \in 2..RunDepth' : runFrames'[d].via # "run"
    BY <1>1 DEF RunNested
  <2>3. ASSUME NEW i \in DOMAIN runHandled'
        PROVE  /\ runHandled'[i].depth <= RunDepth'
               /\ runHandled'[i].depth > 0 => runFrames'[runHandled'[i].depth].inApi
               /\ \A k \in 1..i - 1 : runHandled'[k].depth < runHandled'[i].depth
    <3>1. i \in Nat /\ \A k \in 1..i - 1 : k \in DOMAIN runHandled'
      BY <1>3
    <3>2. /\ runHandled[i].depth \in Nat /\ runHandled[i].depth < RunDepth
          /\ i \in DOMAIN runHandled /\ runHandled'[i] = runHandled[i]
      BY <1>3, <1>4, HandledDepths
    <3> QED  BY <1>1, <1>3, <3>1, <3>2 DEF RunNested
  <2> QED  BY <2>1, <2>2, <2>3 DEF RunNested
<1> QED  BY <1>5, <1>6 DEF RunKept

\* A breakpoint goes on with the run, or ends it.
LEMMA BrokeKeeps ==
  ASSUME RunStackOK, RunNested, RunKept, runFrames # <<>>, RunFree,
         NEW debug \in BOOLEAN, RunBroke(debug), UNCHANGED <<runHandled, runTainted>>
  PROVE  RunStackOK' /\ RunNested' /\ RunKept' /\ runDebug' \in BOOLEAN
<1>1. CASE RunTop.via # "run" /\ ~debug /\ RunPolicy = "continue"
  <2>1. runDebug' = FALSE /\ UNCHANGED <<runFrames, runStop, runFault, runTainted>> /\ RunSettles
    BY <1>1 DEF RunBroke, RunSettles
  <2> QED  BY <2>1, SettleKeeps
<1>2. CASE ~(RunTop.via # "run" /\ ~debug /\ RunPolicy = "continue")
  <2>1. RunEnd(FALSE) /\ runDebug' \in BOOLEAN
    BY <1>2 DEF RunBroke
  <2> QED  BY <2>1, EndKeeps
<1> QED  BY <1>1, <1>2

\* What is done after an instruction or a hook.
LEMMA AfterStepKeeps ==
  ASSUME RunStackOK, RunNested, RunKept, runFrames # <<>>, RunFree, runDebug \in BOOLEAN,
         NEW armed \in BOOLEAN, NEW tf \in BOOLEAN, NEW window \in 0..2, NEW halted \in BOOLEAN,
         RunAfterStep(armed, tf, window, halted), UNCHANGED <<runHandled, runTainted>>
  PROVE  /\ RunStackOK' /\ RunNested' /\ RunKept'
         /\ runDebug' \in BOOLEAN /\ runTf' \in BOOLEAN /\ runHalted' \in BOOLEAN
         /\ runWindow' \in 0..1 /\ (window < 2 => runWindow' = 0)
<1>1. runWindow' \in 0..1 /\ (window < 2 => runWindow' = 0)
  BY DEF RunAfterStep
<1>2. runTf' \in BOOLEAN /\ runHalted' \in BOOLEAN
  BY DEF RunAfterStep
<1>3. \/ RunBroke(TRUE)
      \/ /\ UNCHANGED <<runStop, runDebug, runFault>>
         /\ runFrames' = [runFrames EXCEPT ![RunDepth].inApi = FALSE]
  BY DEF RunAfterStep
<1>4. CASE RunBroke(TRUE)
  BY <1>1, <1>2, <1>4, BrokeKeeps
<1>5. CASE /\ UNCHANGED <<runStop, runDebug, runFault>>
           /\ runFrames' = [runFrames EXCEPT ![RunDepth].inApi = FALSE]
  <2>1. /\ runFrames' \in Seq(RunFrame) /\ RunDepth' = RunDepth
        /\ \A d \in 1..RunDepth : /\ runFrames'[d].via = runFrames[d].via
                                  /\ runFrames'[d].saved = runFrames[d].saved
                                  /\ d # RunDepth => runFrames'[d].inApi = runFrames[d].inApi
        /\ runFrames'[RunDepth].inApi = FALSE
    <3> DEFINE g == [RunTop EXCEPT !.inApi = FALSE]
    <3>1. g \in RunFrame /\ g.via = RunTop.via /\ g.saved = RunTop.saved /\ g.inApi = FALSE
      BY TopFrame DEF RunFrame
    <3>2. RunReplaces(g)
      BY <1>5 DEF RunTop, RunReplaces
    <3> HIDE DEF g
    <3> QED  BY <3>1, <3>2, TopReplaced
  <2>2. UNCHANGED <<runStop, runFault, runHandled, runTainted>>
    BY <1>5
  <2>3. RunStackOK' /\ RunNested' /\ RunKept'
    BY <2>1, <2>2, TouchKeeps
  <2> QED  BY <1>1, <1>2, <1>5, <2>3
<1> QED  BY <1>3, <1>4, <1>5

-----------------------------------------------------------------------------
(***************************************************************************)
(* The actions.                                                            *)
(***************************************************************************)

\* Each action keeps the invariant.
LEMMA RunInvNext == RunInv /\ [RunNext]_runVars => RunInv'
<1> SUFFICES ASSUME RunInv, [RunNext]_runVars
             PROVE  RunInv'
  OBVIOUS
<1>1. RunStackOK /\ RunRestOK /\ RunNested /\ RunKept /\ ~runSlipped
  BY RunTypeSplit DEF RunInv
<1> SUFFICES RunStackOK' /\ RunRestOK' /\ RunNested' /\ RunKept' /\ ~runSlipped'
  BY RunTypeSplit DEF RunInv
<1>2. ASSUME RunMayStep
      PROVE  runFrames # <<>> /\ RunFree /\ runSteps + 1 \in 0..RunMaxSteps
  BY <1>1, <1>2, FreeToRun, RunAssumption DEF RunMayStep, RunsGuest, RunRestOK
<1>3. CASE RunReset
  <2>1. RunSettles /\ UNCHANGED <<runFrames, runStop, runFault, runTainted>>
    BY <1>3 DEF RunReset, RunSettles
  <2>2. RunStackOK' /\ RunNested' /\ RunKept'
    BY <1>1, <2>1, SettleKeeps
  <2>3. 0 \in 0..RunMaxSteps /\ 0 \in 0..1
    BY RunAssumption
  <2>4. RunRestOK' /\ ~runSlipped'
    BY <1>1, <1>3, <2>3 DEF RunReset, RunRestOK
  <2> QED  BY <2>2, <2>4
<1>4. CASE RunArm
  <2>1. RunSettles /\ UNCHANGED <<runFrames, runStop, runFault, runTainted>>
    BY <1>4 DEF RunArm, RunSettles
  <2>2. RunStackOK' /\ RunNested' /\ RunKept'
    BY <1>1, <2>1, SettleKeeps
  <2> QED  BY <1>1, <1>4, <2>2 DEF RunArm, RunRestOK
<1>5. CASE RunRun
  <2> DEFINE f == [via |-> "run", saved |-> runStop, armed |-> FALSE, inApi |-> FALSE]
  <2>1. f \in RunFrame /\ RunPushes(f) /\ ~f.inApi /\ f.via = "run" /\ f.saved = runStop
    BY <1>1, <1>5 DEF RunRun, RunPush, RunPushes, RunFrame, RunStackOK
  <2> HIDE DEF f
  <2>2. RunDepth = 0 /\ RunDepth < RunMaxDepth /\ RunHostTurn /\ RunSettles /\ runFrames = <<>>
    BY <1>5, RunAssumption DEF RunRun, RunDepth, RunHostTurn, RunSettles
  <2>3. ~runTainted' => ~runTainted /\ f.saved = RunExpects(RunDepth)
    BY <1>1, <1>5, <2>1 DEF RunRun, RunKept
  <2>4. UNCHANGED <<runStop, runFault>> /\ runFault' \in RunStops \cup {NoFrame}
    BY <1>1, <1>5 DEF RunRun, RunStackOK
  <2>5. RunStackOK' /\ RunNested' /\ RunKept'
    BY <1>1, <2>1, <2>2, <2>3, <2>4, PushKeeps
  <2> QED  BY <1>1, <1>5, <2>5 DEF RunRun, RunRestOK, RunPlaces
<1>6. CASE RunCall
  <2> DEFINE f == [via |-> "call", saved |-> runStop, armed |-> FALSE, inApi |-> FALSE]
  <2>1. f \in RunFrame /\ RunPushes(f) /\ ~f.inApi /\ f.via # "run" /\ f.saved = runStop
    BY <1>1, <1>6 DEF RunCall, RunPush, RunPushes, RunFrame, RunStackOK
  <2> HIDE DEF f
  <2>2. RunDepth < RunMaxDepth /\ RunHostTurn /\ RunSettles
    BY <1>6 DEF RunCall, RunSettles
  <2>3. ~runTainted' => ~runTainted /\ f.saved = RunExpects(RunDepth)
    BY <1>1, <1>6, <2>1 DEF RunCall, RunKept
  <2>4. runStop' = "marker" /\ runFault' \in RunStops \cup {NoFrame}
    BY <1>6 DEF RunCall
  <2>5. RunStackOK' /\ RunNested' /\ RunKept'
    BY <1>1, <2>1, <2>2, <2>3, <2>4, PushKeeps
  <2> QED  BY <1>1, <1>6, <2>5 DEF RunCall, RunRestOK, RunPlaces
<1>7. CASE RunSettle
  <2>1. RunSettles /\ UNCHANGED <<runFrames, runStop, runFault, runTainted>>
    BY <1>7 DEF RunSettle, RunSettles, RunDispatching
  <2>2. RunStackOK' /\ RunNested' /\ RunKept'
    BY <1>1, <2>1, SettleKeeps
  <2> QED  BY <1>1, <1>7, <2>2 DEF RunSettle, RunRestOK
<1>8. CASE RunResume
  <2> DEFINE kept == runHandled[Len(runHandled)].saved
             used == IF runFault = NoFrame THEN kept ELSE runFault
             f == [via |-> "resumed", saved |-> used, armed |-> FALSE, inApi |-> FALSE]
  <2>1. /\ Len(runHandled) \in DOMAIN runHandled /\ kept \in RunStops
        /\ runHandled[Len(runHandled)].depth = RunDepth
    <3>1. runHandled # <<>> /\ runHandled \in Seq(RunHandler)
      BY <1>1, <1>8 DEF RunResume, RunDispatching, RunStackOK
    <3>2. Len(runHandled) \in DOMAIN runHandled
      BY <3>1
    <3> QED  BY <1>1, <1>8, <3>2, HandledDepths DEF RunResume, RunDispatching
  <2>2. ~runTainted => kept = RunExpects(RunDepth)
    BY <1>1, <2>1 DEF RunKept
  <2>3. used \in RunStops /\ runTainted' = (runTainted \/ used # kept)
    BY <1>1, <1>8, <2>1 DEF RunResume, RunStackOK
  <2>4. f \in RunFrame /\ RunPushes(f)
    BY <1>8, <2>3 DEF RunResume, RunPushes, RunFrame
  <2>5. ~f.inApi /\ f.via # "run" /\ f.saved = used
    OBVIOUS
  <2> HIDE DEF f, used, kept
  <2>6. RunDepth < RunMaxDepth /\ RunHostTurn /\ RunSettles
    BY <1>8 DEF RunResume, RunSettles, RunDispatching
  <2>7. ~runTainted' => ~runTainted /\ f.saved = RunExpects(RunDepth)
    BY <2>2, <2>3, <2>5
  <2>8. runStop' = "marker" /\ runFault' \in RunStops \cup {NoFrame}
    BY <1>8 DEF RunResume
  <2>9. RunStackOK' /\ RunNested' /\ RunKept'
    BY <1>1, <2>4, <2>5, <2>6, <2>7, <2>8, PushKeeps
  <2> QED  BY <1>1, <1>8, <2>3, <2>9 DEF RunResume, RunRestOK, RunPlaces
<1>9. CASE RunGate
  <2>1. runFrames # <<>> /\ RunFree /\ runSteps' \in 0..RunMaxSteps
    BY <1>2, <1>9 DEF RunGate
  <2>2. RunBroke(runDebug) /\ UNCHANGED <<runHandled, runTainted>> /\ runDebug \in BOOLEAN
    BY <1>1, <1>9 DEF RunGate, RunRestOK
  <2>3. RunStackOK' /\ RunNested' /\ RunKept' /\ runDebug' \in BOOLEAN
    BY <1>1, <2>1, <2>2, BrokeKeeps
  <2> QED  BY <1>1, <1>9, <2>1, <2>3 DEF RunGate, RunRestOK
<1>10. CASE RunInt3
  <2>1. runFrames # <<>> /\ RunFree /\ runSteps' \in 0..RunMaxSteps
    BY <1>2, <1>10 DEF RunInt3
  <2>2. RunBroke(runDebug) /\ UNCHANGED <<runHandled, runTainted>> /\ runDebug \in BOOLEAN
    BY <1>1, <1>10 DEF RunInt3, RunRestOK
  <2>3. RunStackOK' /\ RunNested' /\ RunKept' /\ runDebug' \in BOOLEAN
    BY <1>1, <2>1, <2>2, BrokeKeeps
  <2> QED  BY <1>1, <1>10, <2>1, <2>3 DEF RunInt3, RunRestOK, RunPlaces
<1>11. CASE RunFails
  <2>1. runFrames # <<>> /\ RunFree /\ runSteps' \in 0..RunMaxSteps
    BY <1>2, <1>11 DEF RunFails
  <2>2. RunDispatches \/ UNCHANGED runHandled
    <3> SUFFICES ASSUME runHandled # <<>> => runHandled[Len(runHandled)].depth < RunDepth - 1
                 PROVE  \A i \in DOMAIN runHandled : runHandled[i].depth < RunDepth - 1
      BY <1>11 DEF RunFails, RunDispatches
    <3> TAKE i \in DOMAIN runHandled
    <3> DEFINE n == Len(runHandled)
    <3>1. n \in DOMAIN runHandled /\ i \in 1..n /\ runHandled # <<>>
      BY <1>1 DEF RunStackOK
    <3>2. i = n \/ runHandled[i].depth < runHandled[n].depth
      BY <1>1, <3>1 DEF RunNested
    <3>3. runHandled[n].depth \in Nat /\ runHandled[i].depth \in Nat
      BY <1>1, <3>1, HandledDepths
    <3>4. RunDepth \in Nat
      BY <1>1 DEF RunStackOK, RunDepth
    <3> QED  BY <3>1, <3>2, <3>3, <3>4
  <2>3. RunEnd(TRUE) /\ UNCHANGED runTainted
    BY <1>11 DEF RunFails
  <2>4. RunStackOK' /\ RunNested' /\ RunKept'
    BY <1>1, <2>1, <2>2, <2>3, EndKeeps
  <2> QED  BY <1>1, <1>11, <2>1, <2>4 DEF RunFails, RunRestOK
<1>12. CASE RunEnterApi
  <2>1. runFrames # <<>> /\ RunTop \in RunFrame /\ RunDepth \in DOMAIN runFrames
    BY <1>1, <1>2, <1>12, TopFrame DEF RunEnterApi
  <2>2. /\ runFrames' \in Seq(RunFrame) /\ RunDepth' = RunDepth
        /\ \A d \in 1..RunDepth : /\ runFrames'[d].via = runFrames[d].via
                                  /\ runFrames'[d].saved = runFrames[d].saved
                                  /\ d # RunDepth => runFrames'[d].inApi = runFrames[d].inApi
        /\ runFrames'[RunDepth].inApi = TRUE
    <3> DEFINE g == [RunTop EXCEPT !.inApi = TRUE, !.armed = runTf]
    <3>1. g \in RunFrame /\ g.via = RunTop.via /\ g.saved = RunTop.saved /\ g.inApi = TRUE
      BY <1>1, <2>1 DEF RunFrame, RunRestOK
    <3>2. RunReplaces(g)
      BY <1>1, <1>12, <2>1 DEF RunEnterApi, RunTop, RunStackOK, RunReplaces
    <3> HIDE DEF g
    <3> QED  BY <1>1, <2>1, <3>1, <3>2, TopReplaced
  <2>3. UNCHANGED <<runStop, runFault, runHandled, runTainted>>
    BY <1>12 DEF RunEnterApi
  <2>4. RunStackOK' /\ RunNested' /\ RunKept'
    BY <1>1, <2>1, <2>2, <2>3, TouchKeeps
  <2> QED  BY <1>1, <1>12, <2>4 DEF RunEnterApi, RunRestOK
<1>13. CASE RunApiReturns
  <2>1. runFrames # <<>> /\ RunFree
    BY <1>1, <1>13, FreeToRun DEF RunApiReturns
  <2>2. RunTop.armed \in BOOLEAN
    BY <1>1, <2>1, TopFrame DEF RunFrame
  <2>3. /\ RunAfterStep(RunTop.armed, runTf, runWindow, runHalted)
        /\ UNCHANGED <<runHandled, runTainted>>
    BY <1>13 DEF RunApiReturns
  <2>4. runDebug \in BOOLEAN /\ runTf \in BOOLEAN /\ runWindow \in 0..2 /\ runHalted \in BOOLEAN
    BY <1>1 DEF RunRestOK
  <2>5. /\ RunStackOK' /\ RunNested' /\ RunKept'
        /\ runDebug' \in BOOLEAN /\ runTf' \in BOOLEAN /\ runHalted' \in BOOLEAN
        /\ runWindow' \in 0..1
    BY <1>1, <2>1, <2>2, <2>3, <2>4, AfterStepKeeps
  <2>6. runSteps' \in 0..RunMaxSteps
    BY <1>1, <1>13, RunAssumption DEF RunApiReturns, RunRestOK
  <2> QED  BY <1>1, <1>13, <2>5, <2>6 DEF RunApiReturns, RunRestOK
<1>14. CASE RunThrows
  <2>1. RunStackOK' /\ RunNested' /\ RunKept'
    BY <1>1, <1>14, ThrowKeeps DEF RunThrows
  <2> QED  BY <1>1, <1>14, <2>1 DEF RunThrows, RunRestOK
<1>15. CASE RunReturns
  <2>1. runFrames # <<>> /\ RunFree
    BY <1>1, <1>15, FreeToRun DEF RunReturns, RunsGuest
  <2>2. RunEnd(FALSE) /\ UNCHANGED <<runHandled, runTainted>>
    BY <1>15 DEF RunReturns
  <2>3. RunStackOK' /\ RunNested' /\ RunKept'
    BY <1>1, <2>1, <2>2, EndKeeps
  <2> QED  BY <1>1, <1>15, <2>3 DEF RunReturns, RunRestOK
<1>16. ASSUME NEW kind \in {"plain", "popf", "movss", "hlt"}, RunInstruction(kind)
       PROVE  RunStackOK' /\ RunRestOK' /\ RunNested' /\ RunKept' /\ ~runSlipped'
  <2>1. runFrames # <<>> /\ RunFree /\ runSteps' \in 0..RunMaxSteps
    BY <1>2, <1>16 DEF RunInstruction
  <2> DEFINE window == RunWindowOf(kind)
             halted == kind = "hlt"
  <2>2. PICK tf \in BOOLEAN : RunAfterStep(runTf, tf, window, halted)
    BY <1>1, <1>16 DEF RunInstruction, RunRestOK
  <2>3. window \in 0..2 /\ (kind # "movss" => window < 2) /\ halted \in BOOLEAN
    BY <1>1 DEF RunRestOK, RunWindowOf
  <2>4. UNCHANGED <<runHandled, runTainted>> /\ runDebug \in BOOLEAN /\ runTf \in BOOLEAN
    BY <1>1, <1>16 DEF RunInstruction, RunRestOK
  <2> HIDE DEF window, halted
  <2>5. /\ RunStackOK' /\ RunNested' /\ RunKept'
        /\ runDebug' \in BOOLEAN /\ runTf' \in BOOLEAN /\ runHalted' \in BOOLEAN
        /\ runWindow' \in 0..1 /\ (window < 2 => runWindow' = 0)
    BY <1>1, <2>1, <2>2, <2>3, <2>4, AfterStepKeeps
  <2>6. runSlipped' = FALSE
    <3>1. kind \in {"plain", "popf"} => ~(runWindow' > 0)
      BY <2>3, <2>5
    <3>2. runSlipped' = (runSlipped
                           \/ (runTf /\ kind \in {"plain", "popf"} /\ runTf' /\ runWindow' > 0))
      BY <1>16 DEF RunInstruction
    <3> QED  BY <1>1, <3>1, <3>2
  <2>7. runAt' \in RunPlaces
    BY <1>16 DEF RunInstruction
  <2> QED  BY <1>1, <2>1, <2>4, <2>5, <2>6, <2>7 DEF RunRestOK
<1>17. CASE UNCHANGED runVars
  <2>1. RunSettles /\ UNCHANGED <<runFrames, runStop, runFault, runTainted>>
    BY <1>17 DEF runVars, RunSettles
  <2>2. RunStackOK' /\ RunNested' /\ RunKept'
    BY <1>1, <2>1, SettleKeeps
  <2> QED  BY <1>1, <1>17, <2>2 DEF runVars, RunRestOK
<1> QED  BY <1>3, <1>4, <1>5, <1>6, <1>7, <1>8, <1>9, <1>10, <1>11, <1>12, <1>13, <1>14, <1>15,
            <1>16, <1>17 DEF RunNext, RunStep

-----------------------------------------------------------------------------
(***************************************************************************)
(* The theorems.                                                           *)
(***************************************************************************)

\* The invariant holds throughout.
LEMMA RunInvariant == RunSpec => []RunInv
<1>1. RunInit => RunInv
  BY RunInvInit
<1>2. RunInv /\ [RunNext]_runVars => RunInv'
  BY RunInvNext
<1> QED  BY <1>1, <1>2, PTL DEF RunSpec

\* No debug exception is lost behind MOV SS, and when nothing runs stopOnRip is what it
\* was, however deep calls, faults and their dispatch nest (cpu.mjs run, callFunction and
\* resumeFromFault).
THEOREM RunsOrderly == RunSpec => []RunOrderly
<1>1. RunInv => RunOrderly
  <2> SUFFICES ASSUME RunInv, runFrames = <<>>, ~runTainted
               PROVE  runStop = "none"
    BY DEF RunInv, RunOrderly
  <2>1. RunDepth = 0
    BY DEF RunDepth
  <2> QED  BY <2>1 DEF RunInv, RunKept, RunExpects
<1> QED  BY <1>1, RunInvariant, PTL

\* The types of the run loop's state: the window behind MOV SS never stays open past the
\* next instruction, the steps stay within their budget and calls within their depth.
THEOREM RunTypeCorrect == RunSpec => []RunTypeOK
<1>1. RunInv => RunTypeOK
  BY DEF RunInv
<1> QED  BY <1>1, RunInvariant, PTL

-----------------------------------------------------------------------------
(***************************************************************************)
(* The hand-off (Hybrid).                                                   *)
(***************************************************************************)

(***************************************************************************)
(* The invariant.                                                          *)
(***************************************************************************)

\* Calls under the innermost one are in an API; only the outermost comes from run;
\* and a call is on another engine than the active one only when the hand-off was
\* made around it.
FramesNested ==
  \A k \in DOMAIN frames :
    /\ k < Depth => frames[k].inApi
    /\ k > 1 => frames[k].via = "call"
    /\ frames[k].engine # active => frames[k].switched

HybridInv == HybridTypeOK /\ FramesNested /\ RunContinues

\* The innermost call is one of the frames.
LEMMA TopTyped ==
  ASSUME HybridTypeOK, frames # <<>>
  PROVE  /\ Depth \in Nat \ {0} /\ Depth \in DOMAIN frames /\ DOMAIN frames = 1..Depth
         /\ Top \in Frame /\ Here \in Place
<1>1. Depth \in Nat \ {0} /\ Depth \in DOMAIN frames /\ DOMAIN frames = 1..Depth
  BY DEF HybridTypeOK, Depth
<1>2. Top \in Frame
  BY <1>1 DEF HybridTypeOK, Top, Depth
<1> QED  BY <1>1, <1>2 DEF HybridTypeOK, Here, Frame

\* The instruction at hand is one.
LEMMA InstrTyped ==
  ASSUME HybridTypeOK, Executing, ~AtEnd
  PROVE  Instr \in Instruction
<1>1. Here \in Place
  BY TopTyped DEF Executing
<1>2. Here.code \in Seq(Instruction) /\ Here.at \in Nat \ {0}
  <2>1. Here.code \in Codes \cup {<<>>} /\ Here.at \in Nat \ {0}
    BY <1>1 DEF Place
  <2>2. <<>> \in Seq(Instruction)
    OBVIOUS
  <2> QED  BY <2>1, <2>2, HybridAssumption
<1>3. Here.at \in 1..Len(Here.code)
  BY <1>2 DEF AtEnd
<1> QED  BY <1>2, <1>3 DEF Instr

\* A place of a function, and the one the other engine is handed.
LEMMA PlacesTyped ==
  ASSUME HybridTypeOK
  PROVE  /\ \A code \in Codes \cup {<<>>} : Start(code) \in Place
         /\ Refused => HandedOver(Here) \in Place
         /\ Refused => HandedOver(Here).code = Here.code /\ HandedOver(Here).at = Here.at
<1>1. \A code \in Codes \cup {<<>>} : Start(code) \in Place
  BY DEF Start, Place
<1>2. ASSUME Refused
      PROVE  /\ HandedOver(Here) \in Place
             /\ HandedOver(Here).code = Here.code /\ HandedOver(Here).at = Here.at
  <2>1. Here \in Place /\ Instr \in Instruction
    BY <1>2, TopTyped, InstrTyped DEF Refused, Executing
  <2>2. Here.code[Here.at].prefixed \in BOOLEAN
    BY <2>1 DEF Instr, Instruction
  <2> QED  BY <2>1, <2>2 DEF HandedOver, Place
<1> QED  BY <1>1, <1>2

\* Nothing runs at first.
LEMMA HybridInvInit == HybridInit => HybridInv
<1> SUFFICES ASSUME HybridInit
             PROVE  HybridInv
  OBVIOUS
<1>1. Start(<<>>) \in Place
  BY DEF Start, Place
<1>2. HybridTypeOK
  BY <1>1 DEF HybridInit, HybridTypeOK, Engines
<1> QED  BY <1>2 DEF HybridInit, HybridInv, FramesNested, RunContinues, Executing

-----------------------------------------------------------------------------
(***************************************************************************)
(* The steps.                                                              *)
(***************************************************************************)

\* A call of the host or of an API implementation.
LEMMA EnterKeeps ==
  ASSUME HybridInv, NEW via \in {"call", "run"}, NEW code \in Codes, Enter(via, code)
  PROVE  HybridInv'
<1> DEFINE f == [via |-> via, engine |-> active, code |-> code,
                 inApi |-> FALSE, due |-> 1, switched |-> FALSE]
<1>1. HybridTypeOK /\ FramesNested
  BY DEF HybridInv
<1>2. /\ frames' = Append(frames, f) /\ UNCHANGED active
      /\ rip' = [rip EXCEPT ![active] = Start(code)]
      /\ frames # <<>> => Top.inApi /\ via = "call"
  BY DEF Enter
<1>3. f \in Frame
  BY <1>1 DEF Frame, HybridTypeOK
<1>4. f.via = via /\ f.engine = active /\ f.code = code /\ ~f.inApi /\ f.due = 1
  OBVIOUS
<1> HIDE DEF f
<1>5. /\ Depth \in Nat /\ Depth' = Depth + 1 /\ frames' \in Seq(Frame)
      /\ frames'[Depth + 1] = f /\ \A k \in 1..Depth : frames'[k] = frames[k]
      /\ DOMAIN frames = 1..Depth /\ DOMAIN frames' = 1..Depth + 1
  BY <1>1, <1>2, <1>3 DEF HybridTypeOK, Depth
<1>6. Depth > 0 => frames # <<>> /\ frames[Depth].inApi /\ via = "call"
  BY <1>2, <1>5 DEF Top, Depth
<1>7. HybridTypeOK'
  <2>1. rip' \in [Engines -> Place]
    BY <1>1, <1>2, PlacesTyped DEF HybridTypeOK
  <2>2. \A k \in DOMAIN frames' : frames'[k].engine = "uc" => active' = "uc"
    BY <1>1, <1>2, <1>4, <1>5 DEF HybridTypeOK
  <2> QED  BY <1>1, <1>2, <1>5, <2>1, <2>2 DEF HybridTypeOK
<1>8. FramesNested'
  BY <1>1, <1>2, <1>4, <1>5, <1>6 DEF FramesNested
<1>9. Here' = Start(code) /\ Top' = f
  BY <1>1, <1>2, <1>4, <1>5 DEF Here, Top, HybridTypeOK
<1>10. RunContinues'
  BY <1>4, <1>9 DEF RunContinues, Start
<1> QED  BY <1>7, <1>8, <1>10 DEF HybridInv

\* A step that changes the innermost call and where engines are, and nothing else.
LEMMA TopStep ==
  ASSUME HybridInv, frames # <<>>, NEW f \in Frame, frames' = [frames EXCEPT ![Depth] = f],
         f.via = Top.via, f.engine = Top.engine, f.switched = Top.switched,
         UNCHANGED active, rip' \in [Engines -> Place],
         ~f.inApi /\ f.via = "run" /\ ~f.switched =>
           rip'[f.engine].code = f.code /\ rip'[f.engine].at = f.due
  PROVE  HybridInv'
<1>1. HybridTypeOK /\ FramesNested
  BY DEF HybridInv
<1>2. Depth \in Nat \ {0} /\ Depth \in DOMAIN frames /\ DOMAIN frames = 1..Depth
  BY <1>1, TopTyped
<1>3. /\ frames' \in Seq(Frame) /\ Depth' = Depth /\ DOMAIN frames' = 1..Depth
      /\ \A k \in 1..Depth : frames'[k] = IF k = Depth THEN f ELSE frames[k]
  BY <1>1, <1>2 DEF HybridTypeOK, Depth
<1>4. HybridTypeOK'
  BY <1>1, <1>2, <1>3 DEF HybridTypeOK, Top
<1>5. FramesNested'
  BY <1>1, <1>2, <1>3 DEF FramesNested, Top
<1>6. Top' = f /\ Here' = rip'[f.engine]
  BY <1>2, <1>3 DEF Top, Here
<1>7. RunContinues'
  BY <1>6 DEF RunContinues, Executing
<1> QED  BY <1>4, <1>5, <1>7 DEF HybridInv

\* An instruction is executed.
LEMMA ExecuteKeeps == HybridInv /\ Execute => HybridInv'
<1> SUFFICES ASSUME HybridInv, Execute
             PROVE  HybridInv'
  OBVIOUS
<1> DEFINE f == [Top EXCEPT !.due = Top.due + 1]
           p == [Here EXCEPT !.at = Here.at + 1, !.cut = FALSE]
<1>1. /\ HybridTypeOK /\ frames # <<>> /\ Executing /\ UNCHANGED active
      /\ Top \in Frame /\ Here \in Place /\ Depth \in DOMAIN frames
  BY TopTyped DEF HybridInv, Execute, Executing
<1>2. Top.engine \in Engines /\ f \in Frame /\ p \in Place
  <2>1. Top.due + 1 \in Nat \ {0} /\ Top.engine \in Engines
    BY <1>1 DEF Frame
  <2>2. Here.at + 1 \in Nat \ {0}
    BY <1>1 DEF Place
  <2>3. f \in Frame
    BY <1>1, <2>1 DEF Frame
  <2>4. p \in Place
    BY <1>1, <2>2 DEF Place
  <2> QED  BY <2>1, <2>3, <2>4
<1>3. frames' = [frames EXCEPT ![Depth] = f]
  BY <1>1 DEF Execute, Top
<1>4. rip' = [rip EXCEPT ![Top.engine] = p]
  BY <1>1, <1>2 DEF Execute, Here, HybridTypeOK, Place
<1>5. /\ f.via = Top.via /\ f.engine = Top.engine /\ f.switched = Top.switched
      /\ f.code = Top.code /\ f.due = Top.due + 1 /\ ~Top.inApi
      /\ p.code = Here.code /\ p.at = Here.at + 1
  BY <1>1 DEF Frame, Place, Executing
<1> HIDE DEF f, p
<1>6. rip' \in [Engines -> Place] /\ rip'[f.engine] = p
  BY <1>1, <1>2, <1>4, <1>5 DEF HybridTypeOK
<1>7. f.via = "run" /\ ~f.switched => p.code = f.code /\ p.at = f.due
  BY <1>1, <1>5 DEF HybridInv, RunContinues
<1> QED  BY <1>1, <1>2, <1>3, <1>5, <1>6, <1>7, TopStep

\* An API is entered.
LEMMA EnterApiKeeps == HybridInv /\ EnterApi => HybridInv'
<1> SUFFICES ASSUME HybridInv, EnterApi
             PROVE  HybridInv'
  OBVIOUS
<1> DEFINE f == [Top EXCEPT !.inApi = TRUE]
<1>1. /\ HybridTypeOK /\ frames # <<>> /\ UNCHANGED <<active, rip>>
      /\ Top \in Frame /\ Depth \in DOMAIN frames
  BY TopTyped DEF HybridInv, EnterApi, Executing
<1>2. frames' = [frames EXCEPT ![Depth] = f]
  BY <1>1 DEF EnterApi, Top
<1>3. /\ f \in Frame /\ f.inApi
      /\ f.via = Top.via /\ f.engine = Top.engine /\ f.switched = Top.switched
  BY <1>1 DEF Frame
<1> HIDE DEF f
<1>4. rip' \in [Engines -> Place]
  BY <1>1 DEF HybridTypeOK
<1> QED  BY <1>1, <1>2, <1>3, <1>4, TopStep

\* An API returns, into the engine that is active by then.
LEMMA ApiReturnsKeeps == HybridInv /\ ApiReturns => HybridInv'
<1> SUFFICES ASSUME HybridInv, ApiReturns
             PROVE  HybridInv'
  OBVIOUS
<1> DEFINE f == [Top EXCEPT !.inApi = FALSE, !.due = Top.due + 1]
           p == [code |-> Top.code, at |-> Top.due + 1, cut |-> FALSE]
<1>1. /\ HybridTypeOK /\ FramesNested /\ frames # <<>> /\ UNCHANGED active
      /\ Top \in Frame /\ Depth \in DOMAIN frames
  BY TopTyped DEF HybridInv, ApiReturns
<1>2. frames' = [frames EXCEPT ![Depth] = f]
  BY <1>1 DEF ApiReturns, Top, HybridTypeOK, Depth
<1>3. /\ f \in Frame /\ p \in Place
      /\ f.via = Top.via /\ f.engine = Top.engine /\ f.switched = Top.switched
      /\ f.code = p.code /\ f.due = p.at
  <2>1. Top.due + 1 \in Nat \ {0} /\ Top.code \in Codes
    BY <1>1 DEF Frame
  <2>2. p \in Place
    BY <2>1 DEF Place
  <2>3. f \in Frame /\ f.due = Top.due + 1 /\ f.code = Top.code
        /\ f.via = Top.via /\ f.engine = Top.engine /\ f.switched = Top.switched
    BY <1>1, <2>1 DEF Frame
  <2> QED  BY <2>2, <2>3
<1>4. rip' = [rip EXCEPT ![active] = p]
  BY DEF ApiReturns
<1>5. f.engine # active => f.switched
  BY <1>1, <1>3 DEF FramesNested, Top
<1> HIDE DEF f, p
<1>6. rip' \in [Engines -> Place] /\ rip'[active] = p
  BY <1>1, <1>3, <1>4 DEF HybridTypeOK
<1> QED  BY <1>1, <1>2, <1>3, <1>5, <1>6, TopStep

\* The hand-off: the innermost call goes on on the other engine, and the calls around
\* it are switched.
LEMMA HandoffKeeps == HybridInv /\ Handoff => HybridInv'
<1> SUFFICES ASSUME HybridInv, Handoff
             PROVE  HybridInv'
  OBVIOUS
<1> DEFINE n == Depth
           f == [Top EXCEPT !.engine = "uc"]
<1>1. /\ HybridTypeOK /\ FramesNested /\ frames # <<>> /\ Refused /\ active' = "uc"
      /\ Top \in Frame /\ n \in Nat \ {0} /\ n \in DOMAIN frames /\ DOMAIN frames = 1..n
      /\ Executing /\ ~Top.inApi /\ Top.engine = "js"
  BY TopTyped DEF HybridInv, Handoff, Refused, Executing
<1>2. frames' = [k \in 1..n |-> IF k = n THEN f ELSE [frames[k] EXCEPT !.switched = TRUE]]
  BY <1>1 DEF Handoff, Top
<1>3. /\ f \in Frame /\ f.engine = "uc" /\ f.via = Top.via /\ ~f.inApi
      /\ f.code = Top.code /\ f.due = Top.due /\ f.switched = Top.switched
  BY <1>1 DEF Frame, Engines
<1>4. ASSUME NEW k \in 1..n
      PROVE  LET g == [frames[k] EXCEPT !.switched = TRUE] IN
             /\ g \in Frame /\ g.switched /\ g.via = frames[k].via
             /\ g.inApi = frames[k].inApi
  <2>1. frames[k] \in Frame
    BY <1>1 DEF HybridTypeOK
  <2> QED  BY <2>1 DEF Frame
<1> HIDE DEF f
<1>5. /\ frames' \in Seq(Frame) /\ Len(frames') = n /\ DOMAIN frames' = 1..n
      /\ frames'[n] = f
      /\ \A k \in 1..n : k # n => /\ frames'[k].switched /\ frames'[k].via = frames[k].via
                                  /\ frames'[k].inApi = frames[k].inApi
  <2>1. frames' \in [1..n -> Frame]
    BY <1>2, <1>3, <1>4
  <2>2. frames' \in Seq(Frame) /\ Len(frames') = n
    BY <1>1, <2>1
  <2> QED  BY <1>1, <1>2, <1>4, <2>1, <2>2
<1>6. Depth' = n /\ Top' = f /\ Here' = rip'["uc"]
  BY <1>3, <1>5 DEF Depth, Top, Here
<1>7. /\ rip' \in [Engines -> Place]
      /\ Top.via = "run" => rip'["uc"] = HandedOver(Here)
  <2>1. Top.code \in Codes
    BY <1>1 DEF Frame
  <2>2. HandedOver(Here) \in Place /\ Start(Top.code) \in Place
    BY <1>1, <2>1, PlacesTyped
  <2>3. rip' = [js |-> HandedOver(Here),
                uc |-> IF Top.via = "run" THEN HandedOver(Here) ELSE Start(Top.code)]
    BY DEF Handoff
  <2> QED  BY <2>2, <2>3 DEF Engines
<1>8. HybridTypeOK'
  BY <1>1, <1>5, <1>7 DEF HybridTypeOK, Engines
<1>9. FramesNested'
  <2>1. \A k \in 1..n : /\ k < n => frames[k].inApi
                        /\ k > 1 => frames[k].via = "call"
    BY <1>1 DEF FramesNested
  <2>2. n > 1 => f.via = "call"
    BY <1>1, <1>3, <2>1 DEF Top
  <2> QED  BY <1>1, <1>3, <1>5, <1>6, <2>1, <2>2 DEF FramesNested
<1>10. RunContinues'
  <2>1. HandedOver(Here).code = Here.code /\ HandedOver(Here).at = Here.at
    BY <1>1, PlacesTyped
  <2> QED  BY <1>1, <1>3, <1>6, <1>7, <2>1 DEF HybridInv, RunContinues
<1> QED  BY <1>8, <1>9, <1>10 DEF HybridInv

\* The innermost call is over; the one around it is in an API.
LEMMA LeaveKeeps == HybridInv /\ frames # <<>> /\ Leave => HybridInv'
<1> SUFFICES ASSUME HybridInv, frames # <<>>, Leave
             PROVE  HybridInv'
  OBVIOUS
<1>1. /\ HybridTypeOK /\ FramesNested /\ UNCHANGED <<active, rip>>
      /\ frames \in Seq(Frame) /\ frames' = SubSeq(frames, 1, Len(frames) - 1)
  BY DEF HybridInv, Leave, HybridTypeOK, Depth
<1>2. /\ Len(frames) \in Nat \ {0} /\ Len(frames') = Len(frames) - 1 /\ frames' \in Seq(Frame)
      /\ \A k \in 1..Len(frames) - 1 : frames'[k] = frames[k]
  BY <1>1, FrontProperties, Zenon
<1>3. /\ DOMAIN frames = 1..Depth /\ DOMAIN frames' = 1..Depth - 1 /\ Depth' = Depth - 1
      /\ Depth \in Nat \ {0} /\ \A k \in 1..Depth - 1 : frames'[k] = frames[k]
  BY <1>1, <1>2 DEF Depth
<1>4. HybridTypeOK'
  BY <1>1, <1>2, <1>3 DEF HybridTypeOK
<1>5. FramesNested'
  BY <1>1, <1>3 DEF FramesNested
<1>6. ~Executing'
  <2>1. frames' # <<>> => Depth - 1 \in 1..Depth - 1
    BY <1>2, <1>3 DEF Depth
  <2>2. frames' # <<>> => frames'[Depth - 1].inApi
    BY <1>1, <1>3, <2>1 DEF FramesNested
  <2> QED  BY <1>3, <2>2 DEF Executing, Top
<1> QED  BY <1>4, <1>5, <1>6 DEF HybridInv, RunContinues

\* Every step.
LEMMA HybridInvNext == HybridInv /\ [HybridNext]_hybridVars => HybridInv'
<1> SUFFICES ASSUME HybridInv, [HybridNext]_hybridVars
             PROVE  HybridInv'
  OBVIOUS
<1>1. CASE UNCHANGED hybridVars
  BY <1>1 DEF hybridVars, HybridInv, HybridTypeOK, FramesNested, RunContinues, Executing, Depth, Top, Here
<1>2. CASE ReportsFault \/ Finishes
  BY <1>2, LeaveKeeps DEF ReportsFault, Finishes, Refused, Executing
<1>3. CASE Reset
  <2>1. Start(<<>>) \in Place /\ "js" \in Engines
    BY PlacesTyped DEF HybridInv, Engines
  <2>2. frames' = <<>> /\ active' = "js" /\ rip' = [e \in Engines |-> Start(<<>>)]
    BY <1>3 DEF Reset
  <2>3. HybridTypeOK'
    BY <2>1, <2>2 DEF HybridTypeOK
  <2> QED  BY <2>2, <2>3 DEF HybridInv, FramesNested, RunContinues, Executing
<1> QED  BY <1>1, <1>2, <1>3, EnterKeeps, ExecuteKeeps, EnterApiKeeps, ApiReturnsKeeps,
            HandoffKeeps DEF HybridNext

LEMMA HybridInvariant == HybridSpec => []HybridInv
BY HybridInvInit, HybridInvNext, PTL DEF HybridSpec

-----------------------------------------------------------------------------
(***************************************************************************)
(* The theorems.                                                           *)
(***************************************************************************)

\* Every variable keeps its type, and only calls of the active backend are on Unicorn.
THEOREM HybridTypeCorrect == HybridSpec => []HybridTypeOK
<1>1. HybridInv => HybridTypeOK
  BY DEF HybridInv
<1> QED  BY <1>1, HybridInvariant, PTL

\* run executes its function in order across the hand-off, for every function and
\* however calls and APIs nest in between.
THEOREM RunGoesOn == HybridSpec => []RunContinues
<1>1. HybridInv => RunContinues
  BY DEF HybridInv
<1> QED  BY <1>1, HybridInvariant, PTL

\* Only a call around the one that was handed over is reported as a fault of the guest
\* for an instruction that the interpreter refuses.
THEOREM OnlyAroundFaults == HybridSpec => FaultsOnlyAround
<1>1. HybridInv /\ [HybridNext]_hybridVars => [ReportsFault => Top.switched]_hybridVars
  <2> SUFFICES ASSUME HybridInv, ReportsFault
               PROVE  Top.switched
    OBVIOUS
  <2>1. HybridTypeOK /\ FramesNested /\ frames # <<>> /\ Top.engine = "js" /\ active # "js"
    BY DEF HybridInv, ReportsFault, Refused, Executing, MayHandOff
  <2>2. Depth \in DOMAIN frames
    BY <2>1, TopTyped
  <2> QED  BY <2>1, <2>2 DEF FramesNested, Top
<1> QED  BY <1>1, HybridInvariant, PTL DEF HybridSpec, FaultsOnlyAround

-----------------------------------------------------------------------------
(***************************************************************************)
(* Both together (MCEngines).                                              *)
(***************************************************************************)

\* Whichever engine moves, the loop and the hand-off keep their variables in their types.
THEOREM EnginesTyped == EnginesSpec => []EnginesTypeOK
<1>1. EnginesInit => RunInv /\ HybridInv
  BY RunInvInit, HybridInvInit DEF EnginesInit
<1>2. [EnginesNext]_<<chosen, hybridVars, runVars>> => [RunNext]_runVars /\ [HybridNext]_hybridVars
  BY DEF EnginesNext
<1>3. RunInv /\ HybridInv => EnginesTypeOK
  BY DEF RunInv, HybridInv, EnginesTypeOK
<1> QED  BY <1>1, <1>2, <1>3, RunInvNext, HybridInvNext, PTL DEF EnginesSpec

-----------------------------------------------------------------------------
(***************************************************************************)
(* Page tables kept twice (PageTableSpace).                                *)
(***************************************************************************)
PtAddresses == [1..PtLevels -> PtIdx]
PtRows == [PtIdx -> PtEntries]
PtStates ==
  [phys : [PtFrames -> PtRows], alias : [PtWindows -> PtRows \cup {PtNoPage}],
   mirrors : [PtFrames -> PtWindows \cup {NoWindow}], next : 1..PtForeign,
   table : 0..PtForeign, threw : BOOLEAN]

\* The tables as a walk sees them, and an entry as it is in the frame and as a walk sees it.
PtSeen(s) ==
  [f \in PtFrames |->
     IF s.mirrors[f] # NoWindow /\ s.alias[s.mirrors[f]] # PtNoPage
     THEN s.alias[s.mirrors[f]] ELSE s.phys[f]]
PtBoth(s, f, i) == {s.phys[f][i], PtSeen(s)[f][i]}

\* w is the window of a table d levels below the top.
PtAtDepth(w, d) ==
  /\ d \in 0..(PtLevels - 1) /\ w \in PtWindows /\ w[1] \in PtSelfRefs
  /\ \A l \in 2..(d + 1) : w[l] # PtSentinel
  /\ \A l \in (d + 2)..PtLevels : w[l] = PtSentinel

\* The entry of a table leads to the table itself, to the table whose window says so, or,
\* just above the last tables, to data.
PtLeads(s, f, d, i, g) ==
  \/ d = 0 /\ i = s.mirrors[f][1] /\ g = f
  \/ /\ d = 0 => i # s.mirrors[f][1]
     /\ i # PtSentinel
     /\ \/ s.mirrors[g] = [s.mirrors[f] EXCEPT ![d + 2] = i]
        \/ d = PtLevels - 2 /\ s.mirrors[g] = NoWindow /\ g < s.next

\* Frames and windows: who has which.
PtBooks(s) ==
  /\ s \in PtStates
  /\ \A f \in PtFrames : f >= s.next => s.mirrors[f] = NoWindow /\ s.phys[f] = PtBlank
  /\ \A f, g \in PtFrames : s.mirrors[f] = s.mirrors[g] /\ s.mirrors[f] # NoWindow => f = g
  /\ \A f \in PtFrames : s.mirrors[f] # NoWindow =>
       /\ \E d \in 0..(PtLevels - 1) : PtAtDepth(s.mirrors[f], d)
       /\ s.alias[s.mirrors[f]] = PtNoPage => s.phys[f] = PtBlank
  /\ \A w \in PtWindows : s.alias[w] # PtNoPage => \E f \in PtFrames : s.mirrors[f] = w

\* Where entries lead, whichever of the two copies is read.
PtTree(s) ==
  /\ \A f \in PtFrames, i \in PtIdx : \A e \in PtBoth(s, f, i) : e.frame = 0 => e = PtZero
  /\ \A f \in PtFrames, d \in 0..(PtLevels - 2), i \in PtIdx : PtAtDepth(s.mirrors[f], d) =>
       \A e \in PtBoth(s, f, i) : e.frame # 0 => PtLeads(s, f, d, i, e.frame)
  /\ \A f \in PtFrames, i \in PtIdx : PtAtDepth(s.mirrors[f], PtLevels - 2) =>
       \A e1, e2 \in PtBoth(s, f, i) : e1.frame # 0 /\ e2.frame # 0 => e1.frame = e2.frame
  /\ \A f1, f2 \in PtFrames, i1, i2 \in PtIdx :
       PtAtDepth(s.mirrors[f1], PtLevels - 2) /\ PtAtDepth(s.mirrors[f2], PtLevels - 2) =>
       \A e1 \in PtBoth(s, f1, i1), e2 \in PtBoth(s, f2, i2) :
         e1.frame = e2.frame /\ e1.frame # 0 /\ s.mirrors[e1.frame] = NoWindow =>
           f1 = f2 /\ i1 = i2
  /\ \A f \in PtFrames, i \in PtIdx :
       s.mirrors[f] = NoWindow \/ PtAtDepth(s.mirrors[f], PtLevels - 1) =>
         \A e \in PtBoth(s, f, i) : e.frame # f

\* The top tables but x have the entry that leads to themselves.
PtLink(g) == [frame |-> g, p |-> TRUE, ps |-> FALSE]
PtTopsBut(s, x) ==
  \A f \in PtFrames : f # x /\ PtAtDepth(s.mirrors[f], 0) =>
    PtSeen(s)[f][s.mirrors[f][1]] = PtLink(f)

PtSound(s) == PtBooks(s) /\ PtTree(s) /\ PtTopsBut(s, 0)

\* t are the tables a walk of b goes through up to the k-th level; where it is tidy, none
\* of them is data.
PtPath(s, r, dtb, b, k, t, how) ==
  /\ k \in 1..PtLevels /\ t \in [1..k -> 1..(s.next - 1)] /\ t[1] = dtb
  /\ \A j \in 1..k :
       \/ s.mirrors[t[j]] = PtWindow(r, b, j - 1)
       \/ how = "any" /\ j = PtLevels /\ s.mirrors[t[j]] = NoWindow
  /\ \A j \in 1..(k - 1) : b[j] # PtSentinel /\ PtSeen(s)[t[j]][b[j]] = PtLink(t[j + 1])

\* The walk ends at the k-th level, in the table f: at an entry that is blank in both
\* copies, at a large page, or in the last table.
PtEnds(s, b, k, f, v, how) ==
  \/ /\ k < PtLevels /\ v = Unmapped
     /\ PtSeen(s)[f][b[k]] = PtZero /\ s.phys[f][b[k]] = PtZero
  \/ /\ how = "any" /\ k = PtLevels - 1 /\ v \in 1..(s.next - 1) /\ s.mirrors[v] = NoWindow
     /\ PtSeen(s)[f][b[k]] = [frame |-> v, p |-> TRUE, ps |-> TRUE]
  \/ /\ k = PtLevels
     /\ v = IF PtSeen(s)[f][b[k]].p THEN PtSeen(s)[f][b[k]].frame ELSE Unmapped
PtReaches(s, r, dtb, b, v, how) ==
  \E k \in 1..PtLevels : \E t \in [1..k -> 1..(s.next - 1)] :
    PtPath(s, r, dtb, b, k, t, how) /\ PtEnds(s, b, k, t[k], v, how)

\* Processes have top tables of their own.
PtOwn(s, procs) ==
  /\ procs \in [PtProcesses -> [dtb : 0..PtMaxFrames, selfRef : PtIdx]]
  /\ \A p \in PtProcesses : procs[p] # NoProc =>
       /\ procs[p].selfRef \in PtSelfRefs /\ procs[p].dtb \in 1..(s.next - 1)
       /\ s.mirrors[procs[p].dtb] = PtWindow(procs[p].selfRef, <<>>, 0)
  /\ \A p, q \in PtProcesses :
       procs[p] # NoProc /\ procs[q] # NoProc /\ procs[p].selfRef = procs[q].selfRef => p = q

PtKnown(s, procs, expected) ==
  \A p \in PtProcesses, b \in PtPages :
    /\ procs[p] # NoProc /\ ~PtRefused(procs[p].selfRef, b) /\ expected[p][b] # Unknown
    => PtReaches(s, procs[p].selfRef, procs[p].dtb, b, expected[p][b], "any")

PtInv ==
  /\ PtTypeOK
  /\ PtSound(PtNow(0)) /\ PtOwn(PtNow(0), ptProcs) /\ PtKnown(PtNow(0), ptProcs, ptExpected)

LEMMA PtConstants ==
  /\ PtLevels \in {3, 4} /\ PtSentinel \in Nat /\ PtIdx = 0..PtSentinel /\ PtSentinel \in PtIdx
  /\ PtMaxFrames \in Nat /\ PtMaxEdits \in Nat
  /\ PtForeign \in Nat /\ PtForeign = PtMaxFrames + PtLevels /\ PtFrames = 1..PtForeign
  /\ PtSelfRefs \subseteq PtIdx /\ PtSentinel \notin PtSelfRefs
  /\ PtPages \subseteq PtAddresses
  /\ PtZero \in PtEntries /\ PtZero.frame = 0 /\ ~PtZero.p /\ ~PtZero.ps
  /\ PtBlank \in PtRows /\ \A i \in PtIdx : PtBlank[i] = PtZero
  /\ NoWindow \notin PtWindows /\ PtNoPage \notin PtRows
<1>1. PtLevels \in {3, 4} /\ PtSentinel \in Nat /\ PtIdx = 0..PtSentinel /\ PtSentinel \in PtIdx
  BY PtAssumption
<1>2. PtForeign \in Nat /\ PtForeign = PtMaxFrames + PtLevels
  BY <1>1, PtAssumption DEF PtForeign
<1>3. PtZero \in PtEntries /\ PtZero.frame = 0 /\ ~PtZero.p /\ ~PtZero.ps
  BY <1>2 DEF PtZero, PtEntries
<1>4. PtBlank \in PtRows /\ \A i \in PtIdx : PtBlank[i] = PtZero
  BY <1>3 DEF PtBlank, PtRows
<1>5. NoWindow \notin PtWindows
  <2>1. ASSUME NEW w \in PtWindows
        PROVE  w # NoWindow
    <3>1. DOMAIN w = 1..PtLevels /\ 1 \in 1..PtLevels
      BY <1>1 DEF PtWindows
    <3>2. 1 \notin DOMAIN NoWindow
      BY DEF NoWindow
    <3> QED  BY <3>1, <3>2
  <2> QED  BY <2>1
<1>6. PtNoPage \notin PtRows
  <2>1. ASSUME NEW w \in PtRows
        PROVE  w # PtNoPage
    <3>1. DOMAIN w = PtIdx /\ 0 \in PtIdx
      BY <1>1 DEF PtRows
    <3>2. 0 \notin DOMAIN PtNoPage
      BY DEF PtNoPage
    <3> QED  BY <3>1, <3>2
  <2> QED  BY <2>1
<1> QED  BY <1>1, <1>2, <1>3, <1>4, <1>5, <1>6, PtAssumption DEF PtFrames, PtAddresses

\* Windows: that of a table lies as deep as the indices that lead to it are many, and tells them.
LEMMA PtWindowIs ==
  ASSUME NEW r \in PtIdx, NEW a \in PtAddresses, NEW d \in 0..(PtLevels - 1)
  PROVE  /\ PtWindow(r, a, d) \in PtWindows /\ PtWindow(r, a, d)[1] = r
         /\ \A l \in 1..d : PtWindow(r, a, d)[l + 1] = a[l]
         /\ \A l \in (d + 2)..PtLevels : PtWindow(r, a, d)[l] = PtSentinel
         /\ PtWindow(r, a, 0) = PtWindow(r, <<>>, 0)
         /\ r \in PtSelfRefs /\ (\A l \in 1..d : a[l] # PtSentinel) =>
              PtAtDepth(PtWindow(r, a, d), d)
<1>1. \A l \in 1..PtLevels :
        (IF l = 1 THEN r ELSE IF l <= d + 1 THEN a[l - 1] ELSE PtSentinel) \in PtIdx
  BY PtConstants DEF PtAddresses
<1>2. PtWindow(r, a, d) \in PtWindows
  BY <1>1 DEF PtWindow, PtWindows
<1>3. /\ PtWindow(r, a, d)[1] = r
      /\ \A l \in 1..d : PtWindow(r, a, d)[l + 1] = a[l]
      /\ \A l \in (d + 2)..PtLevels : PtWindow(r, a, d)[l] = PtSentinel
  BY PtConstants DEF PtWindow
<1>4. PtWindow(r, a, 0) = PtWindow(r, <<>>, 0)
  BY PtConstants DEF PtWindow
<1>5. ASSUME r \in PtSelfRefs, \A l \in 1..d : a[l] # PtSentinel
      PROVE  PtAtDepth(PtWindow(r, a, d), d)
  <2>1. \A l \in 2..(d + 1) : l - 1 \in 1..d /\ (l - 1) + 1 = l
    BY PtConstants
  <2>2. \A l \in 2..(d + 1) : PtWindow(r, a, d)[l] = a[l - 1]
    BY <1>3, <2>1
  <2> QED  BY <1>2, <1>3, <1>5, <2>1, <2>2 DEF PtAtDepth
<1> QED  BY <1>2, <1>3, <1>4, <1>5

LEMMA PtWindowDepth ==
  ASSUME NEW r \in PtSelfRefs, NEW a \in PtAddresses, NEW d \in 0..(PtLevels - 1),
         \A l \in 1..d : a[l] # PtSentinel
  PROVE  PtAtDepth(PtWindow(r, a, d), d)
BY PtWindowIs, PtConstants

LEMMA PtWindowBelow ==
  ASSUME NEW r \in PtIdx, NEW a \in PtAddresses, NEW d \in 1..(PtLevels - 1)
  PROVE  PtWindow(r, a, d) = [PtWindow(r, a, d - 1) EXCEPT ![d + 1] = a[d]]
<1> DEFINE v == PtWindow(r, a, d - 1)
           w == PtWindow(r, a, d)
<1>1. d \in Nat /\ d + 1 \in 2..PtLevels /\ d - 1 \in 0..(PtLevels - 1) /\ PtLevels \in Nat
  BY PtConstants
<1>2. /\ DOMAIN v = 1..PtLevels /\ DOMAIN w = 1..PtLevels
      /\ w = [l \in 1..PtLevels |-> w[l]]
  BY DEF PtWindow
<1>3. w[d + 1] = a[d]
  BY <1>1 DEF PtWindow
<1>4. ASSUME NEW l \in 1..PtLevels, l # d + 1
      PROVE  w[l] = v[l]
  <2>1. l <= d + 1 <=> l <= (d - 1) + 1
    BY <1>1, <1>4
  <2> QED  BY <2>1 DEF PtWindow
<1> HIDE DEF v, w
<1>5. w = [v EXCEPT ![d + 1] = a[d]]
  BY <1>1, <1>2, <1>3, <1>4
<1> QED  BY <1>5 DEF v, w

LEMMA PtWindowSame ==
  ASSUME NEW r, NEW a, NEW d, NEW b, \A l \in 1..d : a[l] = b[l], d \in Nat
  PROVE  PtWindow(r, a, d) = PtWindow(r, b, d)
<1>1. \A l \in 1..PtLevels : l # 1 /\ l <= d + 1 => l - 1 \in 1..d
  BY PtConstants
<1> QED  BY <1>1 DEF PtWindow

LEMMA PtDepthUnique ==
  ASSUME NEW w, NEW d, NEW e, PtAtDepth(w, d), PtAtDepth(w, e)
  PROVE  d = e
<1>1. d \in 0..(PtLevels - 1) /\ e \in 0..(PtLevels - 1)
  BY DEF PtAtDepth
<1>2. ASSUME NEW m, NEW n, PtAtDepth(w, m), PtAtDepth(w, n), m < n
      PROVE  FALSE
  <2>1. m \in 0..(PtLevels - 1) /\ n \in 0..(PtLevels - 1)
    BY <1>2 DEF PtAtDepth
  <2>2. n + 1 \in 2..(n + 1) /\ n + 1 \in (m + 2)..PtLevels
    BY <1>2, <2>1, PtConstants
  <2>3. w[n + 1] # PtSentinel
    BY <1>2, <2>2 DEF PtAtDepth
  <2>4. w[n + 1] = PtSentinel
    BY <1>2, <2>2 DEF PtAtDepth
  <2> QED  BY <2>3, <2>4
<1>3. d \in Int /\ e \in Int
  BY <1>1, PtConstants
<1>4. ~(d < e) /\ ~(e < d)
  BY <1>2
<1> QED  BY <1>3, <1>4

LEMMA PtTopWindow ==
  ASSUME NEW w, PtAtDepth(w, 0)
  PROVE  w = PtWindow(w[1], <<>>, 0)
<1>1. w \in PtWindows /\ \A l \in 2..PtLevels : w[l] = PtSentinel
  BY DEF PtAtDepth
<1>2. \A l \in 1..PtLevels : w[l] = PtWindow(w[1], <<>>, 0)[l]
  BY <1>1, PtConstants DEF PtWindow
<1> QED  BY <1>1, <1>2, PtConstants DEF PtWindow, PtWindows

-----------------------------------------------------------------------------
\* u is s where one entry of one table was written, or one frame was handed out, for a table
\* with the window w or, where w is NoWindow, for data.
PtWrote(s, u, f, i, e) ==
  /\ u.mirrors = s.mirrors /\ u.next = s.next
  /\ \A g \in PtFrames, j \in PtIdx :
       /\ u.phys[g][j] = IF g = f /\ j = i THEN e ELSE s.phys[g][j]
       /\ PtSeen(u)[g][j] = IF g = f /\ j = i THEN e ELSE PtSeen(s)[g][j]
PtGrown(s, u, w) ==
  /\ u.next = s.next + 1 /\ s.next \in PtFrames
  /\ \A g \in PtFrames : u.mirrors[g] = IF g = s.next THEN w ELSE s.mirrors[g]
  /\ \A g \in PtFrames, j \in PtIdx :
       u.phys[g][j] = s.phys[g][j] /\ PtSeen(u)[g][j] = PtSeen(s)[g][j]
  /\ \A j \in PtIdx : s.phys[s.next][j] = PtZero /\ PtSeen(s)[s.next][j] = PtZero

LEMMA PtSeenTyped ==
  ASSUME NEW s \in PtStates
  PROVE  /\ PtSeen(s) \in [PtFrames -> PtRows] /\ s.phys \in [PtFrames -> PtRows]
         /\ \A f \in PtFrames, i \in PtIdx : PtBoth(s, f, i) \subseteq PtEntries
<1>1. /\ s.phys \in [PtFrames -> PtRows] /\ s.alias \in [PtWindows -> PtRows \cup {PtNoPage}]
      /\ s.mirrors \in [PtFrames -> PtWindows \cup {NoWindow}]
  BY DEF PtStates
<1>2. PtSeen(s) \in [PtFrames -> PtRows]
  BY <1>1 DEF PtSeen
<1> QED  BY <1>1, <1>2 DEF PtBoth, PtRows

LEMMA PtRowTyped ==
  ASSUME NEW phys \in [PtFrames -> PtRows], NEW f \in PtFrames, NEW i \in PtIdx,
         NEW e \in PtEntries
  PROVE  [phys EXCEPT ![f][i] = e] \in [PtFrames -> PtRows]
<1>1. [phys[f] EXCEPT ![i] = e] \in PtRows
  BY DEF PtRows
<1> QED  BY <1>1

LEMMA PtPokeWrites ==
  ASSUME NEW s, PtBooks(s), NEW f \in 1..(s.next - 1), NEW i \in PtIdx, NEW e \in PtEntries
  PROVE  LET u == PtPoke(s, f, i, e)
         IN  PtBooks(u) /\ PtWrote(s, u, f, i, e) /\ u.table = s.table /\ u.threw = s.threw
<1> DEFINE u == PtPoke(s, f, i, e)
           w == s.mirrors[f]
           page == IF s.alias[w] = PtNoPage THEN PtBlank ELSE s.alias[w]
<1>1. s \in PtStates
  BY DEF PtBooks
<1>2. /\ s.phys \in [PtFrames -> PtRows] /\ s.alias \in [PtWindows -> PtRows \cup {PtNoPage}]
      /\ s.mirrors \in [PtFrames -> PtWindows \cup {NoWindow}] /\ s.next \in 1..PtForeign
      /\ s.table \in 0..PtForeign /\ s.threw \in BOOLEAN
  BY <1>1 DEF PtStates
<1>3. f \in PtFrames /\ f < s.next
  BY <1>2, PtConstants
<1>4. CASE w = NoWindow
  <2>1. u = [s EXCEPT !.phys[f][i] = e]
    BY <1>4 DEF PtPoke
  <2>2. /\ u.phys = [s.phys EXCEPT ![f][i] = e] /\ u.alias = s.alias /\ u.mirrors = s.mirrors
        /\ u.next = s.next /\ u.table = s.table /\ u.threw = s.threw
    BY <1>1, <2>1 DEF PtStates
  <2>3. u.phys \in [PtFrames -> PtRows]
    BY <1>2, <1>3, <2>2, PtRowTyped
  <2>4. u \in PtStates
    BY <1>1, <2>1, <2>3, <2>2 DEF PtStates
  <2>5. \A g \in PtFrames : g # f => u.phys[g] = s.phys[g]
    BY <1>2, <2>2
  <2>6. PtBooks(u)
    BY <1>2, <1>3, <1>4, <2>2, <2>4, <2>5, PtConstants DEF PtBooks
  <2>7. \A g \in PtFrames, j \in PtIdx :
          u.phys[g][j] = IF g = f /\ j = i THEN e ELSE s.phys[g][j]
    BY <1>2, <1>3, <2>2 DEF PtRows
  <2>8. PtSeen(u)[f] = u.phys[f] /\ PtSeen(s)[f] = s.phys[f]
    BY <1>3, <1>4, <2>2 DEF PtSeen
  <2>9. \A g \in PtFrames : g # f => PtSeen(u)[g] = PtSeen(s)[g]
    BY <2>2, <2>5 DEF PtSeen
  <2>10. \A g \in PtFrames, j \in PtIdx :
          PtSeen(u)[g][j] = IF g = f /\ j = i THEN e ELSE PtSeen(s)[g][j]
    BY <2>7, <2>8, <2>9
  <2>11. PtWrote(s, u, f, i, e)
    BY <2>2, <2>7, <2>10 DEF PtWrote
  <2> QED  BY <2>2, <2>6, <2>11
<1>5. CASE w # NoWindow
  <2> HIDE DEF page
  <2>1. u = [s EXCEPT !.phys[f][i] = e, !.alias[w] = [page EXCEPT ![i] = e]]
    BY <1>5 DEF PtPoke, page
  <2>2. /\ u.phys = [s.phys EXCEPT ![f][i] = e]
        /\ u.alias = [s.alias EXCEPT ![w] = [page EXCEPT ![i] = e]]
        /\ u.mirrors = s.mirrors
        /\ u.next = s.next /\ u.table = s.table /\ u.threw = s.threw
    BY <1>1, <2>1 DEF PtStates
  <2>3. w \in PtWindows /\ page \in PtRows
    BY <1>2, <1>3, <1>5, PtConstants DEF page
  <2> DEFINE row == [page EXCEPT ![i] = e]
  <2>4. row \in PtRows /\ \A j \in PtIdx : row[j] = IF j = i THEN e ELSE page[j]
    BY <2>3 DEF PtRows
  <2>5. u.alias = [s.alias EXCEPT ![w] = row]
    BY <2>2
  <2> HIDE DEF row
  <2>6. u.phys \in [PtFrames -> PtRows]
    BY <1>2, <1>3, <2>2, PtRowTyped
  <2>7. u.alias \in [PtWindows -> PtRows \cup {PtNoPage}]
    BY <1>2, <2>4, <2>5
  <2>8. u \in PtStates
    BY <1>1, <2>1, <2>6, <2>7, <2>2 DEF PtStates
  <2>9. /\ \A g \in PtFrames : g # f => u.phys[g] = s.phys[g]
        /\ \A v \in PtWindows : v # w => u.alias[v] = s.alias[v]
        /\ u.alias[w] = row /\ row # PtNoPage
    BY <1>2, <2>2, <2>3, <2>4, <2>5, PtConstants
  <2>10. \A g \in PtFrames : s.mirrors[g] = w => g = f
    BY <1>3, <1>5 DEF PtBooks
  <2>11. PtBooks(u)
    <3>1. \A g \in PtFrames : g >= u.next => u.mirrors[g] = NoWindow /\ u.phys[g] = PtBlank
      BY <1>2, <1>3, <2>2, <2>9, PtConstants DEF PtBooks
    <3>2. \A g, h \in PtFrames : u.mirrors[g] = u.mirrors[h] /\ u.mirrors[g] # NoWindow => g = h
      BY <2>2 DEF PtBooks
    <3>3. ASSUME NEW g \in PtFrames, u.mirrors[g] # NoWindow
          PROVE  /\ \E d \in 0..(PtLevels - 1) : PtAtDepth(u.mirrors[g], d)
                 /\ u.alias[u.mirrors[g]] = PtNoPage => u.phys[g] = PtBlank
      <4>1. CASE g = f
        BY <1>3, <1>5, <2>2, <2>9, <4>1 DEF PtBooks
      <4>2. CASE g # f
        <5>1. s.mirrors[g] # w /\ s.mirrors[g] \in PtWindows
          BY <1>2, <2>2, <2>10, <3>3, <4>2
        <5> QED  BY <2>2, <2>9, <3>3, <4>2, <5>1 DEF PtBooks
      <4> QED  BY <4>1, <4>2
    <3>4. \A v \in PtWindows : u.alias[v] # PtNoPage => \E g \in PtFrames : u.mirrors[g] = v
      <4>1. ASSUME NEW v \in PtWindows, u.alias[v] # PtNoPage
            PROVE  \E g \in PtFrames : s.mirrors[g] = v
        <5>1. CASE v = w
          BY <1>3, <5>1
        <5>2. CASE v # w
          BY <2>9, <4>1, <5>2 DEF PtBooks
        <5> QED  BY <5>1, <5>2
      <4> QED  BY <2>2, <4>1
    <3> QED  BY <2>8, <3>1, <3>2, <3>3, <3>4 DEF PtBooks
  <2>12. \A g \in PtFrames, j \in PtIdx :
          u.phys[g][j] = IF g = f /\ j = i THEN e ELSE s.phys[g][j]
    BY <1>2, <1>3, <2>2 DEF PtRows
  <2>13. PtSeen(u)[f] = row /\ PtSeen(s)[f] = page
    <3>1. PtSeen(u)[f] = row
      BY <1>3, <1>5, <2>2, <2>9 DEF PtSeen
    <3>2. PtSeen(s)[f] = page
      <4>1. s.alias[w] = PtNoPage => s.phys[f] = PtBlank
        BY <1>3, <1>5 DEF PtBooks
      <4> QED  BY <1>3, <1>5, <4>1 DEF PtSeen, page
    <3> QED  BY <3>1, <3>2
  <2>14. ASSUME NEW g \in PtFrames, g # f
         PROVE  PtSeen(u)[g] = PtSeen(s)[g]
    <3>1. CASE s.mirrors[g] = NoWindow
      BY <2>2, <2>9, <2>14, <3>1 DEF PtSeen
    <3>2. CASE s.mirrors[g] # NoWindow
      <4>1. s.mirrors[g] # w /\ s.mirrors[g] \in PtWindows
        BY <1>2, <2>10, <2>14, <3>2
      <4> QED  BY <2>2, <2>9, <2>14, <4>1 DEF PtSeen
    <3> QED  BY <3>1, <3>2
  <2> QED  BY <2>2, <2>4, <2>11, <2>12, <2>13, <2>14 DEF PtWrote
<1> QED  BY <1>4, <1>5

LEMMA PtFrameGrows ==
  ASSUME NEW s, PtBooks(s), s.next < PtForeign
  PROVE  LET u == PtAllocFrame(s)
         IN  /\ PtBooks(u) /\ PtGrown(s, u, NoWindow)
             /\ u.mirrors = s.mirrors /\ u.phys = s.phys /\ u.alias = s.alias
             /\ u.table = s.table /\ u.threw = s.threw /\ u.next = s.next + 1
<1> DEFINE u == PtAllocFrame(s)
<1>1. s \in PtStates
  BY DEF PtBooks
<1>2. /\ s.phys \in [PtFrames -> PtRows] /\ s.alias \in [PtWindows -> PtRows \cup {PtNoPage}]
      /\ s.mirrors \in [PtFrames -> PtWindows \cup {NoWindow}] /\ s.next \in 1..PtForeign
      /\ s.next \in PtFrames /\ s.next + 1 \in 1..PtForeign
  BY <1>1, PtConstants DEF PtStates
<1>3. s.phys[s.next] = PtBlank /\ s.mirrors[s.next] = NoWindow
  BY <1>2, PtConstants DEF PtBooks
<1>4. u = [s EXCEPT !.phys[s.next] = PtBlank, !.next = @ + 1]
  BY DEF PtAllocFrame
<1>5. [s.phys EXCEPT ![s.next] = PtBlank] = s.phys
  BY <1>2, <1>3
<1>6. /\ u.phys = s.phys /\ u.mirrors = s.mirrors /\ u.alias = s.alias
      /\ u.table = s.table /\ u.threw = s.threw /\ u.next = s.next + 1
  BY <1>1, <1>4, <1>5 DEF PtStates
<1>7. u \in PtStates
  BY <1>1, <1>2, <1>4, <1>5, <1>6 DEF PtStates
<1>8. PtSeen(u) = PtSeen(s)
  BY <1>6 DEF PtSeen
<1>9. PtBooks(u)
  BY <1>2, <1>6, <1>7, PtConstants DEF PtBooks
<1>10. PtSeen(s)[s.next] = PtBlank
  BY <1>2, <1>3 DEF PtSeen
<1> QED  BY <1>2, <1>3, <1>6, <1>8, <1>9, <1>10, PtConstants DEF PtGrown

LEMMA PtStructGrows ==
  ASSUME NEW s, PtBooks(s), s.next < PtForeign, NEW d, NEW w, PtAtDepth(w, d)
  PROVE  LET u == PtAllocStruct(s, w)
         IN  /\ PtBooks(u)
             /\ \/ /\ \E f \in PtFrames : s.mirrors[f] = w
                   /\ u.threw /\ PtGrown(s, u, NoWindow)
                \/ /\ \A f \in PtFrames : s.mirrors[f] # w
                   /\ u.threw = s.threw /\ u.table = s.next /\ PtGrown(s, u, w)
<1> DEFINE u == PtAllocStruct(s, w)
           a == PtAllocFrame(s)
<1>1. s \in PtStates /\ w \in PtWindows /\ d \in 0..(PtLevels - 1)
  BY DEF PtBooks, PtAtDepth
<1>2. /\ s.mirrors \in [PtFrames -> PtWindows \cup {NoWindow}] /\ s.next \in 1..PtForeign
      /\ s.next \in PtFrames /\ w # NoWindow
  BY <1>1, PtConstants DEF PtStates
<1>3. /\ PtBooks(a) /\ PtGrown(s, a, NoWindow)
      /\ a.mirrors = s.mirrors /\ a.phys = s.phys /\ a.alias = s.alias
      /\ a.table = s.table /\ a.threw = s.threw /\ a.next = s.next + 1
  BY PtFrameGrows
<1>4. a \in PtStates
  BY <1>3 DEF PtBooks
<1>5. CASE \E f \in PtFrames : s.mirrors[f] = w
  <2>1. u = [a EXCEPT !.threw = TRUE]
    BY <1>5 DEF PtAllocStruct
  <2> HIDE DEF a
  <2>2. /\ u.phys = a.phys /\ u.mirrors = a.mirrors /\ u.alias = a.alias
        /\ u.next = a.next /\ u.threw /\ u \in PtStates
    BY <1>4, <2>1 DEF PtStates
  <2>3. PtSeen(u) = PtSeen(a)
    BY <2>2 DEF PtSeen
  <2>4. PtBooks(u)
    BY <1>3, <2>2 DEF PtBooks
  <2>5. PtGrown(s, u, NoWindow)
    BY <1>3, <2>2, <2>3 DEF PtGrown
  <2> HIDE DEF u
  <2> QED  BY <1>5, <2>2, <2>4, <2>5 DEF u
<1>6. CASE \A f \in PtFrames : s.mirrors[f] # w
  <2>1. u = [a EXCEPT !.mirrors[s.next] = w, !.table = s.next]
    BY <1>6 DEF PtAllocStruct
  <2> HIDE DEF a
  <2>2. /\ u.phys = s.phys /\ u.mirrors = [s.mirrors EXCEPT ![s.next] = w] /\ u.alias = s.alias
        /\ u.next = s.next + 1 /\ u.threw = s.threw /\ u.table = s.next
    BY <1>3, <1>4, <2>1 DEF PtStates
  <2>3. u.mirrors \in [PtFrames -> PtWindows \cup {NoWindow}]
    BY <1>1, <1>2, <2>2
  <2>4. u \in PtStates
    <3>1. u.next \in 1..PtForeign /\ u.table \in 0..PtForeign
      BY <1>2, <2>2, PtConstants
    <3> QED  BY <1>4, <2>1, <2>3, <3>1 DEF PtStates
  <2>5. \A g \in PtFrames : u.mirrors[g] = IF g = s.next THEN w ELSE s.mirrors[g]
    BY <1>2, <2>2
  <2>6. s.phys[s.next] = PtBlank /\ s.alias[w] = PtNoPage /\ s.mirrors[s.next] = NoWindow
    BY <1>1, <1>2, <1>6, PtConstants DEF PtBooks
  <2>7. PtBooks(u)
    <3>1. \A g \in PtFrames : g >= u.next => u.mirrors[g] = NoWindow /\ u.phys[g] = PtBlank
      BY <1>2, <2>2, <2>5, PtConstants DEF PtBooks
    <3>2. \A g, h \in PtFrames : u.mirrors[g] = u.mirrors[h] /\ u.mirrors[g] # NoWindow => g = h
      BY <1>6, <2>5 DEF PtBooks
    <3>3. ASSUME NEW g \in PtFrames, u.mirrors[g] # NoWindow
          PROVE  /\ \E e \in 0..(PtLevels - 1) : PtAtDepth(u.mirrors[g], e)
                 /\ u.alias[u.mirrors[g]] = PtNoPage => u.phys[g] = PtBlank
      <4>1. CASE g = s.next
        BY <1>1, <2>2, <2>5, <2>6, <4>1
      <4>2. CASE g # s.next
        BY <2>2, <2>5, <3>3, <4>2 DEF PtBooks
      <4> QED  BY <4>1, <4>2
    <3>4. \A v \in PtWindows : u.alias[v] # PtNoPage => \E g \in PtFrames : u.mirrors[g] = v
      <4>1. ASSUME NEW v \in PtWindows, u.alias[v] # PtNoPage
            PROVE  \E g \in PtFrames : u.mirrors[g] = v
        <5>1. PICK g \in PtFrames : s.mirrors[g] = v
          BY <2>2, <4>1 DEF PtBooks
        <5>2. g # s.next
          BY <2>6, <4>1, <5>1, PtConstants
        <5> QED  BY <2>5, <5>1, <5>2
      <4> QED  BY <4>1
    <3> QED  BY <2>4, <3>1, <3>2, <3>3, <3>4 DEF PtBooks
  <2>8. \A g \in PtFrames : PtSeen(u)[g] = PtSeen(s)[g]
    BY <2>2, <2>5, <2>6 DEF PtSeen
  <2>9. PtSeen(s)[s.next] = PtBlank
    BY <1>2, <2>6 DEF PtSeen
  <2>10. PtGrown(s, u, w)
    BY <1>2, <2>2, <2>5, <2>6, <2>8, <2>9, PtConstants DEF PtGrown
  <2> HIDE DEF u
  <2> QED  BY <1>6, <2>2, <2>7, <2>10 DEF u
<1> QED  BY <1>5, <1>6

-----------------------------------------------------------------------------
LEMMA PtTyped ==
  ASSUME NEW s, PtBooks(s)
  PROVE  /\ s \in PtStates /\ s.next \in 1..PtForeign /\ s.table \in 0..PtForeign
         /\ s.threw \in BOOLEAN
         /\ s.mirrors \in [PtFrames -> PtWindows \cup {NoWindow}]
         /\ 1..(s.next - 1) \subseteq PtFrames
         /\ \A f \in PtFrames : s.mirrors[f] # NoWindow => f \in 1..(s.next - 1)
         /\ \A f \in PtFrames, i \in PtIdx :
              /\ s.phys[f][i] \in PtEntries /\ PtSeen(s)[f][i] \in PtEntries
              /\ s.phys[f][i].frame \in 0..PtForeign /\ PtSeen(s)[f][i].frame \in 0..PtForeign
<1>1. s \in PtStates
  BY DEF PtBooks
<1>2. /\ s.next \in 1..PtForeign /\ s.table \in 0..PtForeign /\ s.threw \in BOOLEAN
      /\ s.mirrors \in [PtFrames -> PtWindows \cup {NoWindow}]
  BY <1>1 DEF PtStates
<1>3. \A f \in PtFrames : s.mirrors[f] # NoWindow => f \in 1..(s.next - 1)
  BY <1>2, PtConstants DEF PtBooks
<1>4. \A f \in PtFrames, i \in PtIdx :
        s.phys[f][i] \in PtEntries /\ PtSeen(s)[f][i] \in PtEntries
  BY <1>1, PtSeenTyped DEF PtRows
<1>5. \A e \in PtEntries : e.frame \in 0..PtForeign
  BY DEF PtEntries
<1> QED  BY <1>1, <1>2, <1>3, <1>4, <1>5, PtConstants

\* Whatever holds of both copies of an entry.
LEMMA PtBothAre ==
  ASSUME NEW s, NEW f, NEW i, NEW e
  PROVE  e \in PtBoth(s, f, i) <=> e = s.phys[f][i] \/ e = PtSeen(s)[f][i]
BY DEF PtBoth

LEMMA PtBothTyped ==
  ASSUME NEW s, PtBooks(s), NEW f \in PtFrames, NEW i \in PtIdx, NEW e \in PtBoth(s, f, i)
  PROVE  /\ e \in PtEntries /\ e.frame \in 0..PtForeign
         /\ e.frame # 0 => e.frame \in PtFrames
<1>1. e = s.phys[f][i] \/ e = PtSeen(s)[f][i]
  BY DEF PtBoth
<1>2. e \in PtEntries /\ e.frame \in 0..PtForeign
  BY <1>1, PtTyped
<1> QED  BY <1>2, PtConstants

LEMMA PtBothWrote ==
  ASSUME NEW s, NEW u, NEW f, NEW i, NEW e, PtWrote(s, u, f, i, e),
         NEW g \in PtFrames, NEW j \in PtIdx
  PROVE  PtBoth(u, g, j) = IF g = f /\ j = i THEN {e} ELSE PtBoth(s, g, j)
BY DEF PtBoth, PtWrote

LEMMA PtBothGrown ==
  ASSUME NEW s, NEW u, NEW w, PtGrown(s, u, w), NEW g \in PtFrames, NEW j \in PtIdx
  PROVE  PtBoth(u, g, j) = PtBoth(s, g, j) /\ (g = s.next => PtBoth(u, g, j) = {PtZero})
BY DEF PtBoth, PtGrown

\* The tree stays one while frames are handed out.
LEMMA PtTreeGrown ==
  ASSUME NEW s, PtBooks(s), PtTree(s), NEW u, NEW w, PtGrown(s, u, w)
  PROVE  PtTree(u)
<1>1. \A f \in PtFrames, i \in PtIdx :
        PtBoth(u, f, i) = PtBoth(s, f, i) /\ (f = s.next => PtBoth(u, f, i) = {PtZero})
  BY PtBothGrown
<1>2. /\ u.next = s.next + 1 /\ s.next \in PtFrames
      /\ \A g \in PtFrames : u.mirrors[g] = IF g = s.next THEN w ELSE s.mirrors[g]
  BY DEF PtGrown
<1>3. s.next \in Nat /\ \A f \in PtFrames : s.mirrors[f] # NoWindow => f \in 1..(s.next - 1)
  BY PtTyped, PtConstants
<1>4. s.mirrors[s.next] = NoWindow
  BY <1>2, <1>3
<1>5. ASSUME NEW f \in PtFrames, NEW i \in PtIdx, NEW e \in PtBoth(s, f, i)
      PROVE  e.frame \in 0..PtForeign /\ (e.frame # 0 => e.frame \in PtFrames)
  BY PtBothTyped
<1>6. \A f \in PtFrames, i \in PtIdx : \A e \in PtBoth(u, f, i) : e.frame = 0 => e = PtZero
  BY <1>1 DEF PtTree
<1>7. ASSUME NEW f \in PtFrames, NEW d \in 0..(PtLevels - 2), NEW i \in PtIdx,
             PtAtDepth(u.mirrors[f], d), NEW e \in PtBoth(u, f, i), e.frame # 0
      PROVE  PtLeads(u, f, d, i, e.frame)
  <2>1. f # s.next
    BY <1>1, <1>7, PtConstants
  <2>2. u.mirrors[f] = s.mirrors[f] /\ e \in PtBoth(s, f, i)
    BY <1>1, <1>2, <1>7, <2>1
  <2>3. PtLeads(s, f, d, i, e.frame)
    BY <1>7, <2>2 DEF PtTree
  <2>4. e.frame \in PtFrames
    BY <1>5, <1>7, <2>2
  <2>5. e.frame # s.next
    <3>1. CASE e.frame = f
      BY <2>1, <3>1
    <3>2. CASE s.mirrors[e.frame] = [s.mirrors[f] EXCEPT ![d + 2] = i]
      <4>1. s.mirrors[f] \in PtWindows
        BY <1>7, <2>2 DEF PtAtDepth
      <4>2. [s.mirrors[f] EXCEPT ![d + 2] = i] \in PtWindows
        BY <4>1 DEF PtWindows
      <4> QED  BY <1>4, <3>2, <4>2, PtConstants
    <3>3. CASE e.frame < s.next
      BY <1>3, <3>3
    <3> QED  BY <2>3, <3>1, <3>2, <3>3 DEF PtLeads
  <2>6. u.mirrors[e.frame] = s.mirrors[e.frame]
    BY <1>2, <2>4, <2>5
  <2>7. e.frame < s.next => e.frame < u.next
    BY <1>2, <1>3, <2>4, PtConstants
  <2> QED  BY <2>2, <2>3, <2>6, <2>7 DEF PtLeads
<1>8. ASSUME NEW f \in PtFrames, NEW i \in PtIdx, PtAtDepth(u.mirrors[f], PtLevels - 2),
             NEW e1 \in PtBoth(u, f, i), NEW e2 \in PtBoth(u, f, i), e1.frame # 0, e2.frame # 0
      PROVE  e1.frame = e2.frame
  <2>1. f # s.next
    BY <1>1, <1>8, PtConstants
  <2> QED  BY <1>1, <1>2, <1>8, <2>1 DEF PtTree
<1>9. ASSUME NEW f1 \in PtFrames, NEW f2 \in PtFrames, NEW i1 \in PtIdx, NEW i2 \in PtIdx,
             PtAtDepth(u.mirrors[f1], PtLevels - 2), PtAtDepth(u.mirrors[f2], PtLevels - 2),
             NEW e1 \in PtBoth(u, f1, i1), NEW e2 \in PtBoth(u, f2, i2),
             e1.frame = e2.frame, e1.frame # 0, u.mirrors[e1.frame] = NoWindow
      PROVE  f1 = f2 /\ i1 = i2
  <2>1. f1 # s.next /\ f2 # s.next
    BY <1>1, <1>9, PtConstants
  <2>2. /\ PtAtDepth(s.mirrors[f1], PtLevels - 2) /\ PtAtDepth(s.mirrors[f2], PtLevels - 2)
        /\ e1 \in PtBoth(s, f1, i1) /\ e2 \in PtBoth(s, f2, i2)
    BY <1>1, <1>2, <1>9, <2>1
  <2>3. s.mirrors[e1.frame] = NoWindow
    BY <1>2, <1>4, <1>5, <1>9, <2>2
  <2> QED  BY <1>9, <2>2, <2>3 DEF PtTree
<1>10. ASSUME NEW f \in PtFrames, NEW i \in PtIdx,
              u.mirrors[f] = NoWindow \/ PtAtDepth(u.mirrors[f], PtLevels - 1),
              NEW e \in PtBoth(u, f, i)
       PROVE  e.frame # f
  <2>1. CASE f = s.next
    BY <1>1, <1>10, <2>1, PtConstants
  <2>2. CASE f # s.next
    BY <1>1, <1>2, <1>10, <2>2 DEF PtTree
  <2> QED  BY <2>1, <2>2
<1> QED  BY <1>6, <1>7, <1>8, <1>9, <1>10 DEF PtTree

\* What an entry may be written with.
PtFits(s, f, i, e) ==
  /\ e.frame = 0 => e = PtZero
  /\ \A d \in 0..(PtLevels - 2) : PtAtDepth(s.mirrors[f], d) /\ e.frame # 0 =>
       PtLeads(s, f, d, i, e.frame)
  /\ PtAtDepth(s.mirrors[f], PtLevels - 2) /\ e.frame # 0 /\ s.mirrors[e.frame] = NoWindow =>
       \A g \in PtFrames, j \in PtIdx : \A x \in PtBoth(s, g, j) :
         PtAtDepth(s.mirrors[g], PtLevels - 2) /\ x.frame = e.frame => g = f /\ j = i
  /\ s.mirrors[f] = NoWindow \/ PtAtDepth(s.mirrors[f], PtLevels - 1) => e.frame # f

LEMMA PtTreeWrote ==
  ASSUME NEW s, PtBooks(s), PtTree(s), NEW f \in PtFrames, NEW i \in PtIdx,
         NEW e, PtFits(s, f, i, e), NEW u, PtWrote(s, u, f, i, e)
  PROVE  PtTree(u)
<1>1. \A g \in PtFrames, j \in PtIdx :
        PtBoth(u, g, j) = IF g = f /\ j = i THEN {e} ELSE PtBoth(s, g, j)
  BY PtBothWrote
<1>2. u.mirrors = s.mirrors /\ u.next = s.next
  BY DEF PtWrote
<1>3. \A g \in PtFrames, j \in PtIdx : \A x \in PtBoth(u, g, j) : x.frame = 0 => x = PtZero
  BY <1>1 DEF PtTree, PtFits
<1>4. ASSUME NEW g \in PtFrames, NEW d \in 0..(PtLevels - 2), NEW j \in PtIdx,
             PtAtDepth(u.mirrors[g], d), NEW x \in PtBoth(u, g, j), x.frame # 0
      PROVE  PtLeads(u, g, d, j, x.frame)
  <2>1. PtLeads(s, g, d, j, x.frame)
    <3>1. CASE g = f /\ j = i
      BY <1>1, <1>2, <1>4, <3>1 DEF PtFits
    <3>2. CASE ~(g = f /\ j = i)
      BY <1>1, <1>2, <1>4, <3>2 DEF PtTree
    <3> QED  BY <3>1, <3>2
  <2> QED  BY <1>2, <2>1 DEF PtLeads
<1>5. ASSUME NEW g \in PtFrames, NEW j \in PtIdx, PtAtDepth(u.mirrors[g], PtLevels - 2),
             NEW e1 \in PtBoth(u, g, j), NEW e2 \in PtBoth(u, g, j), e1.frame # 0, e2.frame # 0
      PROVE  e1.frame = e2.frame
  <2>1. CASE g = f /\ j = i
    BY <1>1, <1>5, <2>1
  <2>2. CASE ~(g = f /\ j = i)
    BY <1>1, <1>2, <1>5, <2>2 DEF PtTree
  <2> QED  BY <2>1, <2>2
<1>6. ASSUME NEW f1 \in PtFrames, NEW f2 \in PtFrames, NEW i1 \in PtIdx, NEW i2 \in PtIdx,
             PtAtDepth(u.mirrors[f1], PtLevels - 2), PtAtDepth(u.mirrors[f2], PtLevels - 2),
             NEW e1 \in PtBoth(u, f1, i1), NEW e2 \in PtBoth(u, f2, i2),
             e1.frame = e2.frame, e1.frame # 0, u.mirrors[e1.frame] = NoWindow
      PROVE  f1 = f2 /\ i1 = i2
  <2>1. CASE f1 = f /\ i1 = i /\ ~(f2 = f /\ i2 = i)
    <3>1. e1 = e /\ e2 \in PtBoth(s, f2, i2)
      BY <1>1, <2>1
    <3> QED  BY <1>2, <1>6, <2>1, <3>1 DEF PtFits
  <2>2. CASE f2 = f /\ i2 = i /\ ~(f1 = f /\ i1 = i)
    <3>1. e2 = e /\ e1 \in PtBoth(s, f1, i1)
      BY <1>1, <2>2
    <3> QED  BY <1>2, <1>6, <2>2, <3>1 DEF PtFits
  <2>3. CASE ~(f1 = f /\ i1 = i) /\ ~(f2 = f /\ i2 = i)
    <3>1. e1 \in PtBoth(s, f1, i1) /\ e2 \in PtBoth(s, f2, i2)
      BY <1>1, <2>3
    <3> QED  BY <1>2, <1>6, <3>1 DEF PtTree
  <2> QED  BY <2>1, <2>2, <2>3
<1>7. ASSUME NEW g \in PtFrames, NEW j \in PtIdx,
             u.mirrors[g] = NoWindow \/ PtAtDepth(u.mirrors[g], PtLevels - 1),
             NEW x \in PtBoth(u, g, j)
      PROVE  x.frame # g
  <2>1. CASE g = f /\ j = i
    BY <1>1, <1>2, <1>7, <2>1 DEF PtFits
  <2>2. CASE ~(g = f /\ j = i)
    BY <1>1, <1>2, <1>7, <2>2 DEF PtTree
  <2> QED  BY <2>1, <2>2
<1> QED  BY <1>3, <1>4, <1>5, <1>6, <1>7 DEF PtTree

\* Entries that were cleared, or lead where one of the copies led.
PtThinner(s, u) ==
  /\ u.mirrors = s.mirrors /\ u.next = s.next
  /\ \A f \in PtFrames, i \in PtIdx : \A e \in PtBoth(u, f, i) :
       e = PtZero \/ \E x \in PtBoth(s, f, i) : x.frame # 0 /\ e.frame = x.frame

LEMMA PtTreeThinner ==
  ASSUME NEW s, PtTree(s), NEW u, PtThinner(s, u)
  PROVE  PtTree(u)
<1>1. u.mirrors = s.mirrors /\ u.next = s.next
  BY DEF PtThinner
<1>2. \A f \in PtFrames, i \in PtIdx : \A e \in PtBoth(u, f, i) :
        /\ e.frame = 0 => e = PtZero
        /\ e.frame # 0 => \E x \in PtBoth(s, f, i) : x.frame # 0 /\ e.frame = x.frame
  BY PtConstants DEF PtThinner
<1>3. \A f \in PtFrames, d \in 0..(PtLevels - 2), i \in PtIdx : PtAtDepth(u.mirrors[f], d) =>
       \A e \in PtBoth(u, f, i) : e.frame # 0 => PtLeads(u, f, d, i, e.frame)
  <2>1. ASSUME NEW f \in PtFrames, NEW d \in 0..(PtLevels - 2), NEW i \in PtIdx,
               PtAtDepth(u.mirrors[f], d), NEW e \in PtBoth(u, f, i), e.frame # 0
        PROVE  PtLeads(u, f, d, i, e.frame)
    <3>1. PICK x \in PtBoth(s, f, i) : x.frame # 0 /\ e.frame = x.frame
      BY <1>2, <2>1
    <3>2. PtLeads(s, f, d, i, x.frame)
      BY <1>1, <2>1, <3>1 DEF PtTree
    <3> QED  BY <1>1, <3>1, <3>2 DEF PtLeads
  <2> QED  BY <2>1
<1>4. \A f \in PtFrames, i \in PtIdx : PtAtDepth(u.mirrors[f], PtLevels - 2) =>
       \A e1, e2 \in PtBoth(u, f, i) : e1.frame # 0 /\ e2.frame # 0 => e1.frame = e2.frame
  <2>1. ASSUME NEW f \in PtFrames, NEW i \in PtIdx, PtAtDepth(u.mirrors[f], PtLevels - 2),
               NEW e1 \in PtBoth(u, f, i), NEW e2 \in PtBoth(u, f, i), e1.frame # 0, e2.frame # 0
        PROVE  e1.frame = e2.frame
    <3>1. PICK x1 \in PtBoth(s, f, i) : x1.frame # 0 /\ e1.frame = x1.frame
      BY <1>2, <2>1
    <3>2. PICK x2 \in PtBoth(s, f, i) : x2.frame # 0 /\ e2.frame = x2.frame
      BY <1>2, <2>1
    <3> QED  BY <1>1, <2>1, <3>1, <3>2 DEF PtTree
  <2> QED  BY <2>1
<1>5. \A f1, f2 \in PtFrames, i1, i2 \in PtIdx :
       PtAtDepth(u.mirrors[f1], PtLevels - 2) /\ PtAtDepth(u.mirrors[f2], PtLevels - 2) =>
       \A e1 \in PtBoth(u, f1, i1), e2 \in PtBoth(u, f2, i2) :
         e1.frame = e2.frame /\ e1.frame # 0 /\ u.mirrors[e1.frame] = NoWindow =>
           f1 = f2 /\ i1 = i2
  <2>1. ASSUME NEW f1 \in PtFrames, NEW f2 \in PtFrames, NEW i1 \in PtIdx, NEW i2 \in PtIdx,
             PtAtDepth(u.mirrors[f1], PtLevels - 2), PtAtDepth(u.mirrors[f2], PtLevels - 2),
             NEW e1 \in PtBoth(u, f1, i1), NEW e2 \in PtBoth(u, f2, i2),
             e1.frame = e2.frame, e1.frame # 0, u.mirrors[e1.frame] = NoWindow
        PROVE  f1 = f2 /\ i1 = i2
    <3>1. PICK x1 \in PtBoth(s, f1, i1) : x1.frame # 0 /\ e1.frame = x1.frame
      BY <1>2, <2>1
    <3>2. PICK x2 \in PtBoth(s, f2, i2) : x2.frame # 0 /\ e2.frame = x2.frame
      BY <1>2, <2>1
    <3>3. /\ PtAtDepth(s.mirrors[f1], PtLevels - 2) /\ PtAtDepth(s.mirrors[f2], PtLevels - 2)
          /\ x1.frame = x2.frame /\ s.mirrors[x1.frame] = NoWindow
      BY <1>1, <2>1, <3>1, <3>2
    <3> QED  BY <3>1, <3>2, <3>3 DEF PtTree
  <2> QED  BY <2>1
<1>6. \A f \in PtFrames, i \in PtIdx :
       u.mirrors[f] = NoWindow \/ PtAtDepth(u.mirrors[f], PtLevels - 1) =>
         \A e \in PtBoth(u, f, i) : e.frame # f
  <2>1. ASSUME NEW f \in PtFrames, NEW i \in PtIdx,
               u.mirrors[f] = NoWindow \/ PtAtDepth(u.mirrors[f], PtLevels - 1),
               NEW e \in PtBoth(u, f, i), e.frame = f
        PROVE  FALSE
    <3>1. f # 0
      BY PtConstants
    <3>2. PICK x \in PtBoth(s, f, i) : x.frame # 0 /\ e.frame = x.frame
      BY <1>2, <2>1, <3>1
    <3> QED  BY <1>1, <2>1, <3>2 DEF PtTree
  <2> QED  BY <2>1
<1> QED  BY <1>2, <1>3, <1>4, <1>5, <1>6 DEF PtTree

\* Top tables keep the entry that leads to themselves.
LEMMA PtTopsGrown ==
  ASSUME NEW s, PtBooks(s), NEW x, PtTopsBut(s, x), NEW u, NEW w, PtGrown(s, u, w),
         s.next = x \/ ~PtAtDepth(w, 0)
  PROVE  PtTopsBut(u, x)
<1> SUFFICES ASSUME NEW f \in PtFrames, f # x, PtAtDepth(u.mirrors[f], 0)
             PROVE  PtSeen(u)[f][u.mirrors[f][1]] = PtLink(f)
  BY DEF PtTopsBut
<1>1. f # s.next /\ u.mirrors[f] = s.mirrors[f]
  BY DEF PtGrown
<1>2. u.mirrors[f][1] \in PtIdx
  BY PtConstants DEF PtAtDepth
<1> QED  BY <1>1, <1>2 DEF PtTopsBut, PtGrown

LEMMA PtTopsWrote ==
  ASSUME NEW s, PtBooks(s), NEW x, PtTopsBut(s, x), NEW u, NEW f, NEW i, NEW e,
         PtWrote(s, u, f, i, e), NEW y, y = x \/ (y = 0 /\ f = x),
         PtAtDepth(s.mirrors[f], 0) /\ i = s.mirrors[f][1] => e = PtLink(f),
         y # x => i = s.mirrors[f][1]
  PROVE  PtTopsBut(u, y)
<1> SUFFICES ASSUME NEW g \in PtFrames, g # y, PtAtDepth(u.mirrors[g], 0)
             PROVE  PtSeen(u)[g][u.mirrors[g][1]] = PtLink(g)
  BY DEF PtTopsBut
<1>1. u.mirrors[g] = s.mirrors[g]
  BY DEF PtWrote
<1>2. u.mirrors[g][1] \in PtIdx
  BY PtConstants DEF PtAtDepth
<1>3. CASE g = f /\ u.mirrors[g][1] = i
  BY <1>1, <1>2, <1>3 DEF PtWrote
<1>4. CASE ~(g = f /\ u.mirrors[g][1] = i)
  <2>1. g # x
    BY <1>1, <1>4
  <2> QED  BY <1>1, <1>2, <1>4, <2>1 DEF PtWrote, PtTopsBut
<1> QED  BY <1>3, <1>4

-----------------------------------------------------------------------------
\* Two entries of a table that lead anywhere lead to the same place.
LEMMA PtSameFrame ==
  ASSUME NEW s, PtBooks(s), PtTree(s), NEW f \in PtFrames, NEW d \in 0..(PtLevels - 2),
         PtAtDepth(s.mirrors[f], d), NEW i \in PtIdx,
         NEW e1 \in PtBoth(s, f, i), NEW e2 \in PtBoth(s, f, i), e1.frame # 0, e2.frame # 0
  PROVE  e1.frame = e2.frame
<1>1. PtLeads(s, f, d, i, e1.frame) /\ PtLeads(s, f, d, i, e2.frame)
  BY DEF PtTree
<1>2. e1.frame \in PtFrames /\ e2.frame \in PtFrames
  BY PtBothTyped
<1>3. CASE d = PtLevels - 2
  BY <1>3 DEF PtTree
<1>4. CASE d # PtLevels - 2
  <2>1. CASE d = 0 /\ i = s.mirrors[f][1]
    BY <1>1, <2>1 DEF PtLeads
  <2>2. CASE ~(d = 0 /\ i = s.mirrors[f][1])
    <3> DEFINE w == [s.mirrors[f] EXCEPT ![d + 2] = i]
    <3>1. s.mirrors[e1.frame] = w /\ s.mirrors[e2.frame] = w
      BY <1>1, <1>4, <2>2 DEF PtLeads
    <3>2. s.mirrors[f] \in PtWindows
      BY DEF PtAtDepth
    <3>3. w \in PtWindows
      BY <3>2 DEF PtWindows
    <3> HIDE DEF w
    <3>4. w # NoWindow
      BY <3>3, PtConstants
    <3> QED  BY <1>2, <3>1, <3>4 DEF PtBooks
  <2> QED  BY <2>1, <2>2
<1> QED  BY <1>3, <1>4

LEMMA PtPathKept ==
  ASSUME NEW s, NEW u, s.next \in Nat, u.next \in Nat, s.next <= u.next,
         \A f \in 1..(s.next - 1) : u.mirrors[f] = s.mirrors[f],
         NEW r, NEW dtb, NEW b, NEW k, NEW t, NEW how, PtPath(s, r, dtb, b, k, t, how),
         \A j \in 1..(k - 1) : PtSeen(u)[t[j]][b[j]] = PtSeen(s)[t[j]][b[j]]
  PROVE  PtPath(u, r, dtb, b, k, t, how)
<1>1. k \in 1..PtLevels /\ t \in [1..k -> 1..(s.next - 1)] /\ t[1] = dtb
  BY DEF PtPath
<1>2. t \in [1..k -> 1..(u.next - 1)]
  BY <1>1
<1>3. \A j \in 1..k : u.mirrors[t[j]] = s.mirrors[t[j]]
  BY <1>1
<1>4. \A j \in 1..k :
       \/ u.mirrors[t[j]] = PtWindow(r, b, j - 1)
       \/ how = "any" /\ j = PtLevels /\ u.mirrors[t[j]] = NoWindow
  BY <1>3 DEF PtPath
<1>5. \A j \in 1..(k - 1) : b[j] # PtSentinel /\ PtSeen(u)[t[j]][b[j]] = PtLink(t[j + 1])
  BY DEF PtPath
<1> QED  BY <1>1, <1>2, <1>4, <1>5 DEF PtPath

LEMMA PtEndsKept ==
  ASSUME NEW s, NEW u, s.next \in Nat, u.next \in Nat, s.next <= u.next,
         \A g \in 1..(s.next - 1) : u.mirrors[g] = s.mirrors[g],
         NEW b, NEW k, NEW f, NEW v, NEW how, PtEnds(s, b, k, f, v, how),
         PtSeen(u)[f][b[k]] = PtSeen(s)[f][b[k]],
         s.phys[f][b[k]] = PtZero => u.phys[f][b[k]] = PtZero
  PROVE  PtEnds(u, b, k, f, v, how)
BY DEF PtEnds

\* A table on a path is known by its window.
LEMMA PtPathMeets ==
  ASSUME NEW s, PtBooks(s), NEW r \in PtSelfRefs, NEW dtb, NEW b \in PtAddresses,
         NEW k, NEW t, NEW how, PtPath(s, r, dtb, b, k, t, how),
         NEW q \in PtSelfRefs, NEW a \in PtAddresses, NEW d \in 0..(PtLevels - 1),
         \A l \in 1..d : a[l] # PtSentinel,
         NEW j \in 1..k, s.mirrors[t[j]] = PtWindow(q, a, d)
  PROVE  j = d + 1 /\ r = q /\ \A l \in 1..d : a[l] = b[l]
<1>1. r \in PtIdx /\ q \in PtIdx
  BY PtConstants
<1>2. PtAtDepth(PtWindow(q, a, d), d)
  BY PtWindowDepth
<1>3. k \in 1..PtLevels /\ j - 1 \in 0..(PtLevels - 1) /\ PtWindow(q, a, d) \in PtWindows
  BY <1>2, PtConstants DEF PtPath, PtAtDepth
<1>4. s.mirrors[t[j]] = PtWindow(r, b, j - 1)
  BY <1>3, PtConstants DEF PtPath
<1>5. \A l \in 1..(j - 1) : b[l] # PtSentinel
  BY <1>3, PtConstants DEF PtPath
<1>6. PtAtDepth(PtWindow(r, b, j - 1), j - 1)
  BY <1>3, <1>5, PtWindowDepth
<1>7. j - 1 = d
  BY <1>2, <1>4, <1>6, PtDepthUnique
<1>8. PtWindow(r, b, d) = PtWindow(q, a, d)
  BY <1>4, <1>7
<1>9. r = q
  <2>1. PtWindow(r, b, d)[1] = r /\ PtWindow(q, a, d)[1] = q
    BY PtConstants DEF PtWindow
  <2> QED  BY <1>8, <2>1
<1>10. ASSUME NEW l \in 1..d
       PROVE  a[l] = b[l]
  <2>1. l + 1 \in 1..PtLevels /\ l + 1 # 1 /\ l + 1 <= d + 1 /\ (l + 1) - 1 = l
    <3>1. PtLevels \in {3, 4}
      BY PtConstants
    <3>2. l \in Int /\ 1 <= l /\ l <= d /\ d \in Int /\ d <= PtLevels - 1
      BY <1>10, <3>1
    <3> QED  BY <3>1, <3>2
  <2>2. PtWindow(r, b, d)[l + 1] = b[l] /\ PtWindow(q, a, d)[l + 1] = a[l]
    BY <2>1 DEF PtWindow
  <2> QED  BY <1>8, <2>2
<1> QED  BY <1>3, <1>7, <1>9, <1>10, PtConstants

\* Walks go on as they did when frames are handed out ...
LEMMA PtReachesGrown ==
  ASSUME NEW s, PtBooks(s), NEW u, NEW w, PtGrown(s, u, w),
         NEW r, NEW dtb, NEW b \in PtAddresses, NEW v, NEW how
  PROVE  /\ \A k, t : PtPath(s, r, dtb, b, k, t, how) => PtPath(u, r, dtb, b, k, t, how)
         /\ PtReaches(s, r, dtb, b, v, how) => PtReaches(u, r, dtb, b, v, how)
<1>1. /\ s.next \in Nat /\ u.next \in Nat /\ s.next <= u.next /\ 1..(s.next - 1) \subseteq PtFrames
      /\ \A f \in 1..(s.next - 1) : u.mirrors[f] = s.mirrors[f]
      /\ \A f \in 1..(s.next - 1), i \in PtIdx :
           PtSeen(u)[f][i] = PtSeen(s)[f][i] /\ u.phys[f][i] = s.phys[f][i]
  <2>1. s.next \in Nat /\ 1..(s.next - 1) \subseteq PtFrames
    BY PtTyped, PtConstants
  <2> QED  BY <2>1 DEF PtGrown
<1>2. ASSUME NEW k, NEW t, PtPath(s, r, dtb, b, k, t, how)
      PROVE  /\ PtPath(u, r, dtb, b, k, t, how)
             /\ PtEnds(s, b, k, t[k], v, how) => PtEnds(u, b, k, t[k], v, how)
             /\ k \in 1..PtLevels /\ t \in [1..k -> 1..(u.next - 1)]
  <2>1. k \in 1..PtLevels /\ t \in [1..k -> 1..(s.next - 1)]
    BY <1>2 DEF PtPath
  <2>2. \A j \in 1..k : t[j] \in 1..(s.next - 1) /\ b[j] \in PtIdx
    BY <2>1, PtConstants DEF PtAddresses
  <2>3. \A j \in 1..k : /\ PtSeen(u)[t[j]][b[j]] = PtSeen(s)[t[j]][b[j]]
                        /\ u.phys[t[j]][b[j]] = s.phys[t[j]][b[j]]
    BY <1>1, <2>2
  <2>4. k \in 1..k /\ \A j \in 1..(k - 1) : j \in 1..k
    BY <2>1, PtConstants
  <2>5. PtPath(u, r, dtb, b, k, t, how)
    BY <1>1, <1>2, <2>3, <2>4, PtPathKept
  <2>6. PtEnds(s, b, k, t[k], v, how) => PtEnds(u, b, k, t[k], v, how)
    BY <1>1, <2>3, <2>4, PtEndsKept
  <2> QED  BY <2>1, <2>5, <2>6 DEF PtPath
<1> QED  BY <1>2 DEF PtReaches

\* ... and when an entry is written that they do not come by, or that stays as it was.
PtMisses(s, f, i, e, b, k, t) ==
  \A j \in 1..(k - 1) : t[j] = f /\ b[j] = i => e = PtSeen(s)[f][i]

LEMMA PtReachesPast ==
  ASSUME NEW s, PtBooks(s), NEW u, NEW f, NEW i, NEW e, PtWrote(s, u, f, i, e),
         NEW r, NEW dtb, NEW b \in PtAddresses, NEW k, NEW t, NEW how,
         PtPath(s, r, dtb, b, k, t, how),
         PtMisses(s, f, i, e, b, k, t)
  PROVE  /\ PtPath(u, r, dtb, b, k, t, how)
         /\ \A v : PtEnds(s, b, k, t[k], v, how) /\ ~(t[k] = f /\ b[k] = i) =>
              PtReaches(u, r, dtb, b, v, how)
<1>1. /\ s.next \in Nat /\ u.next = s.next /\ u.mirrors = s.mirrors
      /\ 1..(s.next - 1) \subseteq PtFrames /\ u.next \in Nat /\ s.next <= u.next
      /\ \A g \in 1..(s.next - 1) : u.mirrors[g] = s.mirrors[g]
  BY PtTyped, PtConstants DEF PtWrote
<1>2. k \in 1..PtLevels /\ t \in [1..k -> 1..(s.next - 1)]
  BY DEF PtPath
<1>3. \A j \in 1..k : t[j] \in PtFrames /\ b[j] \in PtIdx
  BY <1>1, <1>2, PtConstants DEF PtAddresses
<1>4. \A j \in 1..k : ~(t[j] = f /\ b[j] = i) =>
        /\ PtSeen(u)[t[j]][b[j]] = PtSeen(s)[t[j]][b[j]]
        /\ u.phys[t[j]][b[j]] = s.phys[t[j]][b[j]]
  BY <1>3 DEF PtWrote
<1>5. \A j \in 1..k : t[j] = f /\ b[j] = i => PtSeen(u)[t[j]][b[j]] = e
  BY <1>3 DEF PtWrote
<1>6. k \in 1..k /\ \A j \in 1..(k - 1) : j \in 1..k
  BY <1>2, PtConstants
<1>7. \A j \in 1..(k - 1) : PtSeen(u)[t[j]][b[j]] = PtSeen(s)[t[j]][b[j]]
  BY <1>4, <1>5, <1>6 DEF PtMisses
<1>8. PtPath(u, r, dtb, b, k, t, how)
  BY <1>1, <1>7, PtPathKept
<1>9. ASSUME NEW v, PtEnds(s, b, k, t[k], v, how), ~(t[k] = f /\ b[k] = i)
      PROVE  PtReaches(u, r, dtb, b, v, how)
  <2>1. PtEnds(u, b, k, t[k], v, how)
    BY <1>1, <1>4, <1>6, <1>9, PtEndsKept
  <2> QED  BY <1>1, <1>2, <1>8, <2>1 DEF PtReaches
<1> QED  BY <1>8, <1>9

\* A path with one more table.
LEMMA PtPathLonger ==
  ASSUME NEW u, u.next \in Nat, NEW r, NEW dtb, NEW b, NEW k \in 1..(PtLevels - 1), NEW t,
         NEW how, PtPath(u, r, dtb, b, k, t, how),
         NEW g \in 1..(u.next - 1), b[k] # PtSentinel, PtSeen(u)[t[k]][b[k]] = PtLink(g),
         \/ u.mirrors[g] = PtWindow(r, b, k)
         \/ how = "any" /\ k + 1 = PtLevels /\ u.mirrors[g] = NoWindow
  PROVE  \E x : PtPath(u, r, dtb, b, k + 1, x, how) /\ x[k + 1] = g
<1> DEFINE x == [j \in 1..(k + 1) |-> IF j = k + 1 THEN g ELSE t[j]]
<1>1. t \in [1..k -> 1..(u.next - 1)] /\ t[1] = dtb
  BY DEF PtPath
<1>2. k + 1 \in 1..PtLevels /\ k \in Nat /\ k >= 1
  BY PtConstants
<1>3. x[k + 1] = g /\ \A j \in 1..k : x[j] = t[j]
  BY <1>2
<1>4. x \in [1..(k + 1) -> 1..(u.next - 1)]
  BY <1>1, <1>2
<1> HIDE DEF x
<1>5. x[1] = dtb
  BY <1>1, <1>2, <1>3
<1>6. ASSUME NEW j \in 1..(k + 1)
      PROVE  \/ u.mirrors[x[j]] = PtWindow(r, b, j - 1)
             \/ how = "any" /\ j = PtLevels /\ u.mirrors[x[j]] = NoWindow
  <2>1. CASE j = k + 1
    BY <1>2, <1>3, <2>1
  <2>2. CASE j # k + 1
    <3>1. j \in 1..k
      BY <1>2, <2>2
    <3> QED  BY <1>3, <3>1 DEF PtPath
  <2> QED  BY <2>1, <2>2
<1>7. ASSUME NEW j \in 1..((k + 1) - 1)
      PROVE  b[j] # PtSentinel /\ PtSeen(u)[x[j]][b[j]] = PtLink(x[j + 1])
  <2>1. CASE j = k
    BY <1>2, <1>3, <2>1
  <2>2. CASE j # k
    <3>1. j \in 1..(k - 1) /\ j \in 1..k /\ j + 1 \in 1..k
      BY <1>2, <2>2
    <3> QED  BY <1>3, <3>1 DEF PtPath
  <2> QED  BY <2>1, <2>2
<1>8. PtPath(u, r, dtb, b, k + 1, x, how)
  BY <1>2, <1>4, <1>5, <1>6, <1>7 DEF PtPath
<1> QED  BY <1>3, <1>8

-----------------------------------------------------------------------------
\* One level of mapPage at the entry i of the table f: the table the frame already leads to,
\* none because the window w is taken, or a new one.
PtWent(s, u, f, i, w) ==
  \/ /\ s.phys[f][i].frame # 0 /\ u.table = s.phys[f][i].frame /\ ~u.threw
     /\ PtWrote(s, u, f, i, PtLink(s.phys[f][i].frame))
  \/ /\ s.phys[f][i].frame = 0 /\ u.threw /\ PtGrown(s, u, NoWindow)
  \/ /\ s.phys[f][i].frame = 0 /\ u.table = s.next /\ ~u.threw
     /\ \A g \in PtFrames : s.mirrors[g] # w
     /\ \E m : PtBooks(m) /\ PtGrown(s, m, w) /\ PtWrote(m, u, f, i, PtLink(s.next))

LEMMA PtDescendWent ==
  ASSUME NEW s, PtBooks(s), s.next < PtForeign, ~s.threw,
         NEW r, NEW a, NEW d, s.table \in 1..(s.next - 1), a[d] \in PtIdx,
         NEW e, PtAtDepth(PtWindow(r, a, d), e)
  PROVE  LET u == PtDescend(s, r, a, d)
         IN  PtBooks(u) /\ PtWent(s, u, s.table, a[d], PtWindow(r, a, d))
<1> DEFINE u == PtDescend(s, r, a, d)
           f == s.table
           i == a[d]
           w == PtWindow(r, a, d)
           x == s.phys[f][i].frame
           n == PtAllocStruct(s, w)
           below == IF x # 0 THEN [s EXCEPT !.table = x] ELSE n
<1>1. /\ s \in PtStates /\ s.next \in 1..PtForeign /\ f \in PtFrames /\ s.next \in PtFrames
      /\ x \in 0..PtForeign /\ f \in 1..(s.next - 1)
  BY PtTyped, PtConstants
<1>2. u = IF below.threw THEN below ELSE PtPoke(below, f, i, PtLink(below.table))
  BY DEF PtDescend, PtLink
<1> HIDE DEF u
<1>3. ASSUME NEW y \in 0..PtForeign
      PROVE  PtLink(y) \in PtEntries
  BY <1>3 DEF PtLink, PtEntries
<1>4. CASE x # 0
  <2>1. below = [s EXCEPT !.table = x]
    BY <1>4
  <2> HIDE DEF below
  <2>2. /\ below.phys = s.phys /\ below.alias = s.alias /\ below.mirrors = s.mirrors
        /\ below.next = s.next /\ below.threw = s.threw /\ below.table = x /\ below \in PtStates
    BY <1>1, <2>1 DEF PtStates
  <2>3. PtSeen(below) = PtSeen(s)
    BY <2>2 DEF PtSeen
  <2>4. PtBooks(below)
    BY <2>2 DEF PtBooks
  <2>5. u = PtPoke(below, f, i, PtLink(x))
    BY <1>2, <2>2
  <2>6. f \in 1..(below.next - 1) /\ PtLink(x) \in PtEntries
    BY <1>1, <1>3, <2>2
  <2> HIDE DEF f, i, x
  <2>7. PtBooks(u) /\ PtWrote(below, u, f, i, PtLink(x)) /\ u.table = x /\ ~u.threw
    BY <2>2, <2>4, <2>5, <2>6, PtPokeWrites DEF i
  <2>8. PtWrote(s, u, f, i, PtLink(x))
    BY <2>2, <2>3, <2>7 DEF PtWrote
  <2> QED  BY <1>4, <2>7, <2>8 DEF PtWent, u, f, i, x
<1>5. CASE x = 0
  <2>1. below = n
    BY <1>5
  <2> HIDE DEF below
  <2>2. PtBooks(n)
    BY PtStructGrows
  <2>3. CASE (\E g \in PtFrames : s.mirrors[g] = w) /\ n.threw /\ PtGrown(s, n, NoWindow)
    <3>1. u = n
      BY <1>2, <2>1, <2>3
    <3> HIDE DEF n, f, i, x
    <3> QED  BY <1>5, <2>2, <2>3, <3>1 DEF PtWent, u, f, i, x
  <2>4. CASE /\ \A g \in PtFrames : s.mirrors[g] # w
             /\ n.threw = s.threw /\ n.table = s.next /\ PtGrown(s, n, w)
    <3>1. u = PtPoke(n, f, i, PtLink(s.next))
      BY <1>2, <2>1, <2>4
    <3>2. n.next = s.next + 1
      BY <2>4 DEF PtGrown
    <3>3. f \in 1..(n.next - 1) /\ PtLink(s.next) \in PtEntries
      BY <1>1, <1>3, <3>2
    <3> HIDE DEF n, f, i, x
    <3>4. PtBooks(u) /\ PtWrote(n, u, f, i, PtLink(s.next)) /\ u.table = s.next /\ ~u.threw
      BY <2>2, <2>4, <3>1, <3>3, PtPokeWrites DEF i
    <3> QED  BY <1>5, <2>2, <2>4, <3>4 DEF PtWent, u, f, i, x
  <2> QED  BY <2>3, <2>4, PtStructGrows
<1> QED  BY <1>4, <1>5

\* Where mapPage is: at the table the first d - 1 indices of a lead to.
PtAt(s, r, dtb, a, d, t) ==
  /\ PtSound(s) /\ r \in PtSelfRefs /\ a \in PtAddresses /\ ~PtRefused(r, a)
  /\ d \in 1..(PtLevels - 1) /\ PtPath(s, r, dtb, a, d, t, "any")

LEMMA PtAtTable ==
  ASSUME NEW s, NEW r, NEW dtb, NEW a, NEW d, NEW t, PtAt(s, r, dtb, a, d, t)
  PROVE  /\ t[d] \in 1..(s.next - 1) /\ t[d] \in PtFrames /\ a[d] \in PtIdx
         /\ s.mirrors[t[d]] = PtWindow(r, a, d - 1) /\ d - 1 \in 0..(PtLevels - 2)
         /\ PtAtDepth(PtWindow(r, a, d - 1), d - 1)
         /\ PtWindow(r, a, d - 1) \in PtWindows /\ PtWindow(r, a, d - 1)[1] = r
         /\ \A l \in 1..(d - 1) : a[l] # PtSentinel
         /\ d - 1 = 0 => a[d] # r
         /\ \E e \in {d - 1, d} : PtAtDepth(PtWindow(r, a, d), e)
         /\ a[d] = PtSentinel => PtWindow(r, a, d) = PtWindow(r, a, d - 1)
         /\ PtWindow(r, a, d) = [PtWindow(r, a, d - 1) EXCEPT ![(d - 1) + 2] = a[d]]
         /\ PtWindow(r, a, d) \in PtWindows /\ PtWindow(r, a, d) # NoWindow
<1>1. /\ PtBooks(s) /\ r \in PtSelfRefs /\ r \in PtIdx /\ a \in PtAddresses
      /\ ~PtRefused(r, a) /\ d \in 1..(PtLevels - 1) /\ PtPath(s, r, dtb, a, d, t, "any")
  BY PtConstants DEF PtAt, PtSound
<1>2. /\ d \in Nat /\ d \in 1..d /\ d # PtLevels /\ d - 1 \in 0..(PtLevels - 2)
      /\ d - 1 \in 0..(PtLevels - 1) /\ d \in 0..(PtLevels - 1) /\ d \in 1..PtLevels
      /\ (d - 1) + 2 = d + 1 /\ d + 1 \in 2..PtLevels
  BY <1>1, PtConstants
<1>3. t[d] \in 1..(s.next - 1) /\ s.mirrors[t[d]] = PtWindow(r, a, d - 1)
  BY <1>1, <1>2 DEF PtPath
<1>4. t[d] \in PtFrames
  BY <1>1, <1>3, PtTyped
<1>5. \A l \in 1..(d - 1) : a[l] # PtSentinel
  BY <1>1 DEF PtPath
<1>6. PtAtDepth(PtWindow(r, a, d - 1), d - 1)
  BY <1>1, <1>2, <1>5, PtWindowDepth
<1>7. /\ PtWindow(r, a, d - 1) \in PtWindows /\ PtWindow(r, a, d) \in PtWindows
      /\ PtWindow(r, a, d - 1)[1] = r /\ PtWindow(r, a, d) # NoWindow
  BY <1>1, <1>2, PtWindowIs, PtConstants
<1>8. d - 1 = 0 => a[d] # r
  BY <1>1, <1>2 DEF PtRefused
<1>9. PtWindow(r, a, d) = [PtWindow(r, a, d - 1) EXCEPT ![(d - 1) + 2] = a[d]]
  <2>1. PtWindow(r, a, d) = [PtWindow(r, a, d - 1) EXCEPT ![d + 1] = a[d]]
    BY <1>1, PtWindowBelow, PtConstants
  <2> QED  BY <1>2, <2>1
<1>10. a[d] = PtSentinel => PtWindow(r, a, d) = PtWindow(r, a, d - 1)
  <2>1. PtWindow(r, a, d - 1)[d + 1] = PtSentinel
    BY <1>2, <1>6, PtConstants DEF PtAtDepth
  <2>2. DOMAIN PtWindow(r, a, d - 1) = 1..PtLevels
    BY DEF PtWindow
  <2> QED  BY <1>2, <1>7, <1>9, <2>1, <2>2 DEF PtWindows
<1>11. \E e \in {d - 1, d} : PtAtDepth(PtWindow(r, a, d), e)
  <2>1. CASE a[d] = PtSentinel
    BY <1>6, <1>10, <2>1
  <2>2. CASE a[d] # PtSentinel
    <3>1. \A l \in 1..d : a[l] # PtSentinel
      BY <1>2, <1>5, <2>2
    <3> QED  BY <1>1, <1>2, <3>1, PtWindowDepth
  <2> QED  BY <2>1, <2>2
<1>12. a[d] \in PtIdx
  BY <1>1, <1>2 DEF PtAddresses
<1> QED  BY <1>1, <1>2, <1>3, <1>4, <1>5, <1>6, <1>7, <1>8, <1>9, <1>10, <1>11, <1>12

LEMMA PtWentSound ==
  ASSUME NEW s, NEW r, NEW dtb, NEW a, NEW d, NEW t, PtAt(s, r, dtb, a, d, t),
         NEW u, PtBooks(u), PtWent(s, u, t[d], a[d], PtWindow(r, a, d))
  PROVE  PtSound(u)
<1> DEFINE f == t[d]
           i == a[d]
           w == PtWindow(r, a, d)
           x == s.phys[f][i].frame
<1>1. /\ PtBooks(s) /\ PtTree(s) /\ PtTopsBut(s, 0) /\ f \in PtFrames /\ i \in PtIdx
      /\ d - 1 \in 0..(PtLevels - 2) /\ PtAtDepth(s.mirrors[f], d - 1)
      /\ s.mirrors[f] # NoWindow /\ (d - 1 = 0 => i # s.mirrors[f][1]) /\ f \in 1..(s.next - 1)
  <2>1. PtBooks(s) /\ PtTree(s) /\ PtTopsBut(s, 0)
    BY DEF PtAt, PtSound
  <2>2. /\ f \in PtFrames /\ i \in PtIdx /\ f \in 1..(s.next - 1) /\ d - 1 \in 0..(PtLevels - 2)
        /\ s.mirrors[f] = PtWindow(r, a, d - 1) /\ PtAtDepth(s.mirrors[f], d - 1)
        /\ s.mirrors[f] \in PtWindows /\ s.mirrors[f][1] = r /\ (d - 1 = 0 => i # r)
    BY PtAtTable
  <2> QED  BY <2>1, <2>2, PtConstants
<1>2. PtAtDepth(s.mirrors[f], PtLevels - 2) => d - 1 = PtLevels - 2
  BY <1>1, PtDepthUnique
<1>3. ~PtAtDepth(s.mirrors[f], PtLevels - 1)
  BY <1>1, PtDepthUnique, PtConstants
<1>4. PtAtDepth(s.mirrors[f], 0) => d - 1 = 0
  BY <1>1, PtDepthUnique
<1>5. s.next \in PtFrames /\ s.next \in Nat
  BY <1>1, PtTyped, PtConstants
<1>6. CASE x # 0 /\ PtWrote(s, u, f, i, PtLink(x))
  <2>1. s.phys[f][i] \in PtBoth(s, f, i) /\ PtLink(x).frame = x
    BY DEF PtBoth, PtLink
  <2>2. \A e \in 0..(PtLevels - 2) : PtAtDepth(s.mirrors[f], e) => PtLeads(s, f, e, i, x)
    BY <1>1, <1>6, <2>1 DEF PtTree
  <2>3. ASSUME PtAtDepth(s.mirrors[f], PtLevels - 2), s.mirrors[x] = NoWindow,
               NEW g \in PtFrames, NEW j \in PtIdx, NEW z \in PtBoth(s, g, j),
               PtAtDepth(s.mirrors[g], PtLevels - 2), z.frame = x
        PROVE  g = f /\ j = i
    <3>1. \A f1, f2 \in PtFrames, i1, i2 \in PtIdx :
            PtAtDepth(s.mirrors[f1], PtLevels - 2) /\ PtAtDepth(s.mirrors[f2], PtLevels - 2) =>
            \A e1 \in PtBoth(s, f1, i1), e2 \in PtBoth(s, f2, i2) :
              e1.frame = e2.frame /\ e1.frame # 0 /\ s.mirrors[e1.frame] = NoWindow =>
                f1 = f2 /\ i1 = i2
      BY <1>1 DEF PtTree
    <3>2. z.frame = s.phys[f][i].frame /\ z.frame # 0 /\ s.mirrors[z.frame] = NoWindow
      BY <1>6, <2>3
    <3> QED  BY <1>1, <2>1, <2>3, <3>1, <3>2
  <2>4. PtFits(s, f, i, PtLink(x))
    BY <1>1, <1>3, <1>6, <2>1, <2>2, <2>3 DEF PtFits
  <2> HIDE DEF f, i, x
  <2>5. PtTree(u)
    BY <1>1, <1>6, <2>4, PtTreeWrote
  <2>6. PtTopsBut(u, 0)
    BY <1>1, <1>4, <1>6, PtTopsWrote
  <2> QED  BY <2>5, <2>6 DEF PtSound
<1>7. CASE PtGrown(s, u, NoWindow)
  <2>1. PtTree(u)
    BY <1>1, <1>7, PtTreeGrown
  <2>2. ~PtAtDepth(NoWindow, 0)
    BY PtConstants DEF PtAtDepth
  <2>3. PtTopsBut(u, 0)
    BY <1>1, <1>7, <2>2, PtTopsGrown
  <2> QED  BY <2>1, <2>3 DEF PtSound
<1>8. CASE /\ \A g \in PtFrames : s.mirrors[g] # w
           /\ \E m : PtBooks(m) /\ PtGrown(s, m, w) /\ PtWrote(m, u, f, i, PtLink(s.next))
  <2>1. PICK m : PtBooks(m) /\ PtGrown(s, m, w) /\ PtWrote(m, u, f, i, PtLink(s.next))
    BY <1>8
  <2>2. i # PtSentinel
    BY <1>8, <1>1, PtAtTable
  <2>3. PtAtDepth(w, d)
    <3>1. /\ d \in 1..(PtLevels - 1) /\ d \in 0..(PtLevels - 1) /\ r \in PtSelfRefs
          /\ a \in PtAddresses
      BY PtConstants DEF PtAt
    <3>2. \A l \in 1..(d - 1) : a[l] # PtSentinel
      BY PtAtTable
    <3>3. \A l \in 1..d : a[l] # PtSentinel
      BY <2>2, <3>1, <3>2
    <3> QED  BY <3>1, <3>3, PtWindowDepth
  <2>4. w # NoWindow /\ w = [s.mirrors[f] EXCEPT ![(d - 1) + 2] = i]
    BY PtAtTable
  <2>5. ~PtAtDepth(w, 0)
    BY <1>1, <2>3, PtDepthUnique, PtConstants
  <2> HIDE DEF f, i, x, w
  <2>6. PtTree(m)
    BY <1>1, <2>1, PtTreeGrown
  <2>7. PtTopsBut(m, 0)
    BY <1>1, <2>1, <2>5, PtTopsGrown
  <2>8. m.mirrors[f] = s.mirrors[f] /\ m.mirrors[s.next] = w
    BY <1>1, <1>5, <2>1 DEF PtGrown
  <2>9. PtLink(s.next).frame = s.next /\ s.next # 0
    BY <1>5, PtConstants DEF PtLink
  <2>10. PtLeads(m, f, d - 1, i, s.next)
    BY <1>1, <2>2, <2>4, <2>8 DEF PtLeads
  <2>11. \A e \in 0..(PtLevels - 2) : PtAtDepth(m.mirrors[f], e) => PtLeads(m, f, e, i, s.next)
    BY <1>1, <2>8, <2>10, PtDepthUnique
  <2>12. PtFits(m, f, i, PtLink(s.next))
    BY <1>1, <1>3, <2>4, <2>8, <2>9, <2>11 DEF PtFits
  <2>13. PtTree(u)
    BY <1>1, <2>1, <2>6, <2>12, PtTreeWrote
  <2>14. PtTopsBut(u, 0)
    BY <1>1, <1>4, <2>1, <2>7, <2>8, PtTopsWrote
  <2> QED  BY <2>13, <2>14 DEF PtSound
<1> QED  BY <1>6, <1>7, <1>8 DEF PtWent

-----------------------------------------------------------------------------
\* The path goes on at the next level.
LEMMA PtWentPath ==
  ASSUME NEW s, NEW r, NEW dtb, NEW a, NEW d, NEW t, PtAt(s, r, dtb, a, d, t),
         NEW u, PtBooks(u), PtWent(s, u, t[d], a[d], PtWindow(r, a, d)), ~u.threw
  PROVE  \E x : PtPath(u, r, dtb, a, d + 1, x, "any") /\ x[d + 1] = u.table
<1> DEFINE f == t[d]
           i == a[d]
           w == PtWindow(r, a, d)
           g == u.table
<1>1. /\ PtBooks(s) /\ PtTree(s) /\ r \in PtSelfRefs /\ a \in PtAddresses
      /\ d \in 1..(PtLevels - 1) /\ PtPath(s, r, dtb, a, d, t, "any")
  BY DEF PtAt, PtSound
<1>2. /\ f \in PtFrames /\ i \in PtIdx /\ f \in 1..(s.next - 1) /\ d - 1 \in 0..(PtLevels - 2)
      /\ s.mirrors[f] = PtWindow(r, a, d - 1) /\ PtAtDepth(s.mirrors[f], d - 1)
      /\ (d - 1 = 0 => i # s.mirrors[f][1])
      /\ \A l \in 1..(d - 1) : a[l] # PtSentinel
      /\ (i = PtSentinel => w = s.mirrors[f]) /\ w = [s.mirrors[f] EXCEPT ![(d - 1) + 2] = i]
      /\ w \in PtWindows /\ w # NoWindow
  BY PtAtTable
<1>3. /\ d \in Nat /\ d >= 1 /\ (d - 1) + 1 = d /\ d - 1 \in 0..(PtLevels - 1)
      /\ \A j \in 1..(d - 1) : j \in 1..d /\ j # d
  BY <1>1, PtConstants
<1> HIDE DEF f, i, w, g
<1>4. ASSUME NEW m, NEW e
      PROVE  PtMisses(m, f, i, e, a, d, t)
  <2>1. ASSUME NEW j \in 1..(d - 1), t[j] = f
        PROVE  FALSE
    <3>1. s.mirrors[t[j]] = PtWindow(r, a, d - 1) /\ j \in 1..d
      BY <1>2, <1>3, <2>1
    <3>2. j = (d - 1) + 1
      <4>1. /\ PtBooks(s) /\ PtPath(s, r, dtb, a, d, t, "any") /\ r \in PtSelfRefs
            /\ a \in PtAddresses
            /\ d - 1 \in 0..(PtLevels - 1) /\ \A l \in 1..(d - 1) : a[l] # PtSentinel
        BY <1>1, <1>2, <1>3
      <4> QED  BY <3>1, <4>1, PtPathMeets
    <3> QED  BY <1>3, <3>2
  <2> QED  BY <2>1 DEF PtMisses
<1>5. u.next \in Nat /\ s.next \in Nat /\ s.next \in PtFrames
  BY <1>1, PtTyped, PtConstants
<1>6. CASE s.phys[f][i].frame # 0 /\ g = s.phys[f][i].frame /\ PtWrote(s, u, f, i, PtLink(g))
  <2>1. s.phys[f][i] \in PtBoth(s, f, i)
    BY DEF PtBoth
  <2>2. PtLeads(s, f, d - 1, i, g)
    BY <1>1, <1>2, <1>6, <2>1 DEF PtTree
  <2>3. i # PtSentinel /\ (\/ s.mirrors[g] = w
                           \/ d + 1 = PtLevels /\ s.mirrors[g] = NoWindow /\ g < s.next)
    BY <1>1, <1>2, <2>2, PtConstants DEF PtLeads
  <2>4. g \in 1..(s.next - 1)
    <3>1. g \in 0..PtForeign /\ g # 0
      BY <1>1, <1>2, <1>6, PtTyped
    <3>2. g \in PtFrames /\ g \in Nat
      BY <3>1, PtConstants
    <3>3. s.mirrors[g] # NoWindow => g \in 1..(s.next - 1)
      BY <1>1, <3>2, PtTyped
    <3> QED  BY <1>2, <1>5, <2>3, <3>1, <3>2, <3>3
  <2>5. u.next = s.next /\ u.mirrors = s.mirrors /\ PtSeen(u)[f][i] = PtLink(g)
    BY <1>2, <1>6 DEF PtWrote
  <2>6. PtPath(u, r, dtb, a, d, t, "any")
    BY <1>1, <1>4, <1>6, PtReachesPast
  <2>7. \/ u.mirrors[g] = PtWindow(r, a, d)
        \/ "any" = "any" /\ d + 1 = PtLevels /\ u.mirrors[g] = NoWindow
    BY <2>3, <2>5 DEF w
  <2>8. g \in 1..(u.next - 1) /\ a[d] # PtSentinel /\ PtSeen(u)[t[d]][a[d]] = PtLink(g)
    BY <2>3, <2>4, <2>5 DEF f, i
  <2> QED  BY <1>1, <1>5, <2>6, <2>7, <2>8, PtPathLonger DEF g
<1>7. CASE /\ g = s.next /\ \A h \in PtFrames : s.mirrors[h] # w
           /\ \E m : PtBooks(m) /\ PtGrown(s, m, w) /\ PtWrote(m, u, f, i, PtLink(s.next))
  <2>1. PICK m : PtBooks(m) /\ PtGrown(s, m, w) /\ PtWrote(m, u, f, i, PtLink(s.next))
    BY <1>7
  <2>2. i # PtSentinel
    BY <1>2, <1>7
  <2>3. PtPath(m, r, dtb, a, d, t, "any")
    BY <1>1, <2>1, PtReachesGrown
  <2>4. PtPath(u, r, dtb, a, d, t, "any")
    BY <1>1, <1>4, <2>1, <2>3, PtReachesPast
  <2>5. m.next = s.next + 1 /\ m.mirrors[g] = w
    BY <1>5, <1>7, <2>1 DEF PtGrown
  <2>6. u.next = m.next /\ u.mirrors[g] = w /\ PtSeen(u)[f][i] = PtLink(g)
    BY <1>2, <1>7, <2>1, <2>5 DEF PtWrote
  <2>7. g \in 1..(u.next - 1) /\ a[d] # PtSentinel /\ PtSeen(u)[t[d]][a[d]] = PtLink(g)
    BY <1>5, <1>7, <2>2, <2>5, <2>6, PtConstants DEF f, i
  <2>8. u.mirrors[g] = PtWindow(r, a, d)
    BY <2>6 DEF w
  <2> QED  BY <1>1, <1>5, <2>4, <2>7, <2>8, PtPathLonger DEF g
<1> QED  BY <1>6, <1>7 DEF PtWent, f, i, w, g

\* Whom a level of mapPage may disturb: at the last table, a page that shares it and was data
\* or lay in data.
PtSafe(r, a, q, b, how) ==
  how = "tidy" \/ q # r \/ \E l \in 1..(PtLevels - 1) : b[l] # a[l]

LEMMA PtWentReaches ==
  ASSUME NEW s, NEW r, NEW dtb, NEW a, NEW d, NEW t, PtAt(s, r, dtb, a, d, t),
         NEW u, PtBooks(u), PtWent(s, u, t[d], a[d], PtWindow(r, a, d)),
         NEW q \in PtSelfRefs, NEW top, NEW b \in PtAddresses, NEW v,
         NEW how \in {"tidy", "any"}, PtReaches(s, q, top, b, v, how),
         d < PtLevels - 1 \/ u.threw \/ PtSafe(r, a, q, b, how)
  PROVE  PtReaches(u, q, top, b, v, how)
<1> DEFINE f == t[d]
           i == a[d]
           w == PtWindow(r, a, d)
<1>1. /\ PtBooks(s) /\ PtTree(s) /\ r \in PtSelfRefs /\ a \in PtAddresses
      /\ d \in 1..(PtLevels - 1)
  BY DEF PtAt, PtSound
<1>2. /\ f \in PtFrames /\ i \in PtIdx /\ f \in 1..(s.next - 1) /\ d - 1 \in 0..(PtLevels - 2)
      /\ s.mirrors[f] = PtWindow(r, a, d - 1) /\ PtAtDepth(s.mirrors[f], d - 1)
      /\ \A l \in 1..(d - 1) : a[l] # PtSentinel
      /\ (i = PtSentinel => w = s.mirrors[f])
      /\ w \in PtWindows /\ w # NoWindow
  BY PtAtTable
<1>3. /\ d \in Nat /\ d >= 1 /\ (d - 1) + 1 = d /\ d - 1 \in 0..(PtLevels - 1)
      /\ d <= PtLevels - 1 /\ PtLevels \in Nat
  BY <1>1, PtConstants
<1>4. s.next \in Nat /\ s.next \in PtFrames /\ u.next \in Nat
  BY <1>1, PtTyped, PtConstants
<1> HIDE DEF f, w
<1>5. ASSUME NEW m, PtBooks(m), m.mirrors[f] = s.mirrors[f],
             NEW k, NEW x, PtPath(m, q, top, b, k, x, how), NEW j \in 1..k, x[j] = f, b[j] = i
      PROVE  j = d /\ q = r /\ \A l \in 1..d : b[l] = a[l]
  <2>1. m.mirrors[x[j]] = PtWindow(r, a, d - 1)
    BY <1>2, <1>5
  <2>2. j = (d - 1) + 1 /\ q = r /\ \A l \in 1..(d - 1) : a[l] = b[l]
    BY <1>1, <1>2, <1>3, <1>5, <2>1, PtPathMeets
  <2>3. \A l \in 1..d : l \in 1..(d - 1) \/ l = d
    BY <1>3
  <2>4. j = d /\ b[d] = a[d]
    BY <1>3, <1>5, <2>2
  <2> QED  BY <2>2, <2>3, <2>4
<1> HIDE DEF i
<1>6. ASSUME q = r, \A l \in 1..d : b[l] = a[l], d = PtLevels - 1
      PROVE  how = "tidy" \/ u.threw
  <2>1. ~(d < PtLevels - 1)
    BY <1>3, <1>6
  <2>2. u.threw \/ PtSafe(r, a, q, b, how)
    BY <2>1
  <2>3. ~\E l \in 1..(PtLevels - 1) : b[l] # a[l]
    BY <1>6, Zenon
  <2> QED  BY <1>6, <2>2, <2>3, Zenon DEF PtSafe
<1>7. CASE /\ s.phys[f][i].frame # 0 /\ ~u.threw
           /\ PtWrote(s, u, f, i, PtLink(s.phys[f][i].frame))
  <2> DEFINE g == s.phys[f][i].frame
  <2>1. PICK k \in 1..PtLevels : \E x \in [1..k -> 1..(s.next - 1)] :
          PtPath(s, q, top, b, k, x, how) /\ PtEnds(s, b, k, x[k], v, how)
    BY DEF PtReaches
  <2>2. PICK x \in [1..k -> 1..(s.next - 1)] :
          PtPath(s, q, top, b, k, x, how) /\ PtEnds(s, b, k, x[k], v, how)
    BY <2>1
  <2>3. ASSUME NEW j \in 1..(k - 1), x[j] = f, b[j] = i
        PROVE  PtLink(g) = PtSeen(s)[f][i]
    <3>1. j + 1 \in 1..k /\ j \in 1..k
      BY <2>1, PtConstants
    <3>2. PtSeen(s)[f][i] = PtLink(x[j + 1])
      BY <2>2, <2>3 DEF PtPath
    <3>3. x[j + 1] \in 1..(s.next - 1)
      BY <2>2, <3>1
    <3>4. PtSeen(s)[f][i].frame = x[j + 1] /\ x[j + 1] # 0
      BY <1>4, <3>2, <3>3 DEF PtLink
    <3>5. s.phys[f][i] \in PtBoth(s, f, i) /\ PtSeen(s)[f][i] \in PtBoth(s, f, i)
      BY DEF PtBoth
    <3>6. s.phys[f][i].frame # 0 /\ PtSeen(s)[f][i].frame # 0
      BY <1>4, <1>7, <3>3, <3>4
    <3>7. s.phys[f][i].frame = PtSeen(s)[f][i].frame
      BY <1>1, <1>2, <3>5, <3>6, PtSameFrame
    <3> QED  BY <3>2, <3>4, <3>7 DEF g
  <2>4. ~(x[k] = f /\ b[k] = i)
    <3> SUFFICES ASSUME x[k] = f, b[k] = i
                 PROVE  FALSE
      OBVIOUS
    <3>0. k \in 1..k
      BY <2>1, PtConstants
    <3>1. k = d /\ q = r /\ \A l \in 1..d : b[l] = a[l]
      BY <1>1, <1>5, <2>2, <3>0
    <3>2. s.phys[f][i] # PtZero
      BY <1>7, PtConstants
    <3> QED  BY <1>3, <1>6, <1>7, <2>2, <3>1, <3>2 DEF PtEnds
  <2>5. PtMisses(s, f, i, PtLink(g), b, k, x)
    BY <2>3 DEF PtMisses
  <2>6. PtWrote(s, u, f, i, PtLink(g))
    BY <1>7
  <2> HIDE DEF g
  <2> QED  BY <1>1, <2>2, <2>4, <2>5, <2>6, PtReachesPast
<1>8. CASE PtGrown(s, u, NoWindow)
  BY <1>1, <1>8, PtReachesGrown
<1>9. CASE /\ ~u.threw /\ \A h \in PtFrames : s.mirrors[h] # w
           /\ \E m : PtBooks(m) /\ PtGrown(s, m, w) /\ PtWrote(m, u, f, i, PtLink(s.next))
  <2>1. PICK m : PtBooks(m) /\ PtGrown(s, m, w) /\ PtWrote(m, u, f, i, PtLink(s.next))
    BY <1>9
  <2>2. i # PtSentinel
    BY <1>2, <1>9
  <2>3. PtReaches(m, q, top, b, v, how)
    BY <1>1, <2>1, PtReachesGrown
  <2>4. /\ m.next = s.next + 1 /\ u.next = m.next /\ u.mirrors = m.mirrors
        /\ m.mirrors[s.next] = w /\ m.mirrors[f] = s.mirrors[f] /\ f # s.next
        /\ PtSeen(u)[f][i] = PtLink(s.next)
        /\ \A j \in PtIdx : PtSeen(u)[s.next][j] = PtZero /\ u.phys[s.next][j] = PtZero
    BY <1>2, <1>4, <2>1 DEF PtWrote, PtGrown
  <2>5. PICK k \in 1..PtLevels : \E x \in [1..k -> 1..(m.next - 1)] :
          PtPath(m, q, top, b, k, x, how) /\ PtEnds(m, b, k, x[k], v, how)
    BY <2>3 DEF PtReaches
  <2>6. PICK x \in [1..k -> 1..(m.next - 1)] :
          PtPath(m, q, top, b, k, x, how) /\ PtEnds(m, b, k, x[k], v, how)
    BY <2>5
  <2>7. ASSUME NEW j \in 1..(k - 1), x[j] = f, b[j] = i
        PROVE  PtLink(s.next) = PtSeen(m)[f][i]
    <3>1. j + 1 \in 1..k /\ j \in 1..k
      BY <2>5, PtConstants
    <3>2. PtSeen(m)[f][i] = PtLink(x[j + 1])
      BY <2>6, <2>7 DEF PtPath
    <3>3. j = d /\ q = r /\ \A l \in 1..d : b[l] = a[l]
      BY <1>5, <2>1, <2>4, <2>6, <2>7, <3>1
    <3>4. PtWindow(q, b, d) = w
      BY <1>3, <3>3, PtWindowSame DEF w
    <3>5. m.mirrors[x[j + 1]] = w
      <4>1. \/ m.mirrors[x[j + 1]] = PtWindow(q, b, (j + 1) - 1)
            \/ how = "any" /\ j + 1 = PtLevels
        BY <2>6, <3>1 DEF PtPath
      <4>2. (j + 1) - 1 = d /\ (j + 1 = PtLevels => d = PtLevels - 1)
        BY <1>3, <3>3
      <4> QED  BY <1>6, <1>9, <3>3, <3>4, <4>1, <4>2
    <3>6. x[j + 1] \in 1..(m.next - 1) /\ 1..(m.next - 1) \subseteq PtFrames
      BY <2>1, <2>6, <3>1, PtTyped
    <3>7. x[j + 1] = s.next
      <4>1. x[j + 1] \in PtFrames /\ m.mirrors[x[j + 1]] = m.mirrors[s.next]
        BY <2>4, <3>5, <3>6
      <4>2. m.mirrors[s.next] # NoWindow
        BY <1>2, <2>4
      <4> QED  BY <1>4, <2>1, <4>1, <4>2 DEF PtBooks
    <3> QED  BY <3>2, <3>7
  <2>11. PtMisses(m, f, i, PtLink(s.next), b, k, x)
    BY <2>7 DEF PtMisses
  <2>8. PtPath(u, q, top, b, k, x, how)
    BY <2>1, <2>6, <2>11, PtReachesPast
  <2>9. CASE ~(x[k] = f /\ b[k] = i)
    BY <2>1, <2>6, <2>11, <2>9, PtReachesPast
  <2>10. CASE x[k] = f /\ b[k] = i
    <3>1. k \in 1..k
      BY <2>5, PtConstants
    <3>2. k = d /\ q = r /\ \A l \in 1..d : b[l] = a[l]
      BY <1>5, <2>1, <2>4, <2>6, <2>10, <3>1
    <3>3. PtWindow(q, b, d) = w
      BY <1>3, <3>2, PtWindowSame DEF w
    <3>4. v = Unmapped
      BY <1>3, <1>6, <1>9, <2>6, <3>2 DEF PtEnds
    <3>5. k \in 1..(PtLevels - 1) /\ s.next \in 1..(u.next - 1) /\ b[k] # PtSentinel
      BY <1>1, <1>4, <2>2, <2>4, <2>10, <3>2, PtConstants
    <3>6. PtSeen(u)[x[k]][b[k]] = PtLink(s.next) /\ u.mirrors[s.next] = PtWindow(q, b, k)
      BY <2>4, <2>10, <3>2, <3>3
    <3>12. \E y : PtPath(u, q, top, b, k + 1, y, how) /\ y[k + 1] = s.next
      BY <1>4, <2>8, <3>5, <3>6, PtPathLonger
    <3>7. PICK y : PtPath(u, q, top, b, k + 1, y, how) /\ y[k + 1] = s.next
      BY <3>12
    <3>13. k + 1 \in 1..PtLevels
      BY <3>5, PtConstants
    <3>8. b[k + 1] \in PtIdx /\ k + 1 \in 1..PtLevels
      BY <3>13 DEF PtAddresses
    <3>9. PtSeen(u)[y[k + 1]][b[k + 1]] = PtZero /\ u.phys[y[k + 1]][b[k + 1]] = PtZero
      BY <2>4, <3>7, <3>8
    <3>10. PtEnds(u, b, k + 1, y[k + 1], v, how)
      <4>1. CASE k + 1 < PtLevels
        BY <3>4, <3>9, <4>1 DEF PtEnds
      <4>2. CASE k + 1 = PtLevels
        BY <3>4, <3>9, <4>2, PtConstants DEF PtEnds
      <4> QED  BY <3>5, <4>1, <4>2, PtConstants
    <3>11. y \in [1..(k + 1) -> 1..(u.next - 1)]
      BY <3>7 DEF PtPath
    <3> QED  BY <3>7, <3>8, <3>10, <3>11 DEF PtReaches
  <2> QED  BY <2>9, <2>10
<1> QED  BY <1>7, <1>8, <1>9 DEF PtWent, f, i, w

\* Data that no table leads to yet.
PtSpare(s, g) ==
  /\ g \in 1..(s.next - 1) /\ s.mirrors[g] = NoWindow
  /\ \A f \in PtFrames, i \in PtIdx : PtAtDepth(s.mirrors[f], PtLevels - 2) =>
       \A e \in PtBoth(s, f, i) : e.frame # g

LEMMA PtWentSpare ==
  ASSUME NEW s, PtBooks(s), NEW u, NEW f \in PtFrames, f < s.next, NEW i \in PtIdx, NEW w,
         PtWent(s, u, f, i, w), s.mirrors[f] # NoWindow,
         NEW g, PtSpare(s, g)
  PROVE  PtSpare(u, g)
<1>1. /\ s.next \in Nat /\ s.next \in PtFrames /\ 1..(s.next - 1) \subseteq PtFrames
      /\ g \in 1..(s.next - 1) /\ s.mirrors[g] = NoWindow /\ g # 0 /\ g # s.next
  BY PtTyped, PtConstants DEF PtSpare
<1>2. ASSUME NEW m, NEW v, PtGrown(s, m, v)
      PROVE  PtSpare(m, g)
  <2>1. /\ m.next = s.next + 1
        /\ \A h \in PtFrames : m.mirrors[h] = IF h = s.next THEN v ELSE s.mirrors[h]
    BY <1>2 DEF PtGrown
  <2>2. g \in 1..(m.next - 1) /\ m.mirrors[g] = NoWindow
    BY <1>1, <2>1
  <2>3. ASSUME NEW h \in PtFrames, NEW j \in PtIdx, PtAtDepth(m.mirrors[h], PtLevels - 2),
               NEW e \in PtBoth(m, h, j)
        PROVE  e.frame # g
    <3>1. PtBoth(m, h, j) = PtBoth(s, h, j) /\ (h = s.next => PtBoth(m, h, j) = {PtZero})
      BY <1>2, PtBothGrown
    <3>2. CASE h = s.next
      BY <1>1, <2>3, <3>1, <3>2, PtConstants
    <3>3. CASE h # s.next
      BY <2>1, <2>3, <3>1, <3>3 DEF PtSpare
    <3> QED  BY <3>2, <3>3
  <2> QED  BY <2>2, <2>3 DEF PtSpare
<1>3. ASSUME NEW m, PtSpare(m, g), m.mirrors[f] = s.mirrors[f], NEW e, PtWrote(m, u, f, i, e),
             PtAtDepth(s.mirrors[f], PtLevels - 2) => e.frame # g
      PROVE  PtSpare(u, g)
  <2>1. u.mirrors = m.mirrors /\ u.next = m.next
    BY <1>3 DEF PtWrote
  <2>2. ASSUME NEW h \in PtFrames, NEW j \in PtIdx, PtAtDepth(u.mirrors[h], PtLevels - 2),
               NEW x \in PtBoth(u, h, j)
        PROVE  x.frame # g
    <3>1. PtBoth(u, h, j) = IF h = f /\ j = i THEN {e} ELSE PtBoth(m, h, j)
      BY <1>3, PtBothWrote
    <3>2. CASE h = f /\ j = i
      BY <1>3, <2>1, <2>2, <3>1, <3>2
    <3>3. CASE ~(h = f /\ j = i)
      BY <1>3, <2>1, <2>2, <3>1, <3>3 DEF PtSpare
    <3> QED  BY <3>2, <3>3
  <2> QED  BY <1>3, <2>1, <2>2 DEF PtSpare
<1>4. CASE PtWrote(s, u, f, i, PtLink(s.phys[f][i].frame))
  <2>1. s.phys[f][i] \in PtBoth(s, f, i) /\ PtLink(s.phys[f][i].frame).frame = s.phys[f][i].frame
    BY DEF PtBoth, PtLink
  <2>2. PtAtDepth(s.mirrors[f], PtLevels - 2) => s.phys[f][i].frame # g
    BY <2>1 DEF PtSpare
  <2> QED  BY <1>3, <1>4, <2>1, <2>2
<1>5. CASE PtGrown(s, u, NoWindow)
  BY <1>2, <1>5
<1>6. CASE \E m : PtBooks(m) /\ PtGrown(s, m, w) /\ PtWrote(m, u, f, i, PtLink(s.next))
  <2>1. PICK m : PtGrown(s, m, w) /\ PtWrote(m, u, f, i, PtLink(s.next))
    BY <1>6
  <2>2. m.mirrors[f] = s.mirrors[f]
    BY <1>1, <2>1, PtTyped DEF PtGrown
  <2>3. PtLink(s.next).frame # g
    BY <1>1 DEF PtLink
  <2> QED  BY <1>2, <1>3, <2>1, <2>2, <2>3
<1> QED  BY <1>4, <1>5, <1>6 DEF PtWent

-----------------------------------------------------------------------------
\* The levels of mapPage one after the other.
PtLeveled(g, s, r, a, n, leaf) ==
  /\ g[0] = s /\ \A d \in 1..(n - 1) : g[d] = PtDescend(g[d - 1], r, a, d)
  /\ PtMapping(s, r, a, n, leaf) =
       IF g[n - 1].threw THEN g[n - 1] ELSE PtPoke(g[n - 1], g[n - 1].table, a[n], leaf)

LEMMA PtMappingIs ==
  ASSUME NEW s, NEW r, NEW a, NEW n \in 2..4, NEW leaf
  PROVE  \E g : PtLeveled(g, s, r, a, n, leaf)
<1> DEFINE Is(f) == f = [d \in 0..(n - 1) |->
                           IF d = 0 THEN s ELSE PtDescend(f[d - 1], r, a, d)]
           x1 == PtDescend(s, r, a, 1)
           x2 == PtDescend(x1, r, a, 2)
           x3 == PtDescend(x2, r, a, 3)
           f == [d \in 0..(n - 1) |-> IF d = 0 THEN s ELSE IF d = 1 THEN x1
                                      ELSE IF d = 2 THEN x2 ELSE x3]
<1>1. \A d \in 0..(n - 1) : f[d] = IF d = 0 THEN s ELSE PtDescend(f[d - 1], r, a, d)
  OBVIOUS
<1>2. f = [d \in 0..(n - 1) |-> f[d]]
  OBVIOUS
<1> HIDE DEF f
<1>3. Is(f)
  BY <1>1, <1>2
<1>4. PtMapping(s, r, a, n, leaf) =
        LET last == (CHOOSE g : Is(g))[n - 1]
        IN  IF last.threw THEN last ELSE PtPoke(last, last.table, a[n], leaf)
  BY DEF PtMapping
<1> HIDE DEF Is
<1>5. PICK g : g = CHOOSE h : Is(h)
  OBVIOUS
<1>6. Is(g)
  BY <1>3, <1>5
<1>7. PtMapping(s, r, a, n, leaf) =
        IF g[n - 1].threw THEN g[n - 1] ELSE PtPoke(g[n - 1], g[n - 1].table, a[n], leaf)
  BY <1>4, <1>5
<1>8. g[0] = s /\ \A d \in 1..(n - 1) : g[d] = PtDescend(g[d - 1], r, a, d)
  BY <1>6 DEF Is
<1> QED  BY <1>7, <1>8 DEF PtLeveled

\* How far mapPage has got from s0, d levels down.
PtOnWay(s0, s, r, dtb, a, d) ==
  /\ PtSound(s) /\ s.next \in s0.next..(s0.next + d)
  /\ \A f \in 1..(s0.next - 1) : s.mirrors[f] = s0.mirrors[f]
  /\ ~s.threw => \E t : PtPath(s, r, dtb, a, d + 1, t, "any") /\ t[d + 1] = s.table
  /\ \A q \in PtSelfRefs, b \in PtAddresses, how \in {"tidy", "any"} : \A top, v :
       /\ PtReaches(s0, q, top, b, v, how)
       /\ d < PtLevels - 1 \/ s.threw \/ PtSafe(r, a, q, b, how)
       => PtReaches(s, q, top, b, v, how)
  /\ \A g : PtSpare(s0, g) => PtSpare(s, g)

LEMMA PtOnWayStep ==
  ASSUME NEW s0, s0.next \in Nat, NEW s, NEW r \in PtSelfRefs, NEW dtb, NEW a \in PtAddresses,
         ~PtRefused(r, a), NEW d \in 1..(PtLevels - 1), s0.next + d <= PtForeign,
         PtOnWay(s0, s, r, dtb, a, d - 1)
  PROVE  PtOnWay(s0, PtDescend(s, r, a, d), r, dtb, a, d)
<1>1. /\ PtSound(s) /\ PtBooks(s) /\ s.next \in s0.next..(s0.next + (d - 1))
      /\ \A f \in 1..(s0.next - 1) : s.mirrors[f] = s0.mirrors[f]
      /\ \A g : PtSpare(s0, g) => PtSpare(s, g)
  BY DEF PtOnWay, PtSound
<1>2. /\ d \in Nat /\ PtForeign \in Nat /\ (d - 1) + 1 = d /\ d - 1 < PtLevels - 1
      /\ s.next \in s0.next..(s0.next + d) /\ s.next < PtForeign
      /\ s.next + 1 \in s0.next..(s0.next + d) /\ s.next \in Nat
  <2>1. d \in Nat /\ d >= 1 /\ PtLevels \in Nat /\ d <= PtLevels - 1 /\ PtForeign \in Nat
    BY PtConstants
  <2>2. s.next \in Nat /\ s0.next <= s.next /\ s.next <= s0.next + (d - 1)
    BY <1>1, <2>1
  <2> QED  BY <2>1, <2>2
<1>3. ASSUME NEW q \in PtSelfRefs, NEW b \in PtAddresses, NEW how \in {"tidy", "any"},
             NEW top, NEW v,
             PtReaches(s0, q, top, b, v, how)
      PROVE  PtReaches(s, q, top, b, v, how)
  BY <1>2, <1>3 DEF PtOnWay
<1>4. CASE s.threw
  <2>1. PtDescend(s, r, a, d) = s
    BY <1>4 DEF PtDescend
  <2> QED  BY <1>1, <1>2, <1>3, <1>4, <2>1 DEF PtOnWay
<1>5. CASE ~s.threw
  <2>1. PICK t : PtPath(s, r, dtb, a, d, t, "any") /\ t[d] = s.table
    BY <1>2, <1>5 DEF PtOnWay
  <2>2. PtAt(s, r, dtb, a, d, t)
    BY <1>1, <2>1 DEF PtAt
  <2>3. /\ s.table \in 1..(s.next - 1) /\ s.table \in PtFrames /\ a[d] \in PtIdx
        /\ \E e \in {d - 1, d} : PtAtDepth(PtWindow(r, a, d), e)
        /\ s.mirrors[s.table] # NoWindow
    <3>1. /\ t[d] \in 1..(s.next - 1) /\ t[d] \in PtFrames /\ a[d] \in PtIdx
          /\ \E e \in {d - 1, d} : PtAtDepth(PtWindow(r, a, d), e)
          /\ s.mirrors[t[d]] \in PtWindows
      BY <2>2, PtAtTable
    <3> QED  BY <2>1, <3>1, PtConstants
  <2>4. PICK u : u = PtDescend(s, r, a, d)
    OBVIOUS
  <2>5. PtBooks(u) /\ PtWent(s, u, s.table, a[d], PtWindow(r, a, d))
    BY <1>1, <1>2, <1>5, <2>3, <2>4, PtDescendWent
  <2>6. PtWent(s, u, t[d], a[d], PtWindow(r, a, d))
    BY <2>1, <2>5
  <2>7. PtSound(u)
    BY <2>2, <2>5, <2>6, PtWentSound
  <2>8. ~u.threw => \E x : PtPath(u, r, dtb, a, d + 1, x, "any") /\ x[d + 1] = u.table
    BY <2>2, <2>5, <2>6, PtWentPath
  <2>9. /\ u.next = s.next \/ u.next = s.next + 1
        /\ \A f \in PtFrames : f # s.next => u.mirrors[f] = s.mirrors[f]
    <3>1. \A v, w : PtGrown(s, v, w) =>
            v.next = s.next + 1 /\ \A f \in PtFrames : f # s.next => v.mirrors[f] = s.mirrors[f]
      BY DEF PtGrown
    <3>2. \A v, m, f, i, e : PtWrote(m, v, f, i, e) => v.mirrors = m.mirrors /\ v.next = m.next
      BY DEF PtWrote
    <3> QED  BY <2>5, <3>1, <3>2 DEF PtWent
  <2>10. \A f \in 1..(s0.next - 1) : f \in PtFrames /\ f # s.next
    BY <1>2, PtConstants
  <2>11. \A f \in 1..(s0.next - 1) : u.mirrors[f] = s0.mirrors[f]
    BY <1>1, <2>9, <2>10
  <2>12. u.next \in s0.next..(s0.next + d)
    BY <1>2, <2>9
  <2>13. ASSUME NEW q \in PtSelfRefs, NEW b \in PtAddresses, NEW how \in {"tidy", "any"},
                NEW top, NEW v,
                PtReaches(s0, q, top, b, v, how),
                d < PtLevels - 1 \/ u.threw \/ PtSafe(r, a, q, b, how)
         PROVE  PtReaches(u, q, top, b, v, how)
    <3>1. PtReaches(s, q, top, b, v, how)
      BY <1>3, <2>13
    <3> QED  BY <2>2, <2>5, <2>6, <2>13, <3>1, PtWentReaches
  <2>14. ASSUME NEW g, PtSpare(s0, g)
         PROVE  PtSpare(u, g)
    <3>1. s.table < s.next
      BY <1>2, <2>3
    <3> QED  BY <1>1, <2>3, <2>5, <2>14, <3>1, PtWentSpare
  <2>15. PtOnWay(s0, u, r, dtb, a, d)
    BY <2>7, <2>8, <2>11, <2>12, <2>13, <2>14 DEF PtOnWay
  <2> QED  BY <2>4, <2>15
<1> QED  BY <1>4, <1>5

LEMMA PtOnWayStart ==
  ASSUME NEW s, PtSound(s), NEW r \in PtSelfRefs, NEW a \in PtAddresses,
         s.table \in 1..(s.next - 1), s.mirrors[s.table] = PtWindow(r, <<>>, 0)
  PROVE  PtOnWay(s, s, r, s.table, a, 0)
<1> DEFINE t == [j \in 1..1 |-> s.table]
<1>1. s.next \in Nat /\ 1 \in 1..PtLevels /\ PtLevels - 1 > 0
  BY PtTyped, PtConstants DEF PtSound
<1>2. PtWindow(r, a, 0) = PtWindow(r, <<>>, 0)
  BY PtWindowIs, PtConstants
<1>3. t \in [1..1 -> 1..(s.next - 1)] /\ t[1] = s.table
  OBVIOUS
<1> HIDE DEF t
<1>4. \A j \in 1..1 : s.mirrors[t[j]] = PtWindow(r, a, j - 1)
  BY <1>2, <1>3
<1>5. PtPath(s, r, s.table, a, 1, t, "any")
  BY <1>1, <1>3, <1>4 DEF PtPath
<1>6. \E x : PtPath(s, r, s.table, a, 0 + 1, x, "any") /\ x[0 + 1] = s.table
  BY <1>3, <1>5
<1> QED  BY <1>1, <1>6 DEF PtOnWay

LEMMA PtMappingWay ==
  ASSUME NEW s, PtSound(s), NEW r \in PtSelfRefs, NEW a \in PtAddresses, ~PtRefused(r, a),
         s.table \in 1..(s.next - 1), s.mirrors[s.table] = PtWindow(r, <<>>, 0),
         NEW n \in {PtLevels - 1, PtLevels}, s.next + (n - 1) <= PtForeign, NEW leaf
  PROVE  \E z : /\ PtOnWay(s, z, r, s.table, a, n - 1)
                /\ PtMapping(s, r, a, n, leaf) =
                     IF z.threw THEN z ELSE PtPoke(z, z.table, a[n], leaf)
<1>1. n \in 2..4 /\ n <= PtLevels /\ PtLevels \in Nat /\ PtForeign \in Nat /\ s.next \in Nat
  BY PtTyped, PtConstants DEF PtSound
<1>2. PICK g : /\ g[0] = s /\ \A d \in 1..(n - 1) : g[d] = PtDescend(g[d - 1], r, a, d)
               /\ PtMapping(s, r, a, n, leaf) =
                    IF g[n - 1].threw THEN g[n - 1]
                    ELSE PtPoke(g[n - 1], g[n - 1].table, a[n], leaf)
  <2>1. PICK g : PtLeveled(g, s, r, a, n, leaf)
    BY <1>1, PtMappingIs
  <2> QED  BY <2>1 DEF PtLeveled
<1>3. PtOnWay(s, g[0], r, s.table, a, 0)
  BY <1>2, PtOnWayStart
<1>4. ASSUME NEW d \in 1..(n - 1), PtOnWay(s, g[d - 1], r, s.table, a, d - 1)
      PROVE  PtOnWay(s, g[d], r, s.table, a, d)
  <2>1. d \in 1..(PtLevels - 1) /\ s.next + d <= PtForeign
    BY <1>1
  <2>2. PtOnWay(s, PtDescend(g[d - 1], r, a, d), r, s.table, a, d)
    BY <1>1, <1>4, <2>1, PtOnWayStep
  <2> QED  BY <1>2, <2>2
<1>5. \A d \in 0..(n - 1) : PtOnWay(s, g[d], r, s.table, a, d)
  <2>1. PtOnWay(s, g[1], r, s.table, a, 1)
    BY <1>1, <1>3, <1>4
  <2>2. 2 <= n - 1 => PtOnWay(s, g[2], r, s.table, a, 2)
    BY <1>1, <1>4, <2>1
  <2>3. 3 <= n - 1 => PtOnWay(s, g[3], r, s.table, a, 3)
    BY <1>1, <1>4, <2>2
  <2> QED  BY <1>1, <1>3, <2>1, <2>2, <2>3
<1>6. PtOnWay(s, g[n - 1], r, s.table, a, n - 1)
  BY <1>1, <1>5
<1> QED  BY <1>2, <1>6

-----------------------------------------------------------------------------
LEMMA PtPathSame ==
  ASSUME NEW s, NEW r, NEW dtb, NEW a, NEW b, NEW k, NEW t, NEW how,
         PtPath(s, r, dtb, a, k, t, how), \A l \in 1..(k - 1) : b[l] = a[l]
  PROVE  PtPath(s, r, dtb, b, k, t, how)
<1>1. k \in 1..PtLevels /\ t \in [1..k -> 1..(s.next - 1)] /\ t[1] = dtb
  BY DEF PtPath
<1>2. ASSUME NEW j \in 1..k
      PROVE  \/ s.mirrors[t[j]] = PtWindow(r, b, j - 1)
             \/ how = "any" /\ j = PtLevels /\ s.mirrors[t[j]] = NoWindow
  <2>1. j - 1 \in Nat /\ \A l \in 1..(j - 1) : a[l] = b[l]
    BY <1>1
  <2>2. PtWindow(r, a, j - 1) = PtWindow(r, b, j - 1)
    BY <2>1, PtWindowSame
  <2> QED  BY <2>2 DEF PtPath
<1>3. \A j \in 1..(k - 1) : b[j] # PtSentinel /\ PtSeen(s)[t[j]][b[j]] = PtLink(t[j + 1])
  BY DEF PtPath
<1> QED  BY <1>1, <1>2, <1>3 DEF PtPath

\* Above its last table a path has the tables that are not last.
LEMMA PtPathAbove ==
  ASSUME NEW s, PtBooks(s), NEW r \in PtSelfRefs, NEW dtb, NEW b \in PtAddresses,
         NEW k, NEW t, NEW how, PtPath(s, r, dtb, b, k, t, how), NEW j \in 1..k, j < PtLevels
  PROVE  /\ s.mirrors[t[j]] = PtWindow(r, b, j - 1) /\ PtAtDepth(s.mirrors[t[j]], j - 1)
         /\ s.mirrors[t[j]] # NoWindow /\ ~PtAtDepth(s.mirrors[t[j]], PtLevels - 1)
         /\ t[j] \in PtFrames /\ b[j] \in PtIdx
<1>1. k \in 1..PtLevels /\ j \in 1..PtLevels /\ j - 1 \in 0..(PtLevels - 1) /\ j - 1 # PtLevels - 1
  BY PtConstants DEF PtPath
<1>2. s.mirrors[t[j]] = PtWindow(r, b, j - 1)
  BY <1>1 DEF PtPath
<1>3. \A l \in 1..(j - 1) : b[l] # PtSentinel
  BY <1>1 DEF PtPath
<1>4. PtAtDepth(PtWindow(r, b, j - 1), j - 1)
  BY <1>1, <1>3, PtWindowDepth
<1>5. s.mirrors[t[j]] # NoWindow
  BY <1>2, <1>4, PtConstants DEF PtAtDepth
<1>6. ~PtAtDepth(s.mirrors[t[j]], PtLevels - 1)
  BY <1>1, <1>2, <1>4, PtDepthUnique
<1>7. t[j] \in 1..(s.next - 1) /\ 1..(s.next - 1) \subseteq PtFrames
  BY PtTyped DEF PtPath
<1>8. b[j] \in PtIdx
  BY <1>1 DEF PtAddresses
<1> QED  BY <1>2, <1>4, <1>5, <1>6, <1>7, <1>8

\* A path of b goes at its j-th table through the one that n indices of a lead to.
PtMet(s, q, top, b, k, x, how, r, a, n, j) ==
  /\ PtBooks(s) /\ q \in PtSelfRefs /\ b \in PtAddresses /\ PtPath(s, q, top, b, k, x, how)
  /\ r \in PtSelfRefs /\ a \in PtAddresses /\ n \in 0..(PtLevels - 1) /\ j \in 1..k
  /\ \A l \in 1..n : a[l] # PtSentinel
  /\ s.mirrors[x[j]] = PtWindow(r, a, n)

LEMMA PtMeets ==
  ASSUME NEW s, NEW q, NEW top, NEW b, NEW k, NEW x, NEW how, NEW r, NEW a, NEW n, NEW j,
         PtMet(s, q, top, b, k, x, how, r, a, n, j)
  PROVE  j = n + 1 /\ q = r /\ \A l \in 1..n : a[l] = b[l]
<1>1. /\ PtBooks(s) /\ q \in PtSelfRefs /\ b \in PtAddresses /\ PtPath(s, q, top, b, k, x, how)
      /\ r \in PtSelfRefs /\ a \in PtAddresses /\ n \in 0..(PtLevels - 1) /\ j \in 1..k
      /\ \A l \in 1..n : a[l] # PtSentinel
      /\ s.mirrors[x[j]] = PtWindow(r, a, n)
  BY DEF PtMet
<1> QED  BY <1>1, PtPathMeets

\* Two walks that come to the same entry just above the last tables have come the same way.
PtPaired(s, q, top, b, k, x, how, r, dtb, a, t, hot) ==
  /\ PtBooks(s) /\ PtTree(s)
  /\ q \in PtSelfRefs /\ b \in PtAddresses /\ PtPath(s, q, top, b, k, x, how)
  /\ r \in PtSelfRefs /\ a \in PtAddresses /\ PtPath(s, r, dtb, a, k, t, hot)
  /\ k = PtLevels /\ x[k] = t[k]

LEMMA PtPathsMeet ==
  ASSUME NEW s, NEW q, NEW top, NEW b, NEW k, NEW x, NEW how, NEW r, NEW dtb, NEW a,
         NEW t, NEW hot, PtPaired(s, q, top, b, k, x, how, r, dtb, a, t, hot)
  PROVE  /\ q = r /\ \A l \in 1..(PtLevels - 1) : b[l] = a[l]
<1>a. /\ PtBooks(s) /\ PtTree(s)
      /\ q \in PtSelfRefs /\ b \in PtAddresses /\ PtPath(s, q, top, b, PtLevels, x, how)
      /\ r \in PtSelfRefs /\ a \in PtAddresses /\ PtPath(s, r, dtb, a, PtLevels, t, hot)
      /\ k = PtLevels /\ x[PtLevels] = t[PtLevels]
  BY DEF PtPaired
<1> DEFINE m == PtLevels - 1
           f == t[PtLevels]
<1>1. /\ m \in Nat /\ m < PtLevels /\ m \in 1..k /\ m \in 1..PtLevels /\ m - 1 = PtLevels - 2
      /\ m \in 0..(PtLevels - 1) /\ m - 1 \in 0..(PtLevels - 1)
      /\ PtLevels \in 1..PtLevels /\ m + 1 = PtLevels /\ m \in 1..(k - 1)
      /\ PtLevels - 1 = m
  BY <1>a, PtConstants
<1> HIDE DEF m
<1>2. /\ s.mirrors[t[m]] = PtWindow(r, a, m - 1) /\ PtAtDepth(s.mirrors[t[m]], m - 1)
      /\ t[m] \in PtFrames /\ a[m] \in PtIdx
  BY <1>a, <1>1, PtPathAbove
<1>3. /\ s.mirrors[x[m]] = PtWindow(q, b, m - 1) /\ PtAtDepth(s.mirrors[x[m]], m - 1)
      /\ x[m] \in PtFrames /\ b[m] \in PtIdx
  BY <1>a, <1>1, PtPathAbove
<1>4. \A l \in 1..(m - 1) : a[l] # PtSentinel
  BY <1>a, <1>1 DEF PtPath
<1>5. PtSeen(s)[t[m]][a[m]] = PtLink(f) /\ PtSeen(s)[x[m]][b[m]] = PtLink(f)
      /\ a[m] # PtSentinel
  BY <1>a, <1>1 DEF PtPath
<1>6. f \in 1..(s.next - 1) /\ f \in PtFrames /\ f # 0
  BY <1>a, <1>1, PtTyped, PtConstants DEF PtPath
<1>7. CASE s.mirrors[f] = NoWindow
  <2>1. PtSeen(s)[t[m]][a[m]] \in PtBoth(s, t[m], a[m]) /\
      PtSeen(s)[x[m]][b[m]] \in PtBoth(s, x[m], b[m])
    BY DEF PtBoth
  <2>2. PtLink(f) \in PtBoth(s, t[m], a[m]) /\ PtLink(f) \in PtBoth(s, x[m], b[m]) /\
      PtLink(f).frame = f
    BY <1>5, <2>1 DEF PtLink
  <2>3. x[m] = t[m] /\ b[m] = a[m]
    BY <1>1, <1>2, <1>3, <1>6, <1>7, <1>a, <2>2 DEF PtTree
  <2>4. s.mirrors[x[m]] = PtWindow(r, a, m - 1)
    BY <1>2, <2>3
  <2>5. q = r /\ \A l \in 1..(m - 1) : a[l] = b[l]
    <3>1. PICK n : n = m - 1
      OBVIOUS
    <3>2. /\ n \in 0..(PtLevels - 1) /\ \A l \in 1..n : a[l] # PtSentinel
          /\ s.mirrors[x[m]] = PtWindow(r, a, n)
      BY <1>1, <1>4, <2>4, <3>1
    <3>3. /\ PtBooks(s) /\ q \in PtSelfRefs /\ b \in PtAddresses /\ PtPath(s, q, top, b, k, x, how)
          /\ r \in PtSelfRefs /\ a \in PtAddresses /\ m \in 1..k
      BY <1>a, <1>1
    <3>4. m = n + 1 /\ q = r /\ \A l \in 1..n : a[l] = b[l]
      <4>1. PtMet(s, q, top, b, k, x, how, r, a, n, m)
        BY <3>2, <3>3 DEF PtMet
      <4> QED  BY <4>1, PtMeets
    <3> QED  BY <3>1, <3>4
  <2>6. \A l \in 1..m : l \in 1..(m - 1) \/ l = m
    BY <1>1
  <2> QED  BY <1>1, <2>3, <2>5, <2>6
<1>8. CASE s.mirrors[f] # NoWindow
  <2>1. s.mirrors[t[PtLevels]] = PtWindow(r, a, m)
    BY <1>a, <1>1, <1>8 DEF PtPath
  <2>2. PtLevels \in 1..k /\ s.mirrors[x[PtLevels]] = PtWindow(r, a, m)
    BY <1>a, <1>1, <2>1
  <2>3. \A l \in 1..m : a[l] # PtSentinel
    <3>1. \A l \in 1..m : l \in 1..(m - 1) \/ l = m
      BY <1>1
    <3> QED  BY <1>4, <1>5, <3>1
  <2>4. PtLevels = m + 1 /\ q = r /\ \A l \in 1..m : a[l] = b[l]
    <3>1. PtMet(s, q, top, b, k, x, how, r, a, m, PtLevels)
      BY <1>a, <1>1, <2>2, <2>3 DEF PtMet
    <3> QED  BY <3>1, PtMeets
  <2> QED  BY <1>1, <2>4
<1> QED  BY <1>7, <1>8

\* The last entry of a small page.
PtAtLeaf(s, r, dtb, a, k, t, u, e) ==
  /\ PtSound(s) /\ r \in PtSelfRefs /\ a \in PtAddresses
  /\ PtPath(s, r, dtb, a, k, t, "any") /\ t[k] = s.table
  /\ e \in PtEntries /\ e.frame \in 1..PtForeign /\ (e.frame = PtForeign \/ PtSpare(s, e.frame))
  /\ u = PtPoke(s, s.table, a[k], e)

\* What it changes for the other pages: nothing, but for those it may disturb.
PtPast(s, u, r, a, hows) ==
  \A q \in PtSelfRefs, b \in PtAddresses, how \in hows : \A top, v :
    PtReaches(s, q, top, b, v, how) /\ PtSafe(r, a, q, b, how) /\ (q # r \/ b # a) =>
      PtReaches(u, q, top, b, v, how)

LEMMA PtLeafPage ==
  ASSUME NEW s, NEW r, NEW dtb, NEW a, NEW t, NEW u, NEW e,
         PtAtLeaf(s, r, dtb, a, PtLevels, t, u, e)
  PROVE  /\ PtSound(u) /\ u.next = s.next /\ u.mirrors = s.mirrors
         /\ PtReaches(u, r, dtb, a, IF e.p THEN e.frame ELSE Unmapped, "any")
         /\ PtPast(s, u, r, a, {"tidy", "any"})
<1> /\ PtSound(s) /\ r \in PtSelfRefs /\ a \in PtAddresses
    /\ PtPath(s, r, dtb, a, PtLevels, t, "any") /\ t[PtLevels] = s.table
    /\ e \in PtEntries /\ e.frame \in 1..PtForeign /\ (e.frame = PtForeign \/ PtSpare(s, e.frame))
    /\ u = PtPoke(s, s.table, a[PtLevels], e)
  BY DEF PtAtLeaf
<1> DEFINE f == s.table
           i == a[PtLevels]
           pa == e.frame
<1>1. PtBooks(s) /\ PtTree(s) /\ PtTopsBut(s, 0)
  BY DEF PtSound
<1>2. /\ PtLevels \in 1..PtLevels /\ PtLevels - 1 \in 1..(PtLevels - 1)
      /\ PtLevels - 1 \in 1..PtLevels /\ (PtLevels - 1) + 1 = PtLevels /\ PtLevels - 1 < PtLevels
      /\ PtLevels \in Nat /\ (PtLevels - 1) - 1 = PtLevels - 2
  BY PtConstants
<1>3. f \in 1..(s.next - 1) /\ f \in PtFrames /\ f < PtForeign /\ s.next \in Nat
  <2>1. f \in 1..(s.next - 1)
    BY <1>2 DEF PtPath
  <2> QED  BY <1>1, <2>1, PtTyped, PtConstants
<1>4. i \in PtIdx /\ e \in PtEntries /\ e.frame = pa /\ e.frame # 0 /\ e # PtZero
  <2>1. i \in PtIdx
    BY <1>2 DEF PtAddresses
  <2>2. e.frame # 0
    BY PtConstants
  <2> QED  BY <2>1, <2>2, PtConstants
<1>5. s.mirrors[f] = NoWindow \/ PtAtDepth(s.mirrors[f], PtLevels - 1)
  <2>1. CASE s.mirrors[f] = PtWindow(r, a, PtLevels - 1)
    <3>1. \A l \in 1..(PtLevels - 1) : a[l] # PtSentinel
      BY DEF PtPath
    <3>2. PtLevels - 1 \in 0..(PtLevels - 1)
      BY PtConstants
    <3> QED  BY <2>1, <3>1, <3>2, PtWindowDepth
  <2> QED  BY <1>2, <2>1 DEF PtPath
<1>6. \A d \in 0..(PtLevels - 2) : ~PtAtDepth(s.mirrors[f], d)
  <2>1. ASSUME NEW d \in 0..(PtLevels - 2), PtAtDepth(s.mirrors[f], d)
        PROVE  FALSE
    <3>1. d # PtLevels - 1
      BY PtConstants
    <3>2. s.mirrors[f] # NoWindow
      BY <2>1, PtConstants DEF PtAtDepth
    <3> QED  BY <1>5, <2>1, <3>1, <3>2, PtDepthUnique
  <2> QED  BY <2>1
<1>7. pa # f
  <2>1. CASE PtSpare(s, pa)
    <3>1. /\ PtAtDepth(s.mirrors[t[PtLevels - 1]], PtLevels - 2)
          /\ t[PtLevels - 1] \in PtFrames /\ a[PtLevels - 1] \in PtIdx
      <4>1. PICK j : j = PtLevels - 1
        OBVIOUS
      <4>2. j \in 1..PtLevels /\ j < PtLevels
        BY <1>2, <4>1
      <4>3. /\ s.mirrors[t[j]] = PtWindow(r, a, j - 1) /\ PtAtDepth(s.mirrors[t[j]], j - 1)
            /\ s.mirrors[t[j]] # NoWindow /\ ~PtAtDepth(s.mirrors[t[j]], PtLevels - 1)
            /\ t[j] \in PtFrames /\ a[j] \in PtIdx
        BY <1>1, <4>2, PtPathAbove
      <4> QED  BY <1>2, <4>1, <4>3
    <3>2. PtSeen(s)[t[PtLevels - 1]][a[PtLevels - 1]] = PtLink(f)
      BY <1>2 DEF PtPath
    <3>3. PtSeen(s)[t[PtLevels - 1]][a[PtLevels - 1]].frame # pa
      BY <2>1, <3>1 DEF PtSpare, PtBoth
    <3> QED  BY <3>2, <3>3 DEF PtLink
  <2> QED  BY <1>3, <2>1
<1>u. u = PtPoke(s, f, i, e)
  BY DEF f, i
<1> HIDE DEF f, i, pa
<1>8. PtBooks(u) /\ PtWrote(s, u, f, i, e)
  BY <1>u, <1>1, <1>3, <1>4, PtPokeWrites
<1>9. PtFits(s, f, i, e)
  <2>1. PtLevels - 2 \in 0..(PtLevels - 2)
    BY PtConstants
  <2> QED  BY <1>4, <1>6, <1>7, <2>1 DEF PtFits
<1>10. PtSound(u)
  <2>1. PtTree(u)
    BY <1>1, <1>3, <1>4, <1>8, <1>9, PtTreeWrote
  <2>2. ~PtAtDepth(s.mirrors[f], 0)
    BY <1>6, PtConstants
  <2>3. PtTopsBut(u, 0)
    BY <1>1, <1>8, <2>2, PtTopsWrote
  <2> QED  BY <1>8, <2>1, <2>3 DEF PtSound
<1>11. ASSUME NEW q \in PtSelfRefs, NEW b \in PtAddresses, NEW how, NEW top, NEW k, NEW x,
              PtPath(s, q, top, b, k, x, how)
       PROVE  /\ PtMisses(s, f, i, e, b, k, x)
              /\ \A j \in 1..k : x[j] = f => j = PtLevels
  <2>1. k \in 1..PtLevels
    BY <1>11 DEF PtPath
  <2>2. ASSUME NEW j \in 1..k, j < PtLevels
        PROVE  x[j] # f
    BY <1>1, <1>5, <1>11, <2>2, PtPathAbove
  <2>3. \A j \in 1..(k - 1) : j \in 1..k /\ j < PtLevels
    BY <1>2, <2>1
  <2>4. \A j \in 1..k : j < PtLevels \/ j = PtLevels
    BY <1>2, <2>1
  <2> QED  BY <2>2, <2>3, <2>4 DEF PtMisses
<1>12. ASSUME NEW q \in PtSelfRefs, NEW b \in PtAddresses, NEW how \in {"tidy", "any"},
              NEW top, NEW v,
              PtReaches(s, q, top, b, v, how), PtSafe(r, a, q, b, how), q # r \/ b # a
       PROVE  PtReaches(u, q, top, b, v, how)
  <2>1. PICK k \in 1..PtLevels : \E x \in [1..k -> 1..(s.next - 1)] :
          PtPath(s, q, top, b, k, x, how) /\ PtEnds(s, b, k, x[k], v, how)
    BY <1>12 DEF PtReaches
  <2>2. PICK x \in [1..k -> 1..(s.next - 1)] :
          PtPath(s, q, top, b, k, x, how) /\ PtEnds(s, b, k, x[k], v, how)
    BY <2>1
  <2>3. ~(x[k] = f /\ b[k] = i)
    <3> SUFFICES ASSUME x[k] = f, b[k] = i
                 PROVE  FALSE
      OBVIOUS
    <3>1. k \in 1..k
      BY <2>1, PtConstants
    <3>2. k = PtLevels
      BY <1>11, <2>2, <3>1
    <3>3. x[k] = t[PtLevels]
      BY DEF f
    <3>4. q = r /\ \A l \in 1..(PtLevels - 1) : b[l] = a[l]
      <4>1. PtPath(s, q, top, b, k, x, how) /\ PtPath(s, r, dtb, a, PtLevels, t, "any")
        BY <2>2
      <4>2. PtPath(s, r, dtb, a, k, t, "any") /\ x[k] = t[k] /\ k = PtLevels
        BY <3>2, <3>3
      <4>3. PtPaired(s, q, top, b, k, x, how, r, dtb, a, t, "any")
        BY <1>1, <4>1, <4>2 DEF PtPaired
      <4> QED  BY <4>3, PtPathsMeet
    <3>5. \A l \in 1..PtLevels : b[l] = a[l]
      <4>1. \A l \in 1..PtLevels : l \in 1..(PtLevels - 1) \/ l = PtLevels
        BY <1>2
      <4>2. b[PtLevels] = a[PtLevels]
        BY <3>2 DEF i
      <4> QED  BY <3>4, <4>1, <4>2
    <3>6. b = a
      <4>1. /\ a = [l \in 1..PtLevels |-> a[l]] /\ b = [l \in 1..PtLevels |-> b[l]]
        BY DEF PtAddresses
      <4> QED  BY <3>5, <4>1
    <3> QED  BY <1>12, <3>4, <3>6
  <2>4. PtMisses(s, f, i, e, b, k, x)
    BY <1>11, <2>2
  <2> QED  BY <1>1, <1>8, <2>2, <2>3, <2>4, PtReachesPast
<1>13. PtReaches(u, r, dtb, a, IF e.p THEN e.frame ELSE Unmapped, "any")
  <2>1. PtMisses(s, f, i, e, a, PtLevels, t)
    BY <1>11
  <2>2. PtPath(u, r, dtb, a, PtLevels, t, "any")
    BY <1>1, <1>8, <2>1, PtReachesPast
  <2>3. t[PtLevels] = f /\ PtSeen(u)[f][i] = e
    BY <1>3, <1>4, <1>8 DEF PtWrote, f
  <2>4. PtSeen(u)[t[PtLevels]][a[PtLevels]] = e
    BY <2>3 DEF i
  <2>6. PtEnds(u, a, PtLevels, t[PtLevels], IF e.p THEN e.frame ELSE Unmapped, "any")
    BY <2>4 DEF PtEnds
  <2>7. t \in [1..PtLevels -> 1..(u.next - 1)]
    BY <2>2 DEF PtPath
  <2> QED  BY <1>2, <2>2, <2>6, <2>7 DEF PtReaches
<1>14. u.next = s.next /\ u.mirrors = s.mirrors
  BY <1>8 DEF PtWrote
<1>15. PtPast(s, u, r, a, {"tidy", "any"})
  BY <1>12 DEF PtPast
<1> QED  BY <1>10, <1>13, <1>14, <1>15 DEF f, i

\* The last entry of a large page.
PtShared(u, r, dtb, a, g) ==
  \A b \in PtAddresses : (\A l \in 1..(PtLevels - 1) : b[l] = a[l]) =>
    PtReaches(u, r, dtb, b, g, "any")

LEMMA PtLeafLarge ==
  ASSUME NEW s, NEW r, NEW dtb, NEW a, ~PtRefused(r, a), NEW last, last = PtLevels - 1, NEW t,
         NEW u, NEW e, PtAtLeaf(s, r, dtb, a, last, t, u, e), PtSpare(s, e.frame), e.p, e.ps
  PROVE  /\ PtSound(u) /\ u.next = s.next /\ u.mirrors = s.mirrors
         /\ PtShared(u, r, dtb, a, e.frame)
         /\ PtPast(s, u, r, a, {"any"})
<1> /\ PtSound(s) /\ r \in PtSelfRefs /\ a \in PtAddresses
    /\ PtPath(s, r, dtb, a, PtLevels - 1, t, "any") /\ t[PtLevels - 1] = s.table
    /\ e = [frame |-> e.frame, p |-> TRUE, ps |-> TRUE]
    /\ u = PtPoke(s, s.table, a[PtLevels - 1], e)
  BY DEF PtAtLeaf, PtEntries
<1> DEFINE f == s.table
           m == PtLevels - 1
           i == a[m]
           pa == e.frame
<1>1. PtBooks(s) /\ PtTree(s) /\ PtTopsBut(s, 0)
  BY DEF PtSound
<1>2. /\ m \in Nat /\ m \in 1..PtLevels /\ m \in 2..PtLevels /\ m - 1 = PtLevels - 2 /\ m < PtLevels
      /\ m \in 1..m /\ PtLevels \in Nat /\ m - 1 # 0 /\ m - 1 \in 0..(PtLevels - 2)
      /\ m - 1 \in 0..(PtLevels - 1) /\ m = PtLevels - 1 /\ (m - 1) + 1 = m
  BY PtConstants
<1> HIDE DEF m
<1>3. PtPath(s, r, dtb, a, m, t, "any") /\ t[m] = f
  BY DEF m
<1>4. /\ f \in 1..(s.next - 1) /\ f \in PtFrames /\ s.next \in Nat
      /\ pa \in 1..(s.next - 1) /\ s.mirrors[pa] = NoWindow /\ pa \in 0..PtForeign /\ pa # 0
  <2>1. f \in 1..(s.next - 1)
    BY <1>2, <1>3 DEF PtPath
  <2> QED  BY <1>1, <2>1, PtTyped, PtConstants DEF PtSpare
<1>5. i \in PtIdx /\ e \in PtEntries /\ e.frame = pa /\ e # PtZero
  <2>1. i \in PtIdx
    BY <1>2 DEF PtAddresses
  <2> QED  BY <1>4, <2>1, PtConstants DEF PtEntries
<1>6. i # PtSentinel /\ \A l \in 1..(m - 1) : a[l] # PtSentinel
  BY <1>2, <1>3 DEF PtRefused, PtPath
<1>7. /\ s.mirrors[f] = PtWindow(r, a, m - 1) /\ PtAtDepth(s.mirrors[f], m - 1)
      /\ s.mirrors[f] # NoWindow /\ ~PtAtDepth(s.mirrors[f], PtLevels - 1)
  <2>1. PICK j, n : j = m /\ n = m
    OBVIOUS
  <2>2. PtPath(s, r, dtb, a, n, t, "any") /\ j \in 1..n /\ j < PtLevels
    BY <1>2, <1>3, <2>1
  <2>3. /\ s.mirrors[t[j]] = PtWindow(r, a, j - 1) /\ PtAtDepth(s.mirrors[t[j]], j - 1)
        /\ s.mirrors[t[j]] # NoWindow /\ ~PtAtDepth(s.mirrors[t[j]], PtLevels - 1)
        /\ t[j] \in PtFrames /\ a[j] \in PtIdx
    BY <1>1, <2>2, PtPathAbove
  <2> QED  BY <1>3, <2>1, <2>3
<1>u. u = PtPoke(s, f, i, e)
  BY DEF f, i, m
<1> HIDE DEF f, i
<1>8. PtBooks(u) /\ PtWrote(s, u, f, i, e)
  BY <1>u, <1>1, <1>4, <1>5, PtPokeWrites
<1>9. PtFits(s, f, i, e)
  <2>1. PtLeads(s, f, PtLevels - 2, i, pa)
    BY <1>2, <1>4, <1>6 DEF PtLeads
  <2>2. \A d \in 0..(PtLevels - 2) : PtAtDepth(s.mirrors[f], d) => PtLeads(s, f, d, i, e.frame)
    BY <1>2, <1>5, <1>7, <2>1, PtDepthUnique
  <2>3. \A g \in PtFrames, j \in PtIdx : \A x \in PtBoth(s, g, j) :
         PtAtDepth(s.mirrors[g], PtLevels - 2) => x.frame # pa
    BY DEF PtSpare
  <2> QED  BY <1>4, <1>5, <1>7, <2>2, <2>3 DEF PtFits
<1>10. PtSound(u)
  <2>1. PtTree(u)
    BY <1>1, <1>4, <1>5, <1>8, <1>9, PtTreeWrote
  <2>2. ~PtAtDepth(s.mirrors[f], 0)
    BY <1>2, <1>7, PtDepthUnique
  <2>3. PtTopsBut(u, 0)
    BY <1>1, <1>8, <2>2, PtTopsWrote
  <2> QED  BY <1>8, <2>1, <2>3 DEF PtSound
<1>11. ASSUME NEW q \in PtSelfRefs, NEW b \in PtAddresses, NEW top, NEW k, NEW x,
              PtPath(s, q, top, b, k, x, "any"), NEW j \in 1..k, x[j] = f
       PROVE  j = m /\ q = r /\ \A l \in 1..(m - 1) : a[l] = b[l]
  <2>1. s.mirrors[x[j]] = PtWindow(r, a, m - 1)
    BY <1>7, <1>11
  <2>2. PICK n : n = m - 1
    OBVIOUS
  <2>3. /\ n \in 0..(PtLevels - 1) /\ \A l \in 1..n : a[l] # PtSentinel
        /\ s.mirrors[x[j]] = PtWindow(r, a, n)
    BY <1>2, <1>6, <2>1, <2>2
  <2>4. /\ PtBooks(s) /\ q \in PtSelfRefs /\ b \in PtAddresses /\ PtPath(s, q, top, b, k, x, "any")
        /\ r \in PtSelfRefs /\ a \in PtAddresses /\ j \in 1..k
    BY <1>1, <1>11
  <2>5. j = n + 1 /\ q = r /\ \A l \in 1..n : a[l] = b[l]
    <3>1. PtMet(s, q, top, b, k, x, "any", r, a, n, j)
      BY <2>3, <2>4 DEF PtMet
    <3> QED  BY <3>1, PtMeets
  <2> QED  BY <1>2, <2>2, <2>5
<1>12. ASSUME NEW q \in PtSelfRefs, NEW b \in PtAddresses, NEW top, NEW v,
              PtReaches(s, q, top, b, v, "any"), PtSafe(r, a, q, b, "any")
       PROVE  PtReaches(u, q, top, b, v, "any")
  <2>1. PICK k \in 1..PtLevels : \E x \in [1..k -> 1..(s.next - 1)] :
          PtPath(s, q, top, b, k, x, "any") /\ PtEnds(s, b, k, x[k], v, "any")
    BY <1>12 DEF PtReaches
  <2>2. PICK x \in [1..k -> 1..(s.next - 1)] :
          PtPath(s, q, top, b, k, x, "any") /\ PtEnds(s, b, k, x[k], v, "any")
    BY <2>1
  <2>3. ASSUME NEW j \in 1..k
        PROVE  ~(x[j] = f /\ b[j] = i)
    <3> SUFFICES ASSUME x[j] = f, b[j] = i
                 PROVE  FALSE
      OBVIOUS
    <3>1. j = m /\ q = r /\ \A l \in 1..(m - 1) : a[l] = b[l]
      BY <1>11, <2>2
    <3>2. \A l \in 1..m : l \in 1..(m - 1) \/ l = m
      BY <1>2
    <3>3. \A l \in 1..(PtLevels - 1) : b[l] = a[l]
      BY <1>2, <3>1, <3>2 DEF i
    <3> QED  BY <1>12, <3>1, <3>3 DEF PtSafe
  <2>4. k \in 1..k /\ \A j \in 1..(k - 1) : j \in 1..k
    BY <2>1, PtConstants
  <2>5. PtMisses(s, f, i, e, b, k, x)
    BY <2>3, <2>4 DEF PtMisses
  <2>6. ~(x[k] = f /\ b[k] = i)
    BY <2>3, <2>4
  <2> QED  BY <1>1, <1>8, <2>2, <2>5, <2>6, PtReachesPast
<1>13. ASSUME NEW b \in PtAddresses, \A l \in 1..(PtLevels - 1) : b[l] = a[l]
       PROVE  PtReaches(u, r, dtb, b, pa, "any")
  <2>1. \A l \in 1..(m - 1) : b[l] = a[l]
    BY <1>2, <1>13
  <2>2. PtPath(s, r, dtb, b, m, t, "any")
    BY <1>3, <2>1, PtPathSame
  <2>3. \A j \in 1..(m - 1) : j \in 1..m /\ j # m
    BY <1>2
  <2>4. PtMisses(s, f, i, e, b, m, t)
    BY <1>11, <2>2, <2>3 DEF PtMisses
  <2>5. PtPath(u, r, dtb, b, m, t, "any")
    BY <1>1, <1>8, <2>2, <2>4, PtReachesPast
  <2>6. u.next = s.next /\ u.mirrors = s.mirrors /\ PtSeen(u)[f][i] = e
    BY <1>4, <1>5, <1>8 DEF PtWrote
  <2>7. b[m] = i
    BY <1>2, <1>13 DEF i
  <2>8. PtSeen(u)[t[m]][b[m]] = [frame |-> pa, p |-> TRUE, ps |-> TRUE]
    BY <1>3, <2>6, <2>7
  <2>9. PtEnds(u, b, m, t[m], pa, "any")
    BY <1>2, <1>4, <2>6, <2>8 DEF PtEnds
  <2>10. t \in [1..m -> 1..(u.next - 1)]
    BY <2>5 DEF PtPath
  <2> QED  BY <1>2, <2>5, <2>9, <2>10 DEF PtReaches
<1>14. u.next = s.next /\ u.mirrors = s.mirrors
  BY <1>8 DEF PtWrote
<1>15. PtPast(s, u, r, a, {"any"})
  BY <1>12 DEF PtPast
<1>16. PtShared(u, r, dtb, a, e.frame)
  BY <1>13 DEF PtShared
<1> QED  BY <1>10, <1>14, <1>15, <1>16

-----------------------------------------------------------------------------
\* What the walk of translate and the way down that is asked of a page go through.
PtStepped(at, tables, dtb, b) ==
  /\ at[0] = [table |-> dtb, done |-> FALSE]
  /\ \A d \in 1..PtLevels : at[d] = PtStep(tables, at[d - 1], b[d], d)
  /\ PtWalk(tables, dtb, b) = at[PtLevels].table

LEMMA PtWalkIs ==
  ASSUME NEW tables, NEW dtb, NEW b
  PROVE  \E at : PtStepped(at, tables, dtb, b)
<1> DEFINE Is(f) == f = [d \in 0..PtLevels |->
                           IF d = 0 THEN [table |-> dtb, done |-> FALSE]
                           ELSE PtStep(tables, f[d - 1], b[d], d)]
           x0 == [table |-> dtb, done |-> FALSE]
           x1 == PtStep(tables, x0, b[1], 1)
           x2 == PtStep(tables, x1, b[2], 2)
           x3 == PtStep(tables, x2, b[3], 3)
           x4 == PtStep(tables, x3, b[4], 4)
           f == [d \in 0..PtLevels |-> IF d = 0 THEN x0 ELSE IF d = 1 THEN x1
                                       ELSE IF d = 2 THEN x2 ELSE IF d = 3 THEN x3 ELSE x4]
<1> HIDE DEF x0, x1, x2, x3, x4
<1>1. \A d \in 0..PtLevels : f[d] = IF d = 0 THEN x0 ELSE PtStep(tables, f[d - 1], b[d], d)
  BY PtConstants DEF x1, x2, x3, x4
<1>2. f = [d \in 0..PtLevels |-> f[d]]
  OBVIOUS
<1> HIDE DEF f
<1>3. Is(f)
  BY <1>1, <1>2 DEF x0
<1>4. PtWalk(tables, dtb, b) = (CHOOSE g : Is(g))[PtLevels].table
  BY DEF PtWalk
<1> HIDE DEF Is
<1>5. PICK g : g = CHOOSE h : Is(h)
  OBVIOUS
<1>6. Is(g)
  BY <1>3, <1>5
<1>7. PtWalk(tables, dtb, b) = g[PtLevels].table
  BY <1>4, <1>5
<1>8. /\ g[0] = [table |-> dtb, done |-> FALSE]
      /\ \A d \in 1..PtLevels : g[d] = PtStep(tables, g[d - 1], b[d], d)
  <2>1. \A d \in 0..PtLevels : g[d] = IF d = 0 THEN [table |-> dtb, done |-> FALSE]
                                     ELSE PtStep(tables, g[d - 1], b[d], d)
    BY <1>6 DEF Is
  <2>2. 0 \in 0..PtLevels /\ \A d \in 1..PtLevels : d \in 0..PtLevels /\ d # 0
    BY PtConstants
  <2> QED  BY <2>1, <2>2
<1> QED  BY <1>7, <1>8 DEF PtStepped

PtFollowed(at, tables, dtb, a) ==
  /\ at[0] = dtb
  /\ \A d \in 1..(PtLevels - 1) : at[d] = IF at[d - 1] = 0 THEN 0 ELSE tables[at[d - 1]][a[d]].frame
  /\ PtFollow(dtb, a, PtLevels - 1) = at[PtLevels - 1]

LEMMA PtFollowIs ==
  ASSUME NEW dtb, NEW a
  PROVE  \E at : PtFollowed(at, PtSynced, dtb, a)
<1> DEFINE n == PtLevels - 1
           To(x, d) == IF x = 0 THEN 0 ELSE PtSynced[x][a[d]].frame
           Is(f) == f = [d \in 0..n |-> IF d = 0 THEN dtb
                           ELSE IF f[d - 1] = 0 THEN 0 ELSE PtSynced[f[d - 1]][a[d]].frame]
           x1 == To(dtb, 1)
           x2 == To(x1, 2)
           x3 == To(x2, 3)
           f == [d \in 0..n |-> IF d = 0 THEN dtb ELSE IF d = 1 THEN x1
                                ELSE IF d = 2 THEN x2 ELSE x3]
<1> HIDE DEF x1, x2, x3, To
<1>0. n \in {2, 3}
  BY PtConstants
<1> HIDE DEF n
<1>1. \A d \in 0..n : f[d] = IF d = 0 THEN dtb ELSE To(f[d - 1], d)
  BY <1>0 DEF x1, x2, x3
<1>2. f = [d \in 0..n |-> f[d]]
  OBVIOUS
<1> HIDE DEF f
<1>3. Is(f)
  BY <1>1, <1>2 DEF To
<1>4. PtFollow(dtb, a, n) = (CHOOSE g : Is(g))[n]
  BY DEF PtFollow
<1> HIDE DEF Is
<1>5. PICK g : g = CHOOSE h : Is(h)
  OBVIOUS
<1>6. Is(g)
  BY <1>3, <1>5
<1>7. PtFollow(dtb, a, n) = g[n]
  BY <1>4, <1>5
<1>8. /\ g[0] = dtb
      /\ \A d \in 1..n : g[d] = IF g[d - 1] = 0 THEN 0 ELSE PtSynced[g[d - 1]][a[d]].frame
  <2>1. \A d \in 0..n : g[d] = IF d = 0 THEN dtb ELSE IF g[d - 1] = 0 THEN 0
                              ELSE PtSynced[g[d - 1]][a[d]].frame
    BY <1>6 DEF Is
  <2>2. 0 \in 0..n /\ \A d \in 1..n : d \in 0..n /\ d # 0
    BY <1>0
  <2> QED  BY <2>1, <2>2
<1> QED  BY <1>7, <1>8 DEF PtFollowed, n

LEMMA PtSyncedIs == PtSynced = PtSeen(PtNow(0))
BY DEF PtSynced, PtSeen, PtNow

\* A tidy way is a way.
LEMMA PtTidyIs ==
  ASSUME NEW s, NEW r, NEW dtb, NEW b, NEW v, PtReaches(s, r, dtb, b, v, "tidy")
  PROVE  PtReaches(s, r, dtb, b, v, "any")
BY DEF PtReaches, PtPath, PtEnds

LEMMA PtStepLink ==
  ASSUME NEW tables, NEW f, NEW i, NEW d, NEW g, tables[f][i] = PtLink(g)
  PROVE  PtStep(tables, [table |-> f, done |-> FALSE], i, d) = [table |-> g, done |-> FALSE]
<1>1. PtLink(g).p /\ ~PtLink(g).ps /\ PtLink(g).frame = g
  BY DEF PtLink
<1> QED  BY <1>1 DEF PtStep

LEMMA PtStepLarge ==
  ASSUME NEW tables, NEW f, NEW i, NEW d, NEW g, d > 1, d \in {PtLevels - 2, PtLevels - 1},
         tables[f][i] = [frame |-> g, p |-> TRUE, ps |-> TRUE]
  PROVE  PtStep(tables, [table |-> f, done |-> FALSE], i, d) = [table |-> g, done |-> TRUE]
<1>1. tables[f][i].p /\ tables[f][i].ps /\ tables[f][i].frame = g
  OBVIOUS
<1>2. (tables[f][i].ps /\ d > 1 /\ d \in {PtLevels - 2, PtLevels - 1}) = TRUE
  BY <1>1
<1> QED  BY <1>1, <1>2 DEF PtStep

\* A walk of the tables reaches what the page reaches.
LEMMA PtWalkReaches ==
  ASSUME NEW s, PtBooks(s), NEW r, NEW dtb, NEW b, NEW v, PtReaches(s, r, dtb, b, v, "any")
  PROVE  PtWalk(PtSeen(s), dtb, b) = v
<1>1. PICK k \in 1..PtLevels : \E t \in [1..k -> 1..(s.next - 1)] :
        PtPath(s, r, dtb, b, k, t, "any") /\ PtEnds(s, b, k, t[k], v, "any")
  BY DEF PtReaches
<1>2. PICK t \in [1..k -> 1..(s.next - 1)] :
        PtPath(s, r, dtb, b, k, t, "any") /\ PtEnds(s, b, k, t[k], v, "any")
  BY <1>1
<1>3. PICK tables : tables = PtSeen(s)
  OBVIOUS
<1>4. PICK at : PtStepped(at, tables, dtb, b)
  BY PtWalkIs
<1>5. /\ at[0] = [table |-> t[1], done |-> FALSE]
      /\ \A d \in 1..PtLevels : at[d] = PtStep(tables, at[d - 1], b[d], d)
      /\ PtWalk(tables, dtb, b) = at[PtLevels].table
  BY <1>2, <1>4 DEF PtStepped, PtPath
<1>6. \A j \in 1..(k - 1) : tables[t[j]][b[j]] = PtLink(t[j + 1])
  BY <1>2, <1>3 DEF PtPath
<1>7. ASSUME NEW j \in 1..(k - 1), at[j - 1] = [table |-> t[j], done |-> FALSE]
      PROVE  at[j] = [table |-> t[j + 1], done |-> FALSE]
  <2>1. j \in 1..PtLevels /\ at[j] = PtStep(tables, at[j - 1], b[j], j)
    BY <1>1, <1>5, PtConstants
  <2>3. tables[t[j]][b[j]] = PtLink(t[j + 1])
    BY <1>6
  <2>4. PtStep(tables, [table |-> t[j], done |-> FALSE], b[j], j)
        = [table |-> t[j + 1], done |-> FALSE]
    BY <2>3, PtStepLink
  <2> QED  BY <1>7, <2>1, <2>4
<1>8. at[k - 1] = [table |-> t[k], done |-> FALSE]
  <2>1. k = 2 \/ k = 3 \/ k = 4 => at[1] = [table |-> t[2], done |-> FALSE]
    BY <1>5, <1>7
  <2>2. k = 3 \/ k = 4 => at[2] = [table |-> t[3], done |-> FALSE]
    BY <1>7, <2>1
  <2>3. k = 4 => at[3] = [table |-> t[4], done |-> FALSE]
    BY <1>7, <2>2
  <2>4. k = 1 \/ k = 2 \/ k = 3 \/ k = 4
    BY <1>1, PtConstants
  <2>5. CASE k = 1
    BY <1>5, <2>5
  <2>6. CASE k = 2
    BY <2>1, <2>6
  <2>7. CASE k = 3
    BY <2>2, <2>7
  <2>8. CASE k = 4
    BY <2>3, <2>8
  <2> QED  BY <2>4, <2>5, <2>6, <2>7, <2>8
<1>9. at[k] = PtStep(tables, at[k - 1], b[k], k) /\ at[k - 1].table = t[k] /\ ~at[k - 1].done
  BY <1>1, <1>5, <1>8
<1>10. ASSUME NEW d \in 1..PtLevels, at[d].done
       PROVE  at[PtLevels] = at[d]
  <2>1. ASSUME NEW c \in 1..(PtLevels - 1), at[c].done
        PROVE  at[c + 1] = at[c]
    <3>1. c + 1 \in 1..PtLevels /\ (c + 1) - 1 = c
      BY PtConstants
    <3>2. at[c + 1] = PtStep(tables, at[c], b[c + 1], c + 1)
      BY <1>5, <3>1
    <3> QED  BY <2>1, <3>2 DEF PtStep
  <2> QED  BY <1>10, <2>1, PtConstants
<1>11. CASE k < PtLevels /\ v = Unmapped /\ tables[t[k]][b[k]] = PtZero
  <2>1. at[k] = [table |-> Unmapped, done |-> TRUE]
    BY <1>9, <1>11 DEF PtStep, PtZero
  <2> QED  BY <1>3, <1>5, <1>10, <1>11, <2>1
<1>12. CASE k = PtLevels - 1 /\ tables[t[k]][b[k]] = [frame |-> v, p |-> TRUE, ps |-> TRUE]
  <2>1. k > 1 /\ k \in {PtLevels - 2, PtLevels - 1}
    BY <1>12, PtConstants
  <2>2. at[k] = [table |-> v, done |-> TRUE]
    <3>1. PtStep(tables, [table |-> t[k], done |-> FALSE], b[k], k) = [table |-> v, done |-> TRUE]
      BY <1>12, <2>1, PtStepLarge
    <3> QED  BY <1>8, <1>9, <3>1
  <2> QED  BY <1>3, <1>5, <1>10, <1>12, <2>2
<1>13. CASE /\ k = PtLevels
            /\ v = IF tables[t[k]][b[k]].p THEN tables[t[k]][b[k]].frame ELSE Unmapped
  <2>1. at[k].table = v
    BY <1>9, <1>13 DEF PtStep
  <2> QED  BY <1>3, <1>5, <1>13, <2>1
<1> QED  BY <1>2, <1>3, <1>11, <1>12, <1>13 DEF PtEnds

\* A page that did not go through data goes the tidy way.
LEMMA PtTidied ==
  ASSUME NEW s, PtBooks(s), NEW r, NEW dtb, NEW a, NEW b, NEW v,
         PtReaches(s, r, dtb, b, v, "any"), \A l \in 1..(PtLevels - 1) : b[l] = a[l],
         NEW at, at[0] = dtb, NEW tables, tables = PtSeen(s),
         \A d \in 1..(PtLevels - 1) :
           at[d] = IF at[d - 1] = 0 THEN 0 ELSE tables[at[d - 1]][a[d]].frame,
         at[PtLevels - 1] = 0 \/ s.mirrors[at[PtLevels - 1]] # NoWindow
  PROVE  PtReaches(s, r, dtb, b, v, "tidy")
<1>1. PICK k \in 1..PtLevels : \E t \in [1..k -> 1..(s.next - 1)] :
        PtPath(s, r, dtb, b, k, t, "any") /\ PtEnds(s, b, k, t[k], v, "any")
  BY DEF PtReaches
<1>2. PICK t \in [1..k -> 1..(s.next - 1)] :
        PtPath(s, r, dtb, b, k, t, "any") /\ PtEnds(s, b, k, t[k], v, "any")
  BY <1>1
<1>3. s.next \in Nat /\ \A j \in 1..k : t[j] # 0
  BY <1>2, PtTyped, PtConstants
<1>4. \A j \in 1..(k - 1) : tables[t[j]][b[j]].frame = t[j + 1]
  <2>1. \A j \in 1..(k - 1) : tables[t[j]][b[j]] = PtLink(t[j + 1])
    BY <1>2 DEF PtPath
  <2>2. \A g : PtLink(g).frame = g
    BY DEF PtLink
  <2> QED  BY <2>1, <2>2
<1>5. ASSUME NEW j \in 1..(k - 1), at[j - 1] = t[j]
      PROVE  at[j] = t[j + 1]
  <2>1. j \in 1..(PtLevels - 1) /\ j \in 1..k
    BY <1>1, PtConstants
  <2>2. at[j] = tables[t[j]][a[j]].frame
    BY <1>3, <1>5, <2>1
  <2> QED  BY <1>4, <2>1, <2>2
<1>6. at[k - 1] = t[k]
  <2>1. at[0] = t[1]
    BY <1>2 DEF PtPath
  <2>2. k = 2 \/ k = 3 \/ k = 4 => at[1] = t[2]
    BY <1>5, <2>1
  <2>3. k = 3 \/ k = 4 => at[2] = t[3]
    BY <1>5, <2>2
  <2>4. k = 4 => at[3] = t[4]
    BY <1>5, <2>3
  <2>5. k = 1 \/ k = 2 \/ k = 3 \/ k = 4
    BY <1>1, PtConstants
  <2>6. CASE k = 1
    BY <2>1, <2>6
  <2>7. CASE k = 2
    BY <2>2, <2>7
  <2>8. CASE k = 3
    BY <2>3, <2>8
  <2>9. CASE k = 4
    BY <2>4, <2>9
  <2> QED  BY <2>5, <2>6, <2>7, <2>8, <2>9
<1>7. \A j \in 1..k : s.mirrors[t[j]] = PtWindow(r, b, j - 1)
  <2>1. ASSUME NEW j \in 1..k, j = PtLevels, s.mirrors[t[j]] = NoWindow
        PROVE  FALSE
    <3>1. k = PtLevels /\ k \in 1..k
      BY <1>1, <2>1, PtConstants
    <3>2. at[PtLevels - 1] = t[k] /\ t[k] # 0
      BY <1>3, <1>6, <3>1
    <3> QED  BY <2>1, <3>1, <3>2
  <2> QED  BY <1>2, <2>1 DEF PtPath
<1>8. PtPath(s, r, dtb, b, k, t, "tidy")
  BY <1>2, <1>7 DEF PtPath
<1>9. PtEnds(s, b, k, t[k], v, "tidy")
  <2>1. ASSUME k = PtLevels - 1, v \in 1..(s.next - 1), s.mirrors[v] = NoWindow,
               PtSeen(s)[t[k]][b[k]] = [frame |-> v, p |-> TRUE, ps |-> TRUE]
        PROVE  FALSE
    <3>1. k \in 1..(PtLevels - 1) /\ k \in 1..k /\ v # 0
      BY <1>1, <1>3, <2>1, PtConstants
    <3>2. at[k] = tables[t[k]][b[k]].frame
      BY <1>3, <1>6, <3>1
    <3>3. at[k] = v
      BY <2>1, <3>2
    <3> QED  BY <2>1, <3>1, <3>3
  <2> QED  BY <1>2, <2>1 DEF PtEnds
<1> QED  BY <1>1, <1>8, <1>9 DEF PtReaches

-----------------------------------------------------------------------------
LEMMA PtInvKept ==
  ASSUME PtInv
  PROVE  PtTablesKept
<1> DEFINE now == PtNow(0)
<1>1. /\ PtSound(now) /\ PtBooks(now) /\ PtTree(now) /\ PtTopsBut(now, 0)
      /\ PtOwn(now, ptProcs) /\ PtKnown(now, ptProcs, ptExpected)
  BY DEF PtInv, PtSound
<1>2. PtSynced = PtSeen(now) /\ now.mirrors = ptMirrors /\ now.next = ptNext
  BY PtSyncedIs DEF PtNow
<1> HIDE DEF now
<1>3. PtWalksReach
  <2>1. ASSUME NEW p \in PtProcesses, NEW a \in PtPages, ptProcs[p] # NoProc,
               ~PtRefused(ptProcs[p].selfRef, a), ptExpected[p][a] # Unknown
        PROVE  PtWalk(PtSynced, ptProcs[p].dtb, a) = ptExpected[p][a]
    <3>1. PtReaches(now, ptProcs[p].selfRef, ptProcs[p].dtb, a, ptExpected[p][a], "any")
      BY <1>1, <2>1 DEF PtKnown
    <3> QED  BY <1>1, <1>2, <3>1, PtWalkReaches
  <2> QED  BY <2>1 DEF PtWalksReach
<1>4. 1..(now.next - 1) \subseteq PtFrames /\ now.next \in Nat
  BY <1>1, PtTyped, PtConstants
<1>5. \A g : PtLink(g).p /\ PtLink(g).frame = g
  BY DEF PtLink
<1>6. ASSUME NEW p \in PtProcesses, ptProcs[p] # NoProc
      PROVE  ptProcs[p].dtb \in PtSelfRefFrames(PtSynced)
  <2>1. PICK f : f = ptProcs[p].dtb
    OBVIOUS
  <2>2. PICK r : r = ptProcs[p].selfRef
    OBVIOUS
  <2>3. /\ r \in PtSelfRefs /\ f \in 1..(now.next - 1) /\ now.mirrors[f] = PtWindow(r, <<>>, 0)
    BY <1>1, <1>6, <2>1, <2>2 DEF PtOwn
  <2>4. PtAtDepth(now.mirrors[f], 0) /\ now.mirrors[f][1] = r /\ r \in PtIdx
    <3>1. PICK a : a \in PtAddresses
      <4>1. [l \in 1..PtLevels |-> 0] \in PtAddresses
        BY PtConstants DEF PtAddresses
      <4> QED  BY <4>1
    <3>2. r \in PtIdx /\ 0 \in 0..(PtLevels - 1) /\ \A l \in 1..0 : a[l] # PtSentinel
      BY <2>3, PtConstants
    <3> QED  BY <2>3, <3>1, <3>2, PtWindowIs
  <2>5. f # 0 /\ f \in PtFrames
    BY <1>4, <2>3
  <2>6. PtSeen(now)[f][r] = PtLink(f)
    BY <1>1, <2>4, <2>5 DEF PtTopsBut
  <2> QED  BY <1>2, <1>5, <2>1, <2>3, <2>4, <2>6 DEF PtSelfRefFrames
<1>7. ASSUME NEW f \in PtSelfRefFrames(PtSynced)
      PROVE  \E r \in PtSelfRefs : ptMirrors[f] = PtWindow(r, <<>>, 0)
  <2>1. PICK i \in PtIdx : PtSeen(now)[f][i].frame = f
    BY <1>2, <1>7 DEF PtSelfRefFrames
  <2>2. f \in 1..(now.next - 1) /\ f \in PtFrames /\ f # 0
    BY <1>2, <1>4, <1>7 DEF PtSelfRefFrames
  <2>3. PtSeen(now)[f][i] \in PtBoth(now, f, i)
    BY DEF PtBoth
  <2>4. now.mirrors[f] # NoWindow /\ ~PtAtDepth(now.mirrors[f], PtLevels - 1)
    BY <1>1, <2>1, <2>2, <2>3 DEF PtTree
  <2>5. PICK d \in 0..(PtLevels - 1) : PtAtDepth(now.mirrors[f], d)
    BY <1>1, <2>2, <2>4 DEF PtBooks
  <2>6. d \in 0..(PtLevels - 2)
    BY <2>4, <2>5, PtConstants
  <2>7. PtLeads(now, f, d, i, f)
    BY <1>1, <2>1, <2>2, <2>3, <2>5, <2>6 DEF PtTree
  <2>8. d = 0
    <3>1. now.mirrors[f] # [now.mirrors[f] EXCEPT ![d + 2] = i] \/ i = PtSentinel
      <4>1. d + 2 \in (d + 2)..PtLevels /\ d + 2 \in 1..PtLevels
        BY <2>6, PtConstants
      <4>2. now.mirrors[f][d + 2] = PtSentinel /\ now.mirrors[f] \in PtWindows
        BY <2>5, <4>1 DEF PtAtDepth
      <4>3. [now.mirrors[f] EXCEPT ![d + 2] = i][d + 2] = i
        BY <4>1, <4>2 DEF PtWindows
      <4> QED  BY <4>2, <4>3
    <3> QED  BY <2>4, <2>7, <3>1 DEF PtLeads
  <2>9. now.mirrors[f] = PtWindow(now.mirrors[f][1], <<>>, 0) /\ now.mirrors[f][1] \in PtSelfRefs
    BY <2>5, <2>8, PtTopWindow DEF PtAtDepth
  <2> QED  BY <1>2, <2>9
<1>8. PtScanFinds
  BY <1>6, <1>7 DEF PtScanFinds
<1> QED  BY <1>3, <1>8 DEF PtTablesKept

\* A step takes no table away, and changes nothing of what is known of the pages.
PtHolds(s, u) ==
  /\ s.next \in Nat /\ u.next \in Nat /\ s.next <= u.next
  /\ \A f \in 1..(s.next - 1) : u.mirrors[f] = s.mirrors[f]
PtKeeps(s, u) ==
  /\ PtHolds(s, u)
  /\ \A q \in PtSelfRefs, b \in PtAddresses, how \in {"tidy", "any"} : \A top, v :
       PtReaches(s, q, top, b, v, how) => PtReaches(u, q, top, b, v, how)

LEMMA PtHoldsOwn ==
  ASSUME NEW s, NEW u, PtHolds(s, u), NEW procs, PtOwn(s, procs)
  PROVE  PtOwn(u, procs)
<1>1. ASSUME NEW p \in PtProcesses, procs[p] # NoProc
      PROVE  /\ procs[p].selfRef \in PtSelfRefs /\ procs[p].dtb \in 1..(u.next - 1)
             /\ u.mirrors[procs[p].dtb] = PtWindow(procs[p].selfRef, <<>>, 0)
  <2>1. /\ procs[p].selfRef \in PtSelfRefs /\ procs[p].dtb \in 1..(s.next - 1)
        /\ s.mirrors[procs[p].dtb] = PtWindow(procs[p].selfRef, <<>>, 0)
    BY <1>1 DEF PtOwn
  <2>2. \A f \in 1..(s.next - 1) : f \in 1..(u.next - 1)
    BY DEF PtHolds
  <2> QED  BY <2>1, <2>2 DEF PtHolds
<1> QED  BY <1>1 DEF PtOwn

LEMMA PtKeepsOwn ==
  ASSUME NEW s, NEW u, PtKeeps(s, u), NEW procs, PtOwn(s, procs)
  PROVE  PtOwn(u, procs)
BY PtHoldsOwn DEF PtKeeps

LEMMA PtKeepsKnown ==
  ASSUME NEW s, NEW u, PtKeeps(s, u), NEW procs, PtOwn(s, procs),
         NEW expected, PtKnown(s, procs, expected)
  PROVE  PtKnown(u, procs, expected)
<1>1. ASSUME NEW p \in PtProcesses, NEW b \in PtPages, procs[p] # NoProc,
             ~PtRefused(procs[p].selfRef, b), expected[p][b] # Unknown
      PROVE  PtReaches(u, procs[p].selfRef, procs[p].dtb, b, expected[p][b], "any")
  <2>1. PtReaches(s, procs[p].selfRef, procs[p].dtb, b, expected[p][b], "any")
    BY <1>1 DEF PtKnown
  <2>2. procs[p].selfRef \in PtSelfRefs /\ b \in PtAddresses
    BY <1>1, PtConstants DEF PtOwn
  <2> QED  BY <2>1, <2>2 DEF PtKeeps, PtHolds
<1> QED  BY <1>1 DEF PtKnown

LEMMA PtKeepsOn ==
  ASSUME NEW s, NEW m, NEW u, PtKeeps(s, m), PtKeeps(m, u)
  PROVE  PtKeeps(s, u)
<1>1. s.next \in Nat /\ m.next \in Nat /\ u.next \in Nat /\ s.next <= m.next /\ m.next <= u.next
  BY DEF PtKeeps, PtHolds
<1>2. \A f \in 1..(s.next - 1) : f \in 1..(m.next - 1)
  BY <1>1
<1>3. \A f \in 1..(s.next - 1) : u.mirrors[f] = s.mirrors[f]
  BY <1>2 DEF PtKeeps, PtHolds
<1> QED  BY <1>1, <1>3 DEF PtKeeps, PtHolds

\* A page is reached as before where the tables it goes through are as before.
PtReads(s, u, q) ==
  \A f \in 1..(s.next - 1), i \in PtIdx :
    (s.mirrors[f] # NoWindow => s.mirrors[f][1] = q) =>
      /\ PtSeen(u)[f][i] = PtSeen(s)[f][i]
      /\ PtSeen(s)[f][i] = PtZero /\ s.phys[f][i] = PtZero => u.phys[f][i] = PtZero

LEMMA PtReachesLike ==
  ASSUME NEW s, NEW u, s.next \in Nat, u.next \in Nat, s.next <= u.next,
         \A f \in 1..(s.next - 1) : u.mirrors[f] = s.mirrors[f],
         NEW q \in PtSelfRefs, NEW b \in PtAddresses, NEW how, NEW top, NEW v,
         PtReads(s, u, q), PtReaches(s, q, top, b, v, how)
  PROVE  PtReaches(u, q, top, b, v, how)
<1>1. PICK k \in 1..PtLevels : \E t \in [1..k -> 1..(s.next - 1)] :
        PtPath(s, q, top, b, k, t, how) /\ PtEnds(s, b, k, t[k], v, how)
  BY DEF PtReaches
<1>2. PICK t \in [1..k -> 1..(s.next - 1)] :
        PtPath(s, q, top, b, k, t, how) /\ PtEnds(s, b, k, t[k], v, how)
  BY <1>1
<1>3. ASSUME NEW j \in 1..k
      PROVE  /\ b[j] \in PtIdx /\ PtSeen(u)[t[j]][b[j]] = PtSeen(s)[t[j]][b[j]]
             /\ PtSeen(s)[t[j]][b[j]] = PtZero /\ s.phys[t[j]][b[j]] = PtZero =>
                  u.phys[t[j]][b[j]] = PtZero
  <2>1. j \in 1..PtLevels /\ t[j] \in 1..(s.next - 1) /\ j - 1 \in 0..(PtLevels - 1) /\ q \in PtIdx
    BY <1>1, <1>2, PtConstants
  <2>2. b[j] \in PtIdx
    BY <2>1 DEF PtAddresses
  <2>3. s.mirrors[t[j]] # NoWindow => s.mirrors[t[j]] = PtWindow(q, b, j - 1)
    BY <1>2 DEF PtPath
  <2>4. PtWindow(q, b, j - 1)[1] = q
    BY <2>1, PtWindowIs
  <2> QED  BY <2>1, <2>2, <2>3, <2>4 DEF PtReads
<1>4. \A j \in 1..(k - 1) : PtSeen(u)[t[j]][b[j]] = PtSeen(s)[t[j]][b[j]]
  BY <1>1, <1>3, PtConstants
<1>5. PtPath(u, q, top, b, k, t, how)
  BY <1>2, <1>4, PtPathKept
<1>6. k \in 1..k /\ t[k] \in 1..(s.next - 1)
  BY <1>1, <1>2, PtConstants
<1>7. PtEnds(u, b, k, t[k], v, how)
  <2>1. PtSeen(u)[t[k]][b[k]] = PtSeen(s)[t[k]][b[k]]
    BY <1>3, <1>6
  <2>2. PtSeen(s)[t[k]][b[k]] = PtZero /\ s.phys[t[k]][b[k]] = PtZero => u.phys[t[k]][b[k]] = PtZero
    BY <1>3, <1>6
  <2>3. v \in 1..(s.next - 1) /\ s.mirrors[v] = NoWindow
          => v \in 1..(u.next - 1) /\ u.mirrors[v] = NoWindow
    OBVIOUS
  <2> QED  BY <1>2, <2>1, <2>2, <2>3 DEF PtEnds
<1>8. t \in [1..k -> 1..(u.next - 1)]
  BY <1>5 DEF PtPath
<1> QED  BY <1>1, <1>5, <1>7, <1>8 DEF PtReaches

\* The table and the throw of a state say nothing of its pages.
PtAlike(s, u) ==
  u.phys = s.phys /\ u.alias = s.alias /\ u.mirrors = s.mirrors /\ u.next = s.next

LEMMA PtSoundAlike ==
  ASSUME NEW s, PtSound(s), NEW u \in PtStates, PtAlike(s, u)
  PROVE  PtSound(u) /\ PtKeeps(s, u) /\ PtSeen(u) = PtSeen(s)
<1>1. PtBooks(s) /\ PtTree(s) /\ PtTopsBut(s, 0)
  BY DEF PtSound
<1>2. PtSeen(u) = PtSeen(s) /\ \A f, i : PtBoth(u, f, i) = PtBoth(s, f, i)
  BY DEF PtAlike, PtSeen, PtBoth
<1>3. u.phys = s.phys /\ u.alias = s.alias /\ u.mirrors = s.mirrors /\ u.next = s.next
  BY DEF PtAlike
<1>4. PtBooks(u)
  BY <1>1, <1>3 DEF PtBooks
<1>5. PtThinner(s, u)
  <2>1. ASSUME NEW f \in PtFrames, NEW i \in PtIdx, NEW e \in PtBoth(u, f, i)
        PROVE  e = PtZero \/ \E x \in PtBoth(s, f, i) : x.frame # 0 /\ e.frame = x.frame
    <3>1. e \in PtBoth(s, f, i)
      BY <1>2
    <3>2. e.frame = 0 => e = PtZero
      BY <1>1, <3>1 DEF PtTree
    <3> QED  BY <3>1, <3>2
  <2> QED  BY <1>3, <2>1 DEF PtThinner
<1>6. PtTree(u)
  BY <1>1, <1>5, PtTreeThinner
<1>7. PtTopsBut(u, 0)
  BY <1>1, <1>2, <1>3 DEF PtTopsBut
<1>8. s.next \in Nat
  BY <1>1, PtTyped, PtConstants
<1>9. PtKeeps(s, u)
  <2>1. \A q : PtReads(s, u, q)
    BY <1>2, <1>3 DEF PtReads
  <2>2. /\ s.next \in Nat /\ u.next \in Nat /\ s.next <= u.next
        /\ \A f \in 1..(s.next - 1) : u.mirrors[f] = s.mirrors[f]
    BY <1>3, <1>8
  <2>3. ASSUME NEW q \in PtSelfRefs, NEW b \in PtAddresses, NEW how, NEW top, NEW v,
               PtReaches(s, q, top, b, v, how)
        PROVE  PtReaches(u, q, top, b, v, how)
    BY <2>1, <2>2, <2>3, PtReachesLike
  <2> QED  BY <2>2, <2>3 DEF PtKeeps, PtHolds
<1> QED  BY <1>2, <1>4, <1>6, <1>7, <1>9 DEF PtSound

-----------------------------------------------------------------------------
LEMMA PtNowIs ==
  ASSUME PtTypeOK, NEW table \in 0..PtForeign
  PROVE  /\ PtNow(table) \in PtStates /\ PtAlike(PtNow(0), PtNow(table))
         /\ PtNow(table).table = table /\ ~PtNow(table).threw
         /\ PtNow(table).next = ptNext /\ PtNow(table).mirrors = ptMirrors
<1>1. ptNext \in 1..PtForeign
  BY PtConstants DEF PtTypeOK
<1>2. /\ ptPhys \in [PtFrames -> PtRows] /\ ptAlias \in [PtWindows -> PtRows \cup {PtNoPage}]
      /\ ptMirrors \in [PtFrames -> PtWindows \cup {NoWindow}]
  BY DEF PtTypeOK, PtRows
<1> QED  BY <1>1, <1>2 DEF PtNow, PtStates, PtAlike

\* The invariant after a step, told of the state it becomes.
LEMMA PtInvAfter ==
  ASSUME NEW u, PtBecomes(u), PtSound(u), u.next <= PtMaxFrames + 1,
         PtOwn(u, ptProcs'), PtKnown(u, ptProcs', ptExpected'), ptEdits' \in 0..PtMaxEdits,
         ptExpected' \in [PtProcesses -> [PtPages -> Unknown..PtForeign]]
  PROVE  PtInv'
<1>1. u \in PtStates /\ u.next \in 1..PtForeign
  BY PtTyped DEF PtSound
<1>2. PtTypeOK'
  <2>1. /\ ptPhys' \in [PtFrames -> PtRows] /\ ptAlias' \in [PtWindows -> PtRows \cup {PtNoPage}]
        /\ ptMirrors' \in [PtFrames -> PtWindows \cup {NoWindow}]
    BY <1>1 DEF PtStates, PtBecomes
  <2>2. ptNext' \in 1..(PtMaxFrames + 1)
    BY <1>1, PtConstants DEF PtBecomes
  <2>3. ptProcs' \in [PtProcesses -> [dtb : 0..PtMaxFrames, selfRef : PtIdx]]
    BY DEF PtOwn
  <2> QED  BY <2>1, <2>2, <2>3 DEF PtTypeOK, PtRows
<1>3. PICK z : z = [phys |-> u.phys, alias |-> u.alias, mirrors |-> u.mirrors, next |-> u.next,
                    table |-> 0, threw |-> FALSE]
  OBVIOUS
<1>4. PtNow(0)' = z
  BY <1>3 DEF PtNow, PtBecomes
<1>5. z \in PtStates /\ PtAlike(u, z)
  <2>1. 0 \in 0..PtForeign
    BY PtConstants
  <2> QED  BY <1>1, <1>3, <2>1 DEF PtStates, PtAlike
<1>6. PtSound(z) /\ PtKeeps(u, z)
  BY <1>5, PtSoundAlike
<1>7. PtOwn(z, ptProcs')
  BY <1>6, PtKeepsOwn
<1>8. PtKnown(z, ptProcs', ptExpected')
  BY <1>6, PtKeepsKnown
<1> QED  BY <1>2, <1>4, <1>6, <1>7, <1>8 DEF PtInv

\* A step that keeps what is known and learns nothing.
LEMMA PtInvKeeps ==
  ASSUME PtInv, NEW u, PtBecomes(u), PtSound(u), PtKeeps(PtNow(0), u), u.next <= PtMaxFrames + 1,
         UNCHANGED <<ptProcs, ptExpected>>, ptEdits' \in 0..PtMaxEdits
  PROVE  PtInv'
<1>1. PtOwn(u, ptProcs) /\ PtKnown(u, ptProcs, ptExpected)
  BY PtKeepsOwn, PtKeepsKnown DEF PtInv
<1>2. ptExpected' \in [PtProcesses -> [PtPages -> Unknown..PtForeign]]
  BY DEF PtInv, PtTypeOK
<1> QED  BY <1>1, <1>2, PtInvAfter

LEMMA PtGrownKeeps ==
  ASSUME NEW s, PtSound(s), NEW u, PtBooks(u), PtGrown(s, u, NoWindow)
  PROVE  PtSound(u) /\ PtKeeps(s, u)
<1>1. PtBooks(s) /\ PtTree(s) /\ PtTopsBut(s, 0)
  BY DEF PtSound
<1>2. PtTree(u)
  BY <1>1, PtTreeGrown
<1>3. ~PtAtDepth(NoWindow, 0)
  BY PtConstants DEF PtAtDepth
<1>4. PtTopsBut(u, 0)
  BY <1>1, <1>3, PtTopsGrown
<1>5. s.next \in Nat /\ u.next \in Nat /\ s.next <= u.next
  BY <1>1, PtTyped, PtConstants DEF PtGrown
<1>6. \A f \in 1..(s.next - 1) : u.mirrors[f] = s.mirrors[f]
  BY <1>1, <1>5, PtTyped DEF PtGrown
<1>7. ASSUME NEW q \in PtSelfRefs, NEW b \in PtAddresses, NEW how, NEW top, NEW v,
             PtReaches(s, q, top, b, v, how)
      PROVE  PtReaches(u, q, top, b, v, how)
  BY <1>1, <1>7, PtReachesGrown
<1>8. PtKeeps(s, u)
  BY <1>5, <1>6, <1>7 DEF PtKeeps, PtHolds
<1> QED  BY <1>2, <1>4, <1>8 DEF PtSound

\* The frame of new data is no table's yet.
LEMMA PtNewSpare ==
  ASSUME NEW s, PtSound(s), NEW u, PtBooks(u), PtGrown(s, u, NoWindow)
  PROVE  PtSpare(u, s.next) /\ s.next \in 1..PtForeign
<1>1. PtBooks(s) /\ PtTree(s)
  BY DEF PtSound
<1>2. s.next \in PtFrames /\ s.next \in Nat /\ s.next \in 1..PtForeign /\ s.next # 0
  BY <1>1, PtTyped, PtConstants DEF PtGrown
<1>3. s.mirrors[s.next] = NoWindow
  BY <1>1, <1>2 DEF PtBooks
<1>4. s.next \in 1..(u.next - 1) /\ u.mirrors[s.next] = NoWindow
  BY <1>2 DEF PtGrown
<1>5. ASSUME NEW f \in PtFrames, NEW i \in PtIdx, PtAtDepth(u.mirrors[f], PtLevels - 2),
             NEW e \in PtBoth(u, f, i), e.frame = s.next
      PROVE  FALSE
  <2>1. f # s.next
    BY <1>4, <1>5, PtConstants DEF PtAtDepth
  <2>2. u.mirrors[f] = s.mirrors[f] /\ PtBoth(u, f, i) = PtBoth(s, f, i)
    BY <2>1, PtBothGrown DEF PtGrown
  <2>3. PtLevels - 2 \in 0..(PtLevels - 2) /\ PtLevels - 2 # 0
    BY PtConstants
  <2>4. PtLeads(s, f, PtLevels - 2, i, s.next)
    BY <1>1, <1>2, <1>5, <2>2, <2>3 DEF PtTree
  <2>5. s.mirrors[f] \in PtWindows /\ PtLevels - 2 + 2 \in 1..PtLevels
    BY <1>5, <2>2, PtConstants DEF PtAtDepth
  <2>6. [s.mirrors[f] EXCEPT ![PtLevels - 2 + 2] = i] \in PtWindows
    BY <2>5 DEF PtWindows
  <2> QED  BY <1>2, <1>3, <2>3, <2>4, <2>6, PtConstants DEF PtLeads
<1> QED  BY <1>2, <1>4, <1>5 DEF PtSpare

-----------------------------------------------------------------------------
\* A step that writes no table afresh: entries are copied, turned or cleared.
LEMMA PtSoundThinner ==
  ASSUME NEW s, PtSound(s), NEW u, PtBooks(u), PtThinner(s, u),
         \A f \in PtFrames : PtAtDepth(s.mirrors[f], 0) =>
           PtSeen(u)[f][s.mirrors[f][1]] = PtSeen(s)[f][s.mirrors[f][1]]
  PROVE  PtSound(u)
<1>1. PtBooks(s) /\ PtTree(s) /\ PtTopsBut(s, 0)
  BY DEF PtSound
<1>2. PtTree(u)
  BY <1>1, PtTreeThinner
<1>3. PtTopsBut(u, 0)
  BY <1>1 DEF PtTopsBut, PtThinner
<1> QED  BY <1>2, <1>3 DEF PtSound

LEMMA PtInvSync ==
  ASSUME PtInv, PtSyncAliases
  PROVE  PtInv'
<1> DEFINE s == PtNow(0)
<1>1. PtSound(s) /\ PtBooks(s) /\ PtTree(s) /\ PtTypeOK
  BY DEF PtInv, PtSound
<1>2. /\ s \in PtStates /\ s.next = ptNext /\ s.mirrors = ptMirrors
      /\ s.phys = ptPhys /\ s.alias = ptAlias
  BY <1>1, PtTyped DEF PtNow
<1>3. PtSynced = PtSeen(s)
  BY PtSyncedIs
<1>4. PICK u : u = [phys |-> PtSeen(s), alias |-> s.alias, mirrors |-> s.mirrors, next |-> s.next,
                    table |-> 0, threw |-> FALSE]
  OBVIOUS
<1>5. PtBecomes(u)
  BY <1>2, <1>3, <1>4 DEF PtSyncAliases, PtBecomes
<1>6. /\ u.phys = PtSeen(s) /\ u.alias = s.alias /\ u.mirrors = s.mirrors /\ u.next = s.next
      /\ u \in PtStates
  <2>1. PtSeen(s) \in [PtFrames -> PtRows] /\ 0 \in 0..PtForeign
    BY <1>2, PtSeenTyped, PtConstants
  <2> QED  BY <1>2, <1>4, <2>1 DEF PtStates
<1> HIDE DEF s
<1>7. PtSeen(u) = PtSeen(s)
  <2>1. \A f \in PtFrames : PtSeen(u)[f] = PtSeen(s)[f]
    BY <1>6 DEF PtSeen
  <2> QED  BY <2>1 DEF PtSeen
<1>8. PtBooks(u)
  <2>1. ASSUME NEW f \in PtFrames, f >= u.next
        PROVE  u.mirrors[f] = NoWindow /\ u.phys[f] = PtBlank
    BY <1>1, <1>6, <2>1 DEF PtBooks, PtSeen
  <2>2. ASSUME NEW f \in PtFrames, u.mirrors[f] # NoWindow, u.alias[u.mirrors[f]] = PtNoPage
        PROVE  u.phys[f] = PtBlank
    BY <1>1, <1>6, <2>2 DEF PtBooks, PtSeen
  <2>3. /\ \A f, g \in PtFrames : u.mirrors[f] = u.mirrors[g] /\ u.mirrors[f] # NoWindow => f = g
        /\ \A f \in PtFrames : u.mirrors[f] # NoWindow =>
             \E d \in 0..(PtLevels - 1) : PtAtDepth(u.mirrors[f], d)
        /\ \A w \in PtWindows : u.alias[w] # PtNoPage => \E f \in PtFrames : u.mirrors[f] = w
    BY <1>1, <1>6 DEF PtBooks
  <2> QED  BY <1>6, <2>1, <2>2, <2>3 DEF PtBooks
<1>9. PtThinner(s, u)
  <2>1. ASSUME NEW f \in PtFrames, NEW i \in PtIdx, NEW e \in PtBoth(u, f, i)
        PROVE  e = PtZero \/ \E x \in PtBoth(s, f, i) : x.frame # 0 /\ e.frame = x.frame
    <3>1. e \in PtBoth(s, f, i)
      BY <1>6, <1>7, <2>1 DEF PtBoth
    <3> QED  BY <1>1, <3>1 DEF PtTree
  <2> QED  BY <1>6, <2>1 DEF PtThinner
<1>10. PtSound(u)
  BY <1>1, <1>7, <1>8, <1>9, PtSoundThinner
<1>11. PtKeeps(s, u)
  <2>1. s.next \in Nat /\ 1..(s.next - 1) \subseteq PtFrames
    BY <1>1, PtTyped, PtConstants
  <2>2. ASSUME NEW q
        PROVE  PtReads(s, u, q)
    BY <1>6, <1>7, <2>1 DEF PtReads
  <2>3. /\ s.next \in Nat /\ u.next \in Nat /\ s.next <= u.next
        /\ \A f \in 1..(s.next - 1) : u.mirrors[f] = s.mirrors[f]
    BY <1>6, <2>1
  <2>4. ASSUME NEW q \in PtSelfRefs, NEW b \in PtAddresses, NEW how, NEW top, NEW v,
               PtReaches(s, q, top, b, v, how)
        PROVE  PtReaches(u, q, top, b, v, how)
    BY <2>2, <2>3, <2>4, PtReachesLike
  <2> QED  BY <2>3, <2>4 DEF PtKeeps, PtHolds
<1>12. u.next <= PtMaxFrames + 1
  BY <1>1, <1>2, <1>6, PtConstants DEF PtTypeOK
<1>13. ptEdits' \in 0..PtMaxEdits /\ UNCHANGED <<ptProcs, ptExpected>>
  BY <1>1 DEF PtSyncAliases, PtTypeOK
<1> QED  BY <1>5, <1>10, <1>11, <1>12, <1>13, PtInvKeeps DEF s

\* An edit leaves an entry that leads where it led, or nowhere.
LEMMA PtEditedIs ==
  ASSUME NEW x \in PtEntries, NEW e \in PtEdited(x)
  PROVE  e \in PtEntries /\ (e = PtZero \/ e.frame = x.frame)
BY PtConstants DEF PtEdited, PtEntries

LEMMA PtInvEditFrame ==
  ASSUME PtInv, NEW f \in PtFrames, NEW i \in PtIdx, PtEditFrame(f, i)
  PROVE  PtInv'
<1> DEFINE s == PtNow(0)
<1>1. PtSound(s) /\ PtBooks(s) /\ PtTree(s) /\ PtTypeOK
  BY DEF PtInv, PtSound
<1>2. /\ s \in PtStates /\ s.next = ptNext /\ s.mirrors = ptMirrors
      /\ s.phys = ptPhys /\ s.alias = ptAlias
  BY <1>1, PtTyped DEF PtNow
<1>3. PICK e \in PtEdited(s.phys[f][i]) : ptPhys' = [ptPhys EXCEPT ![f][i] = e]
  BY <1>2 DEF PtEditFrame
<1>4. PICK u : u = [phys |-> [s.phys EXCEPT ![f][i] = e], alias |-> s.alias, mirrors |-> s.mirrors,
                    next |-> s.next, table |-> 0, threw |-> FALSE]
  OBVIOUS
<1>5. PtBecomes(u)
  BY <1>2, <1>3, <1>4 DEF PtEditFrame, PtBecomes
<1>6. s.mirrors[f] # NoWindow /\ s.phys[f][i] # PtZero
  BY <1>2 DEF PtEditFrame
<1>7. /\ s.phys[f][i] \in PtEntries /\ e \in PtEntries
      /\ (e = PtZero \/ e.frame = s.phys[f][i].frame)
      /\ s.phys \in [PtFrames -> PtRows]
  BY <1>1, <1>2, PtTyped, PtSeenTyped, PtEditedIs
<1>8. /\ u.alias = s.alias /\ u.mirrors = s.mirrors /\ u.next = s.next /\ u \in PtStates
      /\ u.phys = [s.phys EXCEPT ![f][i] = e]
  <2>1. [s.phys EXCEPT ![f][i] = e] \in [PtFrames -> PtRows] /\ 0 \in 0..PtForeign
    <3>1. [s.phys EXCEPT ![f][i] = e] \in [PtFrames -> PtRows]
      BY <1>7, PtRowTyped
    <3> QED  BY <3>1, PtConstants
  <2> QED  BY <1>2, <1>4, <2>1 DEF PtStates
<1>9. /\ \A g \in PtFrames : g # f => u.phys[g] = s.phys[g]
      /\ \A g \in PtFrames, j \in PtIdx : u.phys[g][j] = IF g = f /\ j = i THEN e ELSE s.phys[g][j]
  BY <1>7, <1>8 DEF PtRows
<1> HIDE DEF s
<1>10. s.alias[s.mirrors[f]] # PtNoPage /\ f < s.next
  <2>1. s.phys[f] # PtBlank
    BY <1>6, PtConstants
  <2>2. s.next \in Nat /\ f \in Nat
    BY <1>1, PtTyped, PtConstants
  <2> QED  BY <1>1, <1>6, <2>1, <2>2 DEF PtBooks
<1>11. PtSeen(u) = PtSeen(s)
  <2>1. \A g \in PtFrames : PtSeen(u)[g] = PtSeen(s)[g]
    BY <1>6, <1>8, <1>9, <1>10 DEF PtSeen
  <2> QED  BY <2>1 DEF PtSeen
<1>12. PtBooks(u)
  <2>0. s.next \in Nat /\ \A g \in PtFrames : g >= s.next => g # f
    BY <1>1, <1>10, PtTyped, PtConstants
  <2>1. \A g \in PtFrames : g >= u.next => u.mirrors[g] = NoWindow /\ u.phys[g] = PtBlank
    BY <1>1, <1>8, <1>9, <2>0 DEF PtBooks
  <2>2. \A g \in PtFrames : u.mirrors[g] # NoWindow /\ u.alias[u.mirrors[g]] = PtNoPage
          => u.phys[g] = PtBlank
    BY <1>1, <1>8, <1>9, <1>10 DEF PtBooks
  <2>3. /\ \A g, h \in PtFrames : u.mirrors[g] = u.mirrors[h] /\ u.mirrors[g] # NoWindow => g = h
        /\ \A g \in PtFrames : u.mirrors[g] # NoWindow =>
             \E d \in 0..(PtLevels - 1) : PtAtDepth(u.mirrors[g], d)
        /\ \A w \in PtWindows : u.alias[w] # PtNoPage => \E g \in PtFrames : u.mirrors[g] = w
    BY <1>1, <1>8 DEF PtBooks
  <2> QED  BY <1>8, <2>1, <2>2, <2>3 DEF PtBooks
<1>13. PtThinner(s, u)
  <2>1. ASSUME NEW g \in PtFrames, NEW j \in PtIdx, NEW y \in PtBoth(u, g, j)
        PROVE  y = PtZero \/ \E x \in PtBoth(s, g, j) : x.frame # 0 /\ y.frame = x.frame
    <3>1. (y = e /\ g = f /\ j = i) \/ y \in PtBoth(s, g, j)
      BY <1>9, <1>11, <2>1 DEF PtBoth
    <3>2. \A x \in PtBoth(s, g, j) : x = PtZero \/ x.frame # 0
      BY <1>1 DEF PtTree
    <3>3. s.phys[f][i] \in PtBoth(s, f, i)
      BY DEF PtBoth
    <3> QED  BY <1>6, <1>7, <3>1, <3>2, <3>3
  <2> QED  BY <1>8, <2>1 DEF PtThinner
<1>14. PtSound(u)
  BY <1>1, <1>11, <1>12, <1>13, PtSoundThinner
<1>15. PtKeeps(s, u)
  <2>1. s.next \in Nat /\ 1..(s.next - 1) \subseteq PtFrames
    BY <1>1, PtTyped, PtConstants
  <2>2. ASSUME NEW q
        PROVE  PtReads(s, u, q)
    BY <1>6, <1>9, <1>11, <2>1 DEF PtReads
  <2>3. /\ s.next \in Nat /\ u.next \in Nat /\ s.next <= u.next
        /\ \A g \in 1..(s.next - 1) : u.mirrors[g] = s.mirrors[g]
    BY <1>8, <2>1
  <2>4. ASSUME NEW q \in PtSelfRefs, NEW b \in PtAddresses, NEW how, NEW top, NEW v,
               PtReaches(s, q, top, b, v, how)
        PROVE  PtReaches(u, q, top, b, v, how)
    BY <2>2, <2>3, <2>4, PtReachesLike
  <2> QED  BY <2>3, <2>4 DEF PtKeeps, PtHolds
<1>16. u.next <= PtMaxFrames + 1
  BY <1>1, <1>2, <1>8, PtConstants DEF PtTypeOK
<1>17. ptEdits' \in 0..PtMaxEdits /\ UNCHANGED <<ptProcs, ptExpected>>
  BY <1>1, PtConstants DEF PtEditFrame, PtTypeOK
<1> QED  BY <1>5, <1>14, <1>15, <1>16, <1>17, PtInvKeeps DEF s

-----------------------------------------------------------------------------
\* An edit through a window: it reaches only the processes with that self-reference index.
LEMMA PtInvEditWindow ==
  ASSUME PtInv, NEW w \in PtWindows, NEW i \in PtIdx, PtEditWindow(w, i)
  PROVE  PtInv'
<1> DEFINE s == PtNow(0)
<1>1. PtSound(s) /\ PtBooks(s) /\ PtTree(s) /\ PtTypeOK
  BY DEF PtInv, PtSound
<1>2. /\ s \in PtStates /\ s.next = ptNext /\ s.mirrors = ptMirrors
      /\ s.phys = ptPhys /\ s.alias = ptAlias
  BY <1>1, PtTyped DEF PtNow
<1>3. PICK e \in PtEdited(s.alias[w][i]) : ptAlias' = [ptAlias EXCEPT ![w][i] = e]
  BY <1>2 DEF PtEditWindow
<1>4. PICK u : u = [phys |-> s.phys, alias |-> [s.alias EXCEPT ![w][i] = e], mirrors |-> s.mirrors,
                    next |-> s.next, table |-> 0, threw |-> FALSE]
  OBVIOUS
<1>5. PtBecomes(u)
  BY <1>2, <1>3, <1>4 DEF PtEditWindow, PtBecomes
<1>6. s.alias[w] # PtNoPage /\ i # w[1] /\ s.alias[w][i] # PtZero
  BY <1>2 DEF PtEditWindow
<1>7. /\ s.alias \in [PtWindows -> PtRows \cup {PtNoPage}] /\ s.alias[w] \in PtRows
      /\ s.alias[w][i] \in PtEntries /\ e \in PtEntries
      /\ e = PtZero \/ e.frame = s.alias[w][i].frame
  <2>1. s.alias \in [PtWindows -> PtRows \cup {PtNoPage}]
    BY <1>2 DEF PtStates
  <2>2. s.alias[w] \in PtRows
    BY <1>6, <2>1
  <2>3. s.alias[w][i] \in PtEntries
    BY <2>2 DEF PtRows
  <2> QED  BY <2>1, <2>2, <2>3, PtEditedIs
<1>8. /\ u.phys = s.phys /\ u.mirrors = s.mirrors /\ u.next = s.next /\ u \in PtStates
      /\ \A x \in PtWindows : x # w => u.alias[x] = s.alias[x]
      /\ u.alias[w] \in PtRows /\ u.alias[w] # PtNoPage
      /\ \A j \in PtIdx : u.alias[w][j] = IF j = i THEN e ELSE s.alias[w][j]
  <2>1. u.alias = [s.alias EXCEPT ![w] = [s.alias[w] EXCEPT ![i] = e]]
    BY <1>4
  <2>2. [s.alias[w] EXCEPT ![i] = e] \in PtRows
    BY <1>7 DEF PtRows
  <2>3. /\ u.alias \in [PtWindows -> PtRows \cup {PtNoPage}]
        /\ u.alias[w] = [s.alias[w] EXCEPT ![i] = e]
    BY <1>7, <2>1, <2>2
  <2>4. \A j \in PtIdx : u.alias[w][j] = IF j = i THEN e ELSE s.alias[w][j]
    BY <1>7, <2>3 DEF PtRows
  <2>5. u.alias[w] # PtNoPage
    BY <2>2, <2>3, PtConstants
  <2>6. \A x \in PtWindows : x # w => u.alias[x] = s.alias[x]
    BY <1>7, <2>1
  <2>7. u \in PtStates
    BY <1>2, <1>4, <2>1, <2>3, PtConstants DEF PtStates
  <2> QED  BY <1>4, <2>2, <2>3, <2>4, <2>5, <2>6, <2>7
<1> HIDE DEF s
<1>9. \A x \in PtWindows : u.alias[x] = PtNoPage <=> s.alias[x] = PtNoPage
  BY <1>6, <1>8
<1>10. \A g \in PtFrames : s.mirrors[g] # NoWindow => s.mirrors[g] \in PtWindows
  BY <1>1, PtTyped
<1>11. /\ \A g \in PtFrames : s.mirrors[g] # w => PtSeen(u)[g] = PtSeen(s)[g]
       /\ \A g \in PtFrames, j \in PtIdx : s.mirrors[g] = w =>
            /\ PtSeen(s)[g] = s.alias[w]
            /\ PtSeen(u)[g][j] = IF j = i THEN e ELSE PtSeen(s)[g][j]
  <2>1. w # NoWindow
    BY PtConstants
  <2>2. ASSUME NEW g \in PtFrames, s.mirrors[g] # w
        PROVE  PtSeen(u)[g] = PtSeen(s)[g]
    BY <1>8, <1>10, <2>2 DEF PtSeen
  <2>3. ASSUME NEW g \in PtFrames, s.mirrors[g] = w
        PROVE  PtSeen(s)[g] = s.alias[w] /\ PtSeen(u)[g] = u.alias[w]
    BY <1>6, <1>8, <2>1, <2>3 DEF PtSeen
  <2> QED  BY <1>8, <2>2, <2>3
<1>12. PtBooks(u)
  <2>1. /\ \A f \in PtFrames : f >= u.next => u.mirrors[f] = NoWindow /\ u.phys[f] = PtBlank
        /\ \A f, g \in PtFrames : u.mirrors[f] = u.mirrors[g] /\ u.mirrors[f] # NoWindow => f = g
        /\ \A f \in PtFrames : u.mirrors[f] # NoWindow =>
             \E d \in 0..(PtLevels - 1) : PtAtDepth(u.mirrors[f], d)
    BY <1>1, <1>8 DEF PtBooks
  <2>2. \A f \in PtFrames : u.mirrors[f] # NoWindow /\ u.alias[u.mirrors[f]] = PtNoPage
          => u.phys[f] = PtBlank
    BY <1>1, <1>8, <1>9, <1>10 DEF PtBooks
  <2>3. \A x \in PtWindows : u.alias[x] # PtNoPage => \E f \in PtFrames : u.mirrors[f] = x
    BY <1>1, <1>8, <1>9 DEF PtBooks
  <2> QED  BY <1>8, <2>1, <2>2, <2>3 DEF PtBooks
<1>13. PtThinner(s, u)
  <2>1. ASSUME NEW g \in PtFrames, NEW j \in PtIdx, NEW y \in PtBoth(u, g, j)
        PROVE  y = PtZero \/ \E x \in PtBoth(s, g, j) : x.frame # 0 /\ y.frame = x.frame
    <3>1. (y = e /\ s.mirrors[g] = w /\ j = i) \/ y \in PtBoth(s, g, j)
      BY <1>8, <1>11, <2>1 DEF PtBoth
    <3>2. \A x \in PtBoth(s, g, j) : x = PtZero \/ x.frame # 0
      BY <1>1 DEF PtTree
    <3>3. s.mirrors[g] = w => s.alias[w][j] \in PtBoth(s, g, j)
      BY <1>11 DEF PtBoth
    <3> QED  BY <1>6, <1>7, <3>1, <3>2, <3>3
  <2> QED  BY <1>8, <2>1 DEF PtThinner
<1>14. PtSound(u)
  <2>1. ASSUME NEW f \in PtFrames, PtAtDepth(s.mirrors[f], 0)
        PROVE  PtSeen(u)[f][s.mirrors[f][1]] = PtSeen(s)[f][s.mirrors[f][1]]
    <3>1. s.mirrors[f][1] \in PtIdx
      BY <2>1, PtConstants DEF PtAtDepth
    <3> QED  BY <1>6, <1>11, <3>1
  <2> QED  BY <1>1, <1>12, <1>13, <2>1, PtSoundThinner
<1>15. /\ s.next \in Nat /\ u.next \in Nat /\ s.next <= u.next /\ 1..(s.next - 1) \subseteq PtFrames
       /\ \A g \in 1..(s.next - 1) : u.mirrors[g] = s.mirrors[g]
  BY <1>1, <1>8, PtTyped, PtConstants
<1>16. ASSUME NEW q, q # w[1]
       PROVE  PtReads(s, u, q)
  <2>1. \A g \in PtFrames : (s.mirrors[g] # NoWindow => s.mirrors[g][1] = q) => s.mirrors[g] # w
    BY <1>16, PtConstants
  <2> QED  BY <1>8, <1>11, <1>15, <2>1 DEF PtReads
<1>17. ASSUME NEW q \in PtSelfRefs, q # w[1], NEW b \in PtAddresses, NEW how, NEW top, NEW v,
              PtReaches(s, q, top, b, v, how)
       PROVE  PtReaches(u, q, top, b, v, how)
  BY <1>15, <1>16, <1>17, PtReachesLike
<1>18. PtOwn(s, ptProcs) /\ PtKnown(s, ptProcs, ptExpected)
  BY DEF PtInv, s
<1>19. ptProcs' = ptProcs /\ PtOwn(u, ptProcs)
  BY <1>8, <1>18 DEF PtOwn, PtEditWindow
<1>20. PtKnown(u, ptProcs, ptExpected')
  <2>1. ASSUME NEW p \in PtProcesses, NEW b \in PtPages, ptProcs[p] # NoProc,
               ~PtRefused(ptProcs[p].selfRef, b), ptExpected'[p][b] # Unknown
        PROVE  PtReaches(u, ptProcs[p].selfRef, ptProcs[p].dtb, b, ptExpected'[p][b], "any")
    <3>1. ptProcs[p].selfRef # w[1] /\ ptExpected'[p] = ptExpected[p]
      BY <2>1 DEF PtEditWindow
    <3>2. PtReaches(s, ptProcs[p].selfRef, ptProcs[p].dtb, b, ptExpected[p][b], "any")
      BY <1>18, <2>1, <3>1 DEF PtKnown
    <3>3. ptProcs[p].selfRef \in PtSelfRefs /\ b \in PtAddresses
      BY <1>18, <2>1, PtConstants DEF PtOwn
    <3> QED  BY <1>17, <3>1, <3>2, <3>3
  <2> QED  BY <2>1 DEF PtKnown
<1>21. ptExpected' \in [PtProcesses -> [PtPages -> Unknown..PtForeign]]
  <2>1. Unknown \in Unknown..PtForeign
    BY PtConstants DEF Unknown
  <2>2. \A p \in PtProcesses : ptExpected[p] \in [PtPages -> Unknown..PtForeign]
    BY <1>1 DEF PtTypeOK
  <2> QED  BY <2>1, <2>2 DEF PtEditWindow
<1>22. u.next <= PtMaxFrames + 1
  BY <1>1, <1>2, <1>8, PtConstants DEF PtTypeOK
<1>23. ptEdits' \in 0..PtMaxEdits
  BY <1>1, PtConstants DEF PtEditWindow, PtTypeOK
<1> QED  BY <1>5, <1>14, <1>19, <1>20, <1>21, <1>22, <1>23, PtInvAfter

\* A page reaches a frame as before where what lies below the next frame is as before.
LEMMA PtReachesElse ==
  ASSUME NEW s, NEW u, s.next \in Nat, u.next \in Nat, s.next <= u.next,
         \A f \in 1..(s.next - 1) : u.mirrors[f] = s.mirrors[f],
         \A f \in 1..(s.next - 1), i \in PtIdx :
           PtSeen(u)[f][i] = PtSeen(s)[f][i] /\ u.phys[f][i] = s.phys[f][i]
  PROVE  PtKeeps(s, u)
<1>1. \A q : PtReads(s, u, q)
  BY DEF PtReads
<1>2. ASSUME NEW q \in PtSelfRefs, NEW b \in PtAddresses, NEW how, NEW top, NEW v,
             PtReaches(s, q, top, b, v, how)
      PROVE  PtReaches(u, q, top, b, v, how)
  BY <1>1, <1>2, PtReachesLike
<1> QED  BY <1>2 DEF PtKeeps, PtHolds

-----------------------------------------------------------------------------
\* The frame of a new top table is handed out, and the entry that leads to itself written.
LEMMA PtTopMade ==
  ASSUME NEW s, PtSound(s), NEW r \in PtSelfRefs, NEW m, PtBooks(m),
         PtGrown(s, m, PtWindow(r, <<>>, 0)), PtAtDepth(PtWindow(r, <<>>, 0), 0),
         NEW u, PtBooks(u), PtWrote(m, u, s.next, r, PtLink(s.next))
  PROVE  /\ PtSound(u) /\ PtKeeps(s, u) /\ u.next = s.next + 1
         /\ u.mirrors[s.next] = PtWindow(r, <<>>, 0)
         /\ \A b \in PtAddresses : b[1] # r => PtReaches(u, r, s.next, b, Unmapped, "any")
<1> DEFINE f == s.next
           w == PtWindow(r, <<>>, 0)
<1>1. PtBooks(s) /\ PtTree(s) /\ PtTopsBut(s, 0)
  BY DEF PtSound
<1>2. /\ f \in PtFrames /\ f \in Nat /\ f # 0 /\ m.next = f + 1 /\ f \in 1..(m.next - 1)
      /\ u.next = f + 1 /\ u.mirrors = m.mirrors
  BY <1>1, PtTyped, PtConstants DEF PtGrown, PtWrote
<1>3. m.mirrors[f] = w /\ r \in PtIdx /\ w[1] = r /\ PtAtDepth(w, 0) /\ w # NoWindow
  <2>1. PICK a : a \in PtAddresses
    <3>1. [l \in 1..PtLevels |-> 0] \in PtAddresses
      BY PtConstants DEF PtAddresses
    <3> QED  BY <3>1
  <2>2. r \in PtIdx /\ 0 \in 0..(PtLevels - 1)
    BY PtConstants
  <2> QED  BY <1>2, <2>1, <2>2, PtWindowIs, PtConstants DEF PtGrown, PtAtDepth
<1> HIDE DEF f, w
<1>4. PtTree(m)
  BY <1>1, PtTreeGrown
<1>5. PtTopsBut(m, f)
  <2>1. PtTopsBut(s, f)
    <3>1. \A g \in PtFrames : g # 0
      BY PtConstants
    <3> QED  BY <1>1, <3>1 DEF PtTopsBut
  <2> QED  BY <1>1, <2>1, PtTopsGrown DEF f
<1>6. PtFits(m, f, r, PtLink(f))
  <2>1. PtLink(f).frame = f
    BY DEF PtLink
  <2>2. \A d \in 0..(PtLevels - 2) : PtAtDepth(m.mirrors[f], d) => PtLeads(m, f, d, r, f)
    <3>1. \A d : PtAtDepth(w, d) => d = 0
      BY <1>3, PtDepthUnique
    <3> QED  BY <1>3, <3>1 DEF PtLeads
  <2>3. ~PtAtDepth(m.mirrors[f], PtLevels - 2) /\ ~PtAtDepth(m.mirrors[f], PtLevels - 1)
    <3>1. PtLevels - 2 # 0 /\ PtLevels - 1 # 0
      BY PtConstants
    <3> QED  BY <1>3, <3>1, PtDepthUnique
  <2> QED  BY <1>2, <1>3, <2>1, <2>2, <2>3 DEF PtFits
<1>7. PtTree(u)
  BY <1>2, <1>3, <1>4, <1>6, PtTreeWrote DEF f
<1>8. PtTopsBut(u, 0)
  BY <1>3, <1>5, PtTopsWrote DEF f
<1>9. /\ \A g \in PtFrames, j \in PtIdx : ~(g = f /\ j = r) =>
           u.phys[g][j] = s.phys[g][j] /\ PtSeen(u)[g][j] = PtSeen(s)[g][j]
      /\ \A j \in PtIdx : s.phys[f][j] = PtZero /\ PtSeen(s)[f][j] = PtZero
      /\ \A g \in PtFrames : g # f => u.mirrors[g] = s.mirrors[g]
  BY <1>2 DEF PtGrown, PtWrote, f
<1>10. PtKeeps(s, u)
  <2>1. s.next \in Nat /\ u.next \in Nat /\ s.next <= u.next
    BY <1>2 DEF f
  <2>2. \A g \in 1..(s.next - 1) : g \in PtFrames /\ g # f
    BY <1>1, <1>2, PtTyped DEF f
  <2> QED  BY <1>9, <2>1, <2>2, PtReachesElse
<1>11. ASSUME NEW b \in PtAddresses, b[1] # r
       PROVE  PtReaches(u, r, f, b, Unmapped, "any")
  <2>1. PICK t : t = [j \in 1..1 |-> f]
    OBVIOUS
  <2>2. /\ t \in [1..1 -> 1..(u.next - 1)] /\ t[1] = f
        /\ 1 \in 1..PtLevels /\ 1 < PtLevels /\ 1 - 1 = 0
    BY <1>2, <2>1, PtConstants
  <2>3. PtWindow(r, b, 0) = w
    BY <1>3, <2>2, PtWindowIs, PtConstants DEF w
  <2>4. b[1] \in PtIdx
    BY <2>2 DEF PtAddresses
  <2>5. PtPath(u, r, f, b, 1, t, "any")
    <3>1. \A j \in 1..1 : j = 1
      OBVIOUS
    <3>2. \A j \in 1..1 : u.mirrors[t[j]] = PtWindow(r, b, j - 1)
      BY <1>2, <1>3, <2>2, <2>3, <3>1
    <3>3. \A j \in 1..(1 - 1) : FALSE
      OBVIOUS
    <3> QED  BY <2>2, <3>2, <3>3 DEF PtPath
  <2>6. PtEnds(u, b, 1, t[1], Unmapped, "any")
    BY <1>2, <1>9, <1>11, <2>2, <2>4 DEF PtEnds
  <2> QED  BY <2>2, <2>5, <2>6 DEF PtReaches
<1>12. PtSound(u)
  BY <1>7, <1>8 DEF PtSound
<1> QED  BY <1>2, <1>3, <1>10, <1>11, <1>12 DEF f, w

LEMMA PtInvCreate ==
  ASSUME PtInv, NEW p \in PtProcesses, NEW r \in PtSelfRefs, PtCreateProcess(p, r)
  PROVE  PtInv'
<1> DEFINE s == PtNow(0)
           w == PtWindow(r, <<>>, 0)
           m == PtAllocStruct(s, w)
<1>1. PtSound(s) /\ PtBooks(s) /\ PtTypeOK /\ PtOwn(s, ptProcs) /\ PtKnown(s, ptProcs, ptExpected)
  BY DEF PtInv, PtSound
<1>2. 0 \in 0..PtForeign /\ s.next = ptNext /\ ~s.threw
  BY <1>1, PtNowIs, PtConstants
<1>3. ptNext <= PtMaxFrames /\ ptNext < PtForeign /\ ptNext \in Nat /\ ptNext + 1 <= PtMaxFrames + 1
  BY <1>1, PtConstants DEF PtCreateProcess, PtTypeOK
<1>4. PtAtDepth(w, 0) /\ r \in PtIdx
  <2>1. PICK a : a \in PtAddresses
    <3>1. [l \in 1..PtLevels |-> 0] \in PtAddresses
      BY PtConstants DEF PtAddresses
    <3> QED  BY <3>1
  <2>2. r \in PtIdx /\ 0 \in 0..(PtLevels - 1) /\ \A l \in 1..0 : a[l] # PtSentinel
    BY PtConstants
  <2> QED  BY <2>1, <2>2, PtWindowIs
<1> HIDE DEF w
<1>5. /\ PtBooks(m)
      /\ \/ m.threw /\ PtGrown(s, m, NoWindow)
         \/ /\ \A f \in PtFrames : s.mirrors[f] # w
            /\ ~m.threw /\ m.table = s.next /\ PtGrown(s, m, w)
  BY <1>1, <1>2, <1>3, <1>4, PtStructGrows
<1>6. ptEdits' \in 0..PtMaxEdits
  BY <1>1 DEF PtCreateProcess, PtTypeOK
<1>7. /\ m.threw => PtBecomes(m) /\ UNCHANGED <<ptProcs, ptExpected>>
      /\ ~m.threw =>
           /\ PtBecomes(PtPoke(m, m.table, r, PtLink(m.table)))
           /\ ptProcs' = [ptProcs EXCEPT ![p] = [dtb |-> m.table, selfRef |-> r]]
           /\ ptExpected' = [ptExpected EXCEPT ![p] = [a \in PtPages |-> Unmapped]]
  BY DEF PtCreateProcess, PtLink, w
<1> HIDE DEF s, m
<1>8. CASE m.threw /\ PtGrown(s, m, NoWindow)
  <2>1. PtSound(m) /\ PtKeeps(s, m)
    BY <1>1, <1>5, <1>8, PtGrownKeeps
  <2>2. m.next <= PtMaxFrames + 1
    BY <1>2, <1>3, <1>8 DEF PtGrown
  <2> QED  BY <1>6, <1>7, <1>8, <2>1, <2>2, PtInvKeeps DEF s
<1>9. CASE /\ \A f \in PtFrames : s.mirrors[f] # w
           /\ ~m.threw /\ m.table = s.next /\ PtGrown(s, m, w)
  <2>1. PICK u : u = PtPoke(m, s.next, r, PtLink(s.next))
    OBVIOUS
  <2>2. /\ PtBecomes(u)
        /\ ptProcs' = [ptProcs EXCEPT ![p] = [dtb |-> s.next, selfRef |-> r]]
        /\ ptExpected' = [ptExpected EXCEPT ![p] = [a \in PtPages |-> Unmapped]]
    BY <1>7, <1>9, <2>1
  <2>3. s.next \in 1..(m.next - 1) /\ s.next \in Nat /\ PtLink(s.next) \in PtEntries
    BY <1>2, <1>3, <1>9, PtConstants DEF PtGrown, PtLink, PtEntries
  <2>4. PtBooks(u) /\ PtWrote(m, u, s.next, r, PtLink(s.next))
    BY <1>4, <1>5, <2>1, <2>3, PtPokeWrites
  <2>5. /\ PtSound(u) /\ PtKeeps(s, u) /\ u.next = s.next + 1
        /\ u.mirrors[s.next] = PtWindow(r, <<>>, 0)
        /\ \A b \in PtAddresses : b[1] # r => PtReaches(u, r, s.next, b, Unmapped, "any")
    BY <1>1, <1>4, <1>5, <1>9, <2>4, PtTopMade DEF w
  <2>6. PtOwn(u, ptProcs) /\ PtKnown(u, ptProcs, ptExpected)
    BY <1>1, <2>5, PtKeepsOwn, PtKeepsKnown
  <2>7. /\ \A q \in PtProcesses : q # p
             => ptProcs'[q] = ptProcs[q] /\ ptExpected'[q] = ptExpected[q]
        /\ ptProcs'[p] = [dtb |-> s.next, selfRef |-> r]
        /\ ptExpected'[p] = [a \in PtPages |-> Unmapped]
    BY <1>1, <2>2 DEF PtTypeOK
  <2>8. ptProcs' \in [PtProcesses -> [dtb : 0..PtMaxFrames, selfRef : PtIdx]]
    <3>1. s.next \in 0..PtMaxFrames
      BY <1>2, <1>3, PtConstants
    <3> QED  BY <1>1, <1>4, <2>2, <3>1 DEF PtTypeOK
  <2>9. PtOwn(u, ptProcs')
    <3>1. ASSUME NEW q \in PtProcesses, ptProcs'[q] # NoProc
          PROVE  /\ ptProcs'[q].selfRef \in PtSelfRefs /\ ptProcs'[q].dtb \in 1..(u.next - 1)
                 /\ u.mirrors[ptProcs'[q].dtb] = PtWindow(ptProcs'[q].selfRef, <<>>, 0)
      <4>1. CASE q = p
        <5>1. s.next \in 1..(u.next - 1)
          BY <2>3, <2>5 DEF PtGrown
        <5> QED  BY <2>5, <2>7, <4>1, <5>1
      <4>2. CASE q # p
        BY <2>6, <2>7, <3>1, <4>2 DEF PtOwn
      <4> QED  BY <4>1, <4>2
    <3>2. ASSUME NEW q \in PtProcesses, q # p, ptProcs[q] # NoProc
          PROVE  ptProcs[q].selfRef # r
      <4>1. s.mirrors[ptProcs[q].dtb] = PtWindow(ptProcs[q].selfRef, <<>>, 0)
            /\ ptProcs[q].dtb \in 1..(s.next - 1)
        BY <1>1, <3>2 DEF PtOwn
      <4>2. ptProcs[q].dtb \in PtFrames
        BY <1>1, <4>1, PtTyped
      <4> QED  BY <1>9, <4>1, <4>2 DEF w
    <3>3. ASSUME NEW q1 \in PtProcesses, NEW q2 \in PtProcesses, ptProcs'[q1] # NoProc,
                 ptProcs'[q2] # NoProc, ptProcs'[q1].selfRef = ptProcs'[q2].selfRef
          PROVE  q1 = q2
      <4>1. ptProcs'[p].selfRef = r
        BY <2>7
      <4>2. CASE q1 # p /\ q2 # p
        BY <2>6, <2>7, <3>3, <4>2 DEF PtOwn
      <4>3. CASE q1 = p /\ q2 # p
        BY <2>7, <3>2, <3>3, <4>1, <4>3
      <4>4. CASE q1 # p /\ q2 = p
        BY <2>7, <3>2, <3>3, <4>1, <4>4
      <4> QED  BY <4>2, <4>3, <4>4
    <3> QED  BY <2>8, <3>1, <3>3 DEF PtOwn
  <2>10. PtKnown(u, ptProcs', ptExpected')
    <3>1. ASSUME NEW q \in PtProcesses, NEW b \in PtPages, ptProcs'[q] # NoProc,
                 ~PtRefused(ptProcs'[q].selfRef, b), ptExpected'[q][b] # Unknown
          PROVE  PtReaches(u, ptProcs'[q].selfRef, ptProcs'[q].dtb, b, ptExpected'[q][b], "any")
      <4>1. CASE q = p
        <5>1. ptProcs'[q].selfRef = r /\ ptProcs'[q].dtb = s.next /\ ptExpected'[q][b] = Unmapped
          BY <2>7, <4>1
        <5>2. b[1] # r /\ b \in PtAddresses
          BY <3>1, <5>1, PtConstants DEF PtRefused
        <5> QED  BY <2>5, <5>1, <5>2
      <4>2. CASE q # p
        BY <2>6, <2>7, <3>1, <4>2 DEF PtKnown
      <4> QED  BY <4>1, <4>2
    <3> QED  BY <3>1 DEF PtKnown
  <2>11. ptExpected' \in [PtProcesses -> [PtPages -> Unknown..PtForeign]]
    <3>1. Unmapped \in Unknown..PtForeign
      BY PtConstants DEF Unknown, Unmapped
    <3>2. [a \in PtPages |-> Unmapped] \in [PtPages -> Unknown..PtForeign]
      BY <3>1
    <3> QED  BY <1>1, <2>2, <3>2 DEF PtTypeOK
  <2>12. u.next <= PtMaxFrames + 1
    BY <1>2, <1>3, <2>5
  <2> QED  BY <1>6, <2>2, <2>5, <2>9, <2>10, <2>11, <2>12, PtInvAfter
<1> QED  BY <1>5, <1>8, <1>9

-----------------------------------------------------------------------------
\* Where mapPage starts: the top table of the process, and the frame the page is to have.
PtStart(s, z, r, dtb, pa) ==
  /\ PtSound(z) /\ PtKeeps(s, z) /\ r \in PtSelfRefs /\ z.next \in Nat /\ z.next <= s.next + 1
  /\ z.table = dtb /\ dtb \in 1..(z.next - 1) /\ z.mirrors[dtb] = PtWindow(r, <<>>, 0)
  /\ pa \in 1..PtForeign /\ (pa = PtForeign \/ PtSpare(z, pa))

LEMMA PtStarts ==
  ASSUME PtInv, NEW p \in PtProcesses, ptProcs[p] # NoProc, ptNext <= PtMaxFrames
  PROVE  LET dtb == ptProcs[p].dtb
             r == ptProcs[p].selfRef
         IN  /\ PtStart(PtNow(0), PtNow(dtb), r, dtb, PtForeign)
             /\ PtStart(PtNow(0), PtAllocFrame(PtNow(dtb)), r, dtb, ptNext)
             /\ PtSpare(PtAllocFrame(PtNow(dtb)), ptNext)
<1> DEFINE s == PtNow(0)
           dtb == ptProcs[p].dtb
           r == ptProcs[p].selfRef
           z == PtNow(dtb)
           m == PtAllocFrame(z)
<1>1. PtSound(s) /\ PtBooks(s) /\ PtTypeOK /\ PtOwn(s, ptProcs)
  BY DEF PtInv, PtSound
<1>2. r \in PtSelfRefs /\ dtb \in 1..(s.next - 1) /\ s.mirrors[dtb] = PtWindow(r, <<>>, 0)
  BY <1>1 DEF PtOwn
<1>3. s.next = ptNext /\ s.next \in Nat /\ s.next \in 1..PtForeign /\ s.next < PtForeign
  BY <1>1, PtNowIs, PtConstants DEF PtTypeOK
<1> HIDE DEF dtb, r
<1>4. dtb \in 0..PtForeign /\ 0 \in 0..PtForeign
  BY <1>2, <1>3, PtConstants
<1>5. z \in PtStates /\ PtAlike(s, z) /\ z.table = dtb
  BY <1>1, <1>4, PtNowIs
<1> HIDE DEF s, z
<1>6. PtSound(z) /\ PtKeeps(s, z) /\ PtBooks(z) /\ z.next = s.next /\ z.mirrors = s.mirrors
  BY <1>1, <1>5, PtSoundAlike DEF PtAlike, PtSound
<1>7. /\ PtBooks(m) /\ PtGrown(z, m, NoWindow) /\ m.mirrors = z.mirrors /\ m.table = z.table
      /\ m.next = z.next + 1
  BY <1>3, <1>6, PtFrameGrows
<1> HIDE DEF m
<1>8. PtSound(m) /\ PtKeeps(z, m)
  BY <1>6, <1>7, PtGrownKeeps
<1>9. PtSpare(m, z.next)
  BY <1>6, <1>7, PtNewSpare
<1>10. PtKeeps(s, m)
  BY <1>6, <1>8, PtKeepsOn
<1>11. PtForeign \in 1..PtForeign
  BY PtConstants
<1>12. PtStart(s, z, r, dtb, PtForeign)
  BY <1>2, <1>3, <1>5, <1>6, <1>11 DEF PtStart
<1>13. PtStart(s, m, r, dtb, s.next)
  BY <1>2, <1>3, <1>5, <1>6, <1>7, <1>8, <1>9, <1>10 DEF PtStart
<1> QED  BY <1>3, <1>6, <1>9, <1>12, <1>13 DEF s, z, m, dtb, r

\* mapPage, from its start z to its end m, where it writes the n-th level.
PtMaps(s, z, r, dtb, a, n, leaf, m) ==
  /\ PtStart(s, z, r, dtb, leaf.frame) /\ a \in PtAddresses /\ ~PtRefused(r, a)
  /\ s.next \in Nat /\ s.next <= PtMaxFrames /\ leaf \in PtEntries
  /\ m = PtMapping(z, r, a, n, leaf)

\* ... of a small page.
LEMMA PtPageMapped ==
  ASSUME NEW s, NEW z, NEW r, NEW dtb, NEW a, NEW leaf, NEW m,
         PtMaps(s, z, r, dtb, a, PtLevels, leaf, m)
  PROVE  /\ PtSound(m)
         /\ m.threw => PtKeeps(s, m)
         /\ ~m.threw =>
              /\ PtHolds(s, m)
              /\ PtReaches(m, r, dtb, a, IF leaf.p THEN leaf.frame ELSE Unmapped, "any")
              /\ PtPast(s, m, r, a, {"tidy", "any"})
<1> /\ PtStart(s, z, r, dtb, leaf.frame) /\ a \in PtAddresses /\ ~PtRefused(r, a)
    /\ s.next \in Nat /\ s.next <= PtMaxFrames /\ leaf \in PtEntries
    /\ m = PtMapping(z, r, a, PtLevels, leaf)
  BY DEF PtMaps
<1> DEFINE n == PtLevels
           pa == leaf.frame
<1>1. /\ PtSound(z) /\ PtKeeps(s, z) /\ r \in PtSelfRefs /\ z.next \in Nat /\ z.next <= s.next + 1
      /\ z.table = dtb /\ z.table \in 1..(z.next - 1) /\ z.mirrors[z.table] = PtWindow(r, <<>>, 0)
      /\ pa \in 1..PtForeign /\ (pa = PtForeign \/ PtSpare(z, pa))
  BY DEF PtStart
<1>2. n \in {PtLevels - 1, PtLevels} /\ z.next + (n - 1) <= PtForeign /\ (n - 1) + 1 = PtLevels
  <2>1. /\ PtLevels \in {3, 4} /\ PtForeign = PtMaxFrames + PtLevels /\ PtMaxFrames \in Nat
        /\ s.next \in Nat /\ s.next <= PtMaxFrames /\ z.next \in Nat /\ z.next <= s.next + 1
    BY <1>1, PtConstants
  <2>2. z.next + (PtLevels - 1) <= PtForeign /\ (PtLevels - 1) + 1 = PtLevels
    BY <2>1
  <2> QED  BY <2>2
<1> HIDE DEF n
<1>3. PICK y : /\ PtOnWay(z, y, r, z.table, a, n - 1)
               /\ PtMapping(z, r, a, n, leaf)
                    = IF y.threw THEN y ELSE PtPoke(y, y.table, a[n], leaf)
  BY <1>1, <1>2, PtMappingWay
<1>4. m = IF y.threw THEN y ELSE PtPoke(y, y.table, a[PtLevels], leaf)
  BY <1>3 DEF n
<1>5. /\ PtSound(y) /\ y.next \in Nat /\ z.next <= y.next
      /\ \A f \in 1..(z.next - 1) : y.mirrors[f] = z.mirrors[f]
      /\ ~y.threw => \E t : PtPath(y, r, dtb, a, PtLevels, t, "any") /\ t[PtLevels] = y.table
      /\ \A q \in PtSelfRefs, b \in PtAddresses, how \in {"tidy", "any"} : \A top, v :
           PtReaches(z, q, top, b, v, how) /\ (y.threw \/ PtSafe(r, a, q, b, how)) =>
             PtReaches(y, q, top, b, v, how)
      /\ \A g : PtSpare(z, g) => PtSpare(y, g)
  BY <1>1, <1>2, <1>3 DEF PtOnWay
<1>6. PtHolds(s, z) /\ PtHolds(z, y)
  BY <1>1, <1>5 DEF PtKeeps, PtHolds
<1>7. PtHolds(s, y)
  <2>1. \A f \in 1..(s.next - 1) : f \in 1..(z.next - 1)
    BY <1>6 DEF PtHolds
  <2> QED  BY <1>6, <2>1 DEF PtHolds
<1>8. CASE y.threw
  <2>1. m = y /\ m.threw
    BY <1>4, <1>8
  <2>2. PtKeeps(s, y)
    BY <1>1, <1>5, <1>7, <1>8 DEF PtKeeps
  <2> QED  BY <1>5, <2>1, <2>2
<1>9. CASE ~y.threw
  <2>1. PICK t : PtPath(y, r, dtb, a, PtLevels, t, "any") /\ t[PtLevels] = y.table
    BY <1>5, <1>9
  <2>2. pa = PtForeign \/ PtSpare(y, pa)
    BY <1>1, <1>5
  <2>3. /\ PtSound(m) /\ m.next = y.next /\ m.mirrors = y.mirrors
        /\ PtReaches(m, r, dtb, a, IF leaf.p THEN leaf.frame ELSE Unmapped, "any")
        /\ PtPast(y, m, r, a, {"tidy", "any"})
    <3>1. m = PtPoke(y, y.table, a[PtLevels], leaf)
      BY <1>4, <1>9
    <3>2. PtAtLeaf(y, r, dtb, a, PtLevels, t, m, leaf)
      BY <1>1, <1>5, <2>1, <2>2, <3>1 DEF PtAtLeaf
    <3> QED  BY <3>2, PtLeafPage
  <2>4. PtHolds(s, m)
    BY <1>7, <2>3 DEF PtHolds
  <2>5. ~m.threw
    <3>1. /\ y.table \in 1..(y.next - 1) /\ a[PtLevels] \in PtIdx /\ PtBooks(y)
          /\ leaf \in PtEntries
      <4>1. y.table \in 1..(y.next - 1) /\ PtLevels \in 1..PtLevels
        BY <2>1, PtConstants DEF PtPath
      <4>2. a[PtLevels] \in PtIdx
        BY <4>1 DEF PtAddresses
      <4> QED  BY <1>1, <1>5, <4>1, <4>2 DEF PtSound
    <3> QED  BY <1>4, <1>9, <3>1, PtPokeWrites
  <2>6. ASSUME NEW q \in PtSelfRefs, NEW b \in PtAddresses, NEW how \in {"tidy", "any"},
               NEW top, NEW v,
               PtReaches(s, q, top, b, v, how), PtSafe(r, a, q, b, how), q # r \/ b # a
        PROVE  PtReaches(m, q, top, b, v, how)
    <3>1. PtReaches(z, q, top, b, v, how)
      BY <1>1, <2>6 DEF PtKeeps
    <3>2. PtReaches(y, q, top, b, v, how)
      BY <1>5, <2>6, <3>1
    <3> QED  BY <2>3, <2>6, <3>2 DEF PtPast
  <2> QED  BY <2>3, <2>4, <2>5, <2>6 DEF PtPast
<1> QED  BY <1>8, <1>9

\* ... of a large page.
LEMMA PtLargeMapped ==
  ASSUME NEW s, NEW z, NEW r, NEW dtb, NEW a, NEW last, last = PtLevels - 1, NEW leaf, NEW m,
         PtMaps(s, z, r, dtb, a, last, leaf, m), PtSpare(z, leaf.frame), leaf.p, leaf.ps
  PROVE  /\ PtSound(m)
         /\ m.threw => PtKeeps(s, m)
         /\ ~m.threw =>
              /\ PtHolds(s, m)
              /\ PtShared(m, r, dtb, a, leaf.frame)
              /\ PtPast(s, m, r, a, {"any"})
<1> /\ PtStart(s, z, r, dtb, leaf.frame) /\ a \in PtAddresses /\ ~PtRefused(r, a)
    /\ s.next \in Nat /\ s.next <= PtMaxFrames /\ leaf \in PtEntries
    /\ m = PtMapping(z, r, a, PtLevels - 1, leaf)
  BY DEF PtMaps
<1> DEFINE n == PtLevels - 1
           pa == leaf.frame
<1>1. /\ PtSound(z) /\ PtKeeps(s, z) /\ r \in PtSelfRefs /\ z.next \in Nat /\ z.next <= s.next + 1
      /\ z.table = dtb /\ z.table \in 1..(z.next - 1) /\ z.mirrors[z.table] = PtWindow(r, <<>>, 0)
      /\ pa \in 1..PtForeign
  BY DEF PtStart
<1>2. /\ n \in {PtLevels - 1, PtLevels} /\ z.next + (n - 1) <= PtForeign
      /\ (n - 1) + 1 = PtLevels - 1
      /\ n - 1 < PtLevels - 1 /\ PtLevels - 1 \in 1..PtLevels /\ PtLevels - 1 \in 1..(PtLevels - 1)
  <2>1. /\ PtLevels \in {3, 4} /\ PtForeign = PtMaxFrames + PtLevels /\ PtMaxFrames \in Nat
        /\ s.next \in Nat /\ s.next <= PtMaxFrames /\ z.next \in Nat /\ z.next <= s.next + 1
    BY <1>1, PtConstants
  <2>2. n = 2 \/ n = 3
    BY <2>1
  <2>3. n = PtLevels - 1 /\ z.next + (n - 1) <= PtForeign
    BY <2>1
  <2> HIDE DEF n
  <2> QED  BY <2>1, <2>2, <2>3
<1> HIDE DEF n
<1>3. PICK y : /\ PtOnWay(z, y, r, z.table, a, n - 1)
               /\ PtMapping(z, r, a, n, leaf)
                    = IF y.threw THEN y ELSE PtPoke(y, y.table, a[n], leaf)
  BY <1>1, <1>2, PtMappingWay, SMTT(30)
<1>4. m = IF y.threw THEN y ELSE PtPoke(y, y.table, a[PtLevels - 1], leaf)
  BY <1>3 DEF n
<1>5. /\ PtSound(y) /\ y.next \in Nat /\ z.next <= y.next
      /\ \A f \in 1..(z.next - 1) : y.mirrors[f] = z.mirrors[f]
      /\ ~y.threw =>
           \E t : PtPath(y, r, dtb, a, PtLevels - 1, t, "any") /\ t[PtLevels - 1] = y.table
      /\ \A q \in PtSelfRefs, b \in PtAddresses, how \in {"tidy", "any"} : \A top, v :
           PtReaches(z, q, top, b, v, how) => PtReaches(y, q, top, b, v, how)
      /\ \A g : PtSpare(z, g) => PtSpare(y, g)
  BY <1>1, <1>2, <1>3 DEF PtOnWay
<1>6. PtHolds(s, z) /\ PtHolds(z, y)
  BY <1>1, <1>5 DEF PtKeeps, PtHolds
<1>7. PtHolds(s, y)
  <2>1. \A f \in 1..(s.next - 1) : f \in 1..(z.next - 1)
    BY <1>6 DEF PtHolds
  <2> QED  BY <1>6, <2>1 DEF PtHolds
<1>8. PtKeeps(s, y)
  BY <1>1, <1>5, <1>7 DEF PtKeeps
<1>9. CASE y.threw
  BY <1>4, <1>5, <1>8, <1>9
<1>10. CASE ~y.threw
  <2>1. PICK t : PtPath(y, r, dtb, a, PtLevels - 1, t, "any") /\ t[PtLevels - 1] = y.table
    BY <1>5, <1>10
  <2>2. PtSpare(y, pa)
    BY <1>5
  <2>3. /\ PtSound(m) /\ m.next = y.next /\ m.mirrors = y.mirrors
        /\ PtShared(m, r, dtb, a, leaf.frame) /\ PtPast(y, m, r, a, {"any"})
    <3>1. m = PtPoke(y, y.table, a[PtLevels - 1], leaf)
      BY <1>4, <1>10
    <3>2. PtAtLeaf(y, r, dtb, a, last, t, m, leaf)
      BY <1>1, <1>5, <2>1, <2>2, <3>1 DEF PtAtLeaf
    <3> QED  BY <2>2, <3>2, PtLeafLarge
  <2>4. PtHolds(s, m)
    BY <1>7, <2>3 DEF PtHolds
  <2>5. ~m.threw
    <3>1. /\ y.table \in 1..(y.next - 1) /\ a[PtLevels - 1] \in PtIdx /\ PtBooks(y)
          /\ leaf \in PtEntries
      <4>1. y.table \in 1..(y.next - 1)
        BY <1>2, <2>1 DEF PtPath
      <4>2. a[PtLevels - 1] \in PtIdx
        BY <1>2 DEF PtAddresses
      <4> QED  BY <1>1, <1>5, <4>1, <4>2 DEF PtSound
    <3> QED  BY <1>4, <1>10, <3>1, PtPokeWrites
  <2>6. ASSUME NEW q \in PtSelfRefs, NEW b \in PtAddresses, NEW top, NEW v,
               PtReaches(s, q, top, b, v, "any"), PtSafe(r, a, q, b, "any"), q # r \/ b # a
        PROVE  PtReaches(m, q, top, b, v, "any")
    <3>1. PtReaches(y, q, top, b, v, "any")
      BY <1>8, <2>6 DEF PtKeeps
    <3> QED  BY <2>3, <2>6, <3>1 DEF PtPast
  <2> QED  BY <2>3, <2>4, <2>5, <2>6 DEF PtPast
<1> QED  BY <1>9, <1>10

-----------------------------------------------------------------------------
LEMMA PtInvMapPage ==
  ASSUME PtInv, NEW p \in PtProcesses, NEW a \in PtPages, NEW foreign \in BOOLEAN,
         NEW present \in BOOLEAN, PtMapPage(p, a, foreign, present)
  PROVE  PtInv'
<1> DEFINE s == PtNow(0)
           r == ptProcs[p].selfRef
           dtb == ptProcs[p].dtb
           z == IF foreign THEN PtNow(dtb) ELSE PtAllocFrame(PtNow(dtb))
           pa == IF foreign THEN PtForeign ELSE ptNext
           m == PtMapping(z, r, a, PtLevels, [frame |-> pa, p |-> present, ps |-> FALSE])
           table == PtFollow(dtb, a, PtLevels - 1)
           inData == table # 0 /\ ptMirrors[table] = NoWindow
           now == IF present THEN pa ELSE Unmapped
<1>1. /\ PtSound(s) /\ PtBooks(s) /\ PtTypeOK /\ PtOwn(s, ptProcs)
      /\ PtKnown(s, ptProcs, ptExpected)
      /\ a \in PtAddresses
  BY PtConstants DEF PtInv, PtSound
<1>2. /\ ptProcs[p] # NoProc /\ ~PtRefused(r, a) /\ ptNext <= PtMaxFrames
      /\ m.next <= PtMaxFrames + 1 /\ PtBecomes(m) /\ ptProcs' = ptProcs /\ ptEdits' = ptEdits
      /\ m.threw => ptExpected' = ptExpected
      /\ ~m.threw =>
           ptExpected' = [ptExpected EXCEPT ![p] =
             [b \in PtPages |-> IF inData /\ b \in PtNeighbours(a) THEN Unknown
                                ELSE IF b # a THEN ptExpected[p][b] ELSE now]]
  BY DEF PtMapPage
<1>3. PtStart(s, z, r, dtb, pa)
  <2>1. /\ PtStart(s, PtNow(dtb), r, dtb, PtForeign)
        /\ PtStart(s, PtAllocFrame(PtNow(dtb)), r, dtb, ptNext)
    BY <1>2, PtStarts
  <2> QED  BY <2>1
<1>4. /\ s.next = ptNext /\ s.mirrors = ptMirrors /\ s.next \in Nat /\ pa \in 1..PtForeign
      /\ r \in PtSelfRefs
  BY <1>1, <1>3, PtTyped, PtConstants DEF PtNow, PtStart
<1>5. PtSynced = PtSeen(s)
  BY PtSyncedIs
<1> HIDE DEF s, r, dtb, z, pa, m, table, inData, now
<1>6. /\ PtSound(m)
      /\ m.threw => PtKeeps(s, m)
      /\ ~m.threw =>
           /\ PtHolds(s, m) /\ PtReaches(m, r, dtb, a, now, "any")
           /\ PtPast(s, m, r, a, {"tidy", "any"})
  <2>1. PICK leaf : leaf = [frame |-> pa, p |-> present, ps |-> FALSE]
    OBVIOUS
  <2>2. leaf \in PtEntries /\ leaf.frame = pa /\ leaf.p = present
    BY <1>4, <2>1, PtConstants DEF PtEntries
  <2>3. PtMaps(s, z, r, dtb, a, PtLevels, leaf, m)
    BY <1>1, <1>2, <1>3, <1>4, <2>1, <2>2 DEF PtMaps, m
  <2>4. /\ PtSound(m)
        /\ m.threw => PtKeeps(s, m)
        /\ ~m.threw =>
             /\ PtHolds(s, m)
             /\ PtReaches(m, r, dtb, a, IF leaf.p THEN leaf.frame ELSE Unmapped, "any")
             /\ PtPast(s, m, r, a, {"tidy", "any"})
    BY <2>3, PtPageMapped
  <2> QED  BY <2>2, <2>4 DEF now
<1>7. ptEdits' \in 0..PtMaxEdits
  BY <1>1, <1>2 DEF PtTypeOK
<1>8. CASE m.threw
  BY <1>2, <1>6, <1>7, <1>8, PtInvKeeps DEF s
<1>9. CASE ~m.threw
  <2>1. PtOwn(m, ptProcs)
    BY <1>1, <1>6, <1>9, PtHoldsOwn
  <2>2. /\ \A q \in PtProcesses : q # p => ptExpected'[q] = ptExpected[q]
        /\ \A b \in PtPages : ptExpected'[p][b] =
             IF inData /\ b \in PtNeighbours(a) THEN Unknown
             ELSE IF b # a THEN ptExpected[p][b] ELSE now
    BY <1>1, <1>2, <1>9 DEF PtTypeOK
  <2>3. ptExpected' \in [PtProcesses -> [PtPages -> Unknown..PtForeign]]
    <3>1. Unknown \in Unknown..PtForeign /\ now \in Unknown..PtForeign
      BY <1>4, PtConstants DEF Unknown, Unmapped, now
    <3>2. \A b \in PtPages : ptExpected[p][b] \in Unknown..PtForeign
      BY <1>1 DEF PtTypeOK
    <3>3. [b \in PtPages |-> IF inData /\ b \in PtNeighbours(a) THEN Unknown
             ELSE IF b # a THEN ptExpected[p][b] ELSE now] \in [PtPages -> Unknown..PtForeign]
      BY <3>1, <3>2
    <3> QED  BY <1>1, <1>2, <1>9, <3>3 DEF PtTypeOK
  <2>4. ASSUME NEW q \in PtProcesses, NEW b \in PtPages, ptProcs[q] # NoProc,
               ~PtRefused(ptProcs[q].selfRef, b), ptExpected'[q][b] # Unknown
        PROVE  PtReaches(m, ptProcs[q].selfRef, ptProcs[q].dtb, b, ptExpected'[q][b], "any")
    <3>1. b \in PtAddresses /\ ptProcs[q].selfRef \in PtSelfRefs
      BY <1>1, <2>4, PtConstants DEF PtOwn
    <3>2. ptExpected[q][b] # Unknown =>
            PtReaches(s, ptProcs[q].selfRef, ptProcs[q].dtb, b, ptExpected[q][b], "any")
      BY <1>1, <2>4 DEF PtKnown
    <3>3. CASE q # p
      <4>1. ptProcs[q].selfRef # r
        BY <1>1, <1>2, <2>4, <3>3 DEF PtOwn, r
      <4>2. ptExpected'[q][b] = ptExpected[q][b]
        BY <2>2, <3>3
      <4>3. PtReaches(s, ptProcs[q].selfRef, ptProcs[q].dtb, b, ptExpected[q][b], "any")
        BY <2>4, <3>2, <4>2
      <4>4. PtSafe(r, a, ptProcs[q].selfRef, b, "any")
        BY <4>1 DEF PtSafe
      <4> QED  BY <1>6, <1>9, <3>1, <4>1, <4>2, <4>3, <4>4 DEF PtPast
    <3>4. CASE q = p /\ b = a
      <4>1. ptExpected'[q][b] = now
        BY <2>2, <2>4, <3>4
      <4>2. ptProcs[q].selfRef = r /\ ptProcs[q].dtb = dtb
        BY <3>4 DEF r, dtb
      <4> QED  BY <1>6, <1>9, <3>4, <4>1, <4>2
    <3>5. CASE q = p /\ b # a
      <4>1. ptExpected'[q][b] = ptExpected[q][b] /\ ptExpected[q][b] # Unknown
            /\ ~(inData /\ b \in PtNeighbours(a))
        BY <2>2, <2>4, <3>5
      <4>2. ptProcs[q].selfRef = r /\ ptProcs[q].dtb = dtb
        BY <3>5 DEF r, dtb
      <4>3. PtReaches(s, r, dtb, b, ptExpected[q][b], "any")
        BY <3>2, <4>1, <4>2
      <4>4. CASE b \notin PtNeighbours(a)
        <5>1. PtSafe(r, a, r, b, "any")
          BY <4>4 DEF PtSafe, PtNeighbours
        <5>2. PtReaches(m, r, dtb, b, ptExpected[q][b], "any")
          BY <1>4, <1>6, <1>9, <3>1, <3>5, <4>3, <5>1 DEF PtPast
        <5> QED  BY <4>1, <4>2, <5>2
      <4>5. CASE b \in PtNeighbours(a)
        <5>1. \A l \in 1..(PtLevels - 1) : b[l] = a[l]
          BY <4>5 DEF PtNeighbours
        <5>2. PICK at : PtFollowed(at, PtSynced, dtb, a)
          BY PtFollowIs
        <5>3. PICK tables : tables = PtSynced
          OBVIOUS
        <5>4. /\ at[0] = dtb
              /\ \A d \in 1..(PtLevels - 1) :
                   at[d] = IF at[d - 1] = 0 THEN 0 ELSE tables[at[d - 1]][a[d]].frame
              /\ at[PtLevels - 1] = table
          BY <5>2, <5>3 DEF PtFollowed, table
        <5>5. at[PtLevels - 1] = 0 \/ s.mirrors[at[PtLevels - 1]] # NoWindow
          BY <1>4, <4>1, <4>5, <5>4 DEF inData
        <5>6. PtReaches(s, r, dtb, b, ptExpected[q][b], "tidy")
          BY <1>1, <1>5, <4>3, <5>1, <5>3, <5>4, <5>5, PtTidied
        <5>7. PtSafe(r, a, r, b, "tidy")
          BY DEF PtSafe
        <5>8. PtReaches(m, r, dtb, b, ptExpected[q][b], "tidy")
          BY <1>4, <1>6, <1>9, <3>1, <3>5, <5>6, <5>7 DEF PtPast
        <5> QED  BY <4>1, <4>2, <5>8, PtTidyIs
      <4> QED  BY <4>4, <4>5
    <3> QED  BY <3>3, <3>4, <3>5
  <2>5. PtKnown(m, ptProcs, ptExpected')
    BY <2>4 DEF PtKnown
  <2> QED  BY <1>2, <1>6, <1>7, <2>1, <2>3, <2>5, PtInvAfter
<1> QED  BY <1>8, <1>9

LEMMA PtInvMapLarge ==
  ASSUME PtInv, NEW p \in PtProcesses, NEW a \in PtPages, PtMapLarge(p, a)
  PROVE  PtInv'
<1> DEFINE s == PtNow(0)
           r == ptProcs[p].selfRef
           dtb == ptProcs[p].dtb
           z == PtAllocFrame(PtNow(dtb))
           m == PtMapping(z, r, a, PtLevels - 1, [frame |-> ptNext, p |-> TRUE, ps |-> TRUE])
<1>1. /\ PtSound(s) /\ PtBooks(s) /\ PtTypeOK /\ PtOwn(s, ptProcs)
      /\ PtKnown(s, ptProcs, ptExpected)
      /\ a \in PtAddresses
  BY PtConstants DEF PtInv, PtSound
<1>2. /\ ptProcs[p] # NoProc /\ ~PtRefused(r, a) /\ ptNext <= PtMaxFrames
      /\ m.next <= PtMaxFrames + 1 /\ PtBecomes(m) /\ ptProcs' = ptProcs /\ ptEdits' = ptEdits
      /\ m.threw => ptExpected' = ptExpected
      /\ ~m.threw =>
           ptExpected' = [ptExpected EXCEPT ![p] =
             [b \in PtPages |-> IF b \in PtNeighbours(a) THEN ptNext ELSE ptExpected[p][b]]]
  BY DEF PtMapLarge
<1>3. PtStart(s, z, r, dtb, ptNext) /\ PtSpare(z, ptNext)
  BY <1>2, PtStarts
<1>4. s.next = ptNext /\ s.next \in Nat /\ r \in PtSelfRefs /\ ptNext \in 1..PtForeign
  BY <1>1, <1>3, PtTyped, PtConstants DEF PtNow, PtStart
<1> HIDE DEF s, r, dtb, z, m
<1>6. /\ PtSound(m)
      /\ m.threw => PtKeeps(s, m)
      /\ ~m.threw =>
           /\ PtHolds(s, m) /\ PtShared(m, r, dtb, a, ptNext)
           /\ PtPast(s, m, r, a, {"any"})
  <2>1. PICK leaf : leaf = [frame |-> ptNext, p |-> TRUE, ps |-> TRUE]
    OBVIOUS
  <2>2. PICK last : last = PtLevels - 1
    OBVIOUS
  <2>3. leaf \in PtEntries /\ leaf.frame = ptNext /\ leaf.p /\ leaf.ps
    BY <1>4, <2>1, PtConstants DEF PtEntries
  <2>4. PtMaps(s, z, r, dtb, a, last, leaf, m) /\ PtSpare(z, leaf.frame)
    BY <1>1, <1>2, <1>3, <1>4, <2>1, <2>2, <2>3 DEF PtMaps, m
  <2>5. /\ PtSound(m)
        /\ m.threw => PtKeeps(s, m)
        /\ ~m.threw =>
             /\ PtHolds(s, m) /\ PtShared(m, r, dtb, a, leaf.frame)
             /\ PtPast(s, m, r, a, {"any"})
    BY <2>2, <2>3, <2>4, PtLargeMapped
  <2> QED  BY <2>3, <2>5
<1>7. ptEdits' \in 0..PtMaxEdits
  BY <1>1, <1>2 DEF PtTypeOK
<1>8. CASE m.threw
  BY <1>2, <1>6, <1>7, <1>8, PtInvKeeps DEF s
<1>9. CASE ~m.threw
  <2>1. PtOwn(m, ptProcs)
    BY <1>1, <1>6, <1>9, PtHoldsOwn
  <2>2. /\ \A q \in PtProcesses : q # p => ptExpected'[q] = ptExpected[q]
        /\ \A b \in PtPages : ptExpected'[p][b] =
             IF b \in PtNeighbours(a) THEN ptNext ELSE ptExpected[p][b]
    BY <1>1, <1>2, <1>9 DEF PtTypeOK
  <2>3. ptExpected' \in [PtProcesses -> [PtPages -> Unknown..PtForeign]]
    <3>1. ptNext \in Unknown..PtForeign
      BY <1>4, PtConstants DEF Unknown
    <3>2. \A b \in PtPages : ptExpected[p][b] \in Unknown..PtForeign
      BY <1>1 DEF PtTypeOK
    <3>3. [b \in PtPages |-> IF b \in PtNeighbours(a) THEN ptNext ELSE ptExpected[p][b]]
            \in [PtPages -> Unknown..PtForeign]
      BY <3>1, <3>2
    <3> QED  BY <1>1, <1>2, <1>9, <3>3 DEF PtTypeOK
  <2>4. ASSUME NEW q \in PtProcesses, NEW b \in PtPages, ptProcs[q] # NoProc,
               ~PtRefused(ptProcs[q].selfRef, b), ptExpected'[q][b] # Unknown
        PROVE  PtReaches(m, ptProcs[q].selfRef, ptProcs[q].dtb, b, ptExpected'[q][b], "any")
    <3>1. b \in PtAddresses /\ ptProcs[q].selfRef \in PtSelfRefs
      BY <1>1, <2>4, PtConstants DEF PtOwn
    <3>2. ptExpected[q][b] # Unknown =>
            PtReaches(s, ptProcs[q].selfRef, ptProcs[q].dtb, b, ptExpected[q][b], "any")
      BY <1>1, <2>4 DEF PtKnown
    <3>3. CASE q = p /\ b \in PtNeighbours(a)
      <4>1. ptExpected'[q][b] = ptNext /\ ptProcs[q].selfRef = r /\ ptProcs[q].dtb = dtb
        BY <2>2, <3>3 DEF r, dtb
      <4>2. \A l \in 1..(PtLevels - 1) : b[l] = a[l]
        BY <3>3 DEF PtNeighbours
      <4> QED  BY <1>6, <1>9, <3>1, <4>1, <4>2 DEF PtShared
    <3>4. CASE ~(q = p /\ b \in PtNeighbours(a))
      <4>1. ptExpected'[q][b] = ptExpected[q][b]
        BY <2>2, <3>4
      <4>2. PtReaches(s, ptProcs[q].selfRef, ptProcs[q].dtb, b, ptExpected[q][b], "any")
        BY <2>4, <3>2, <4>1
      <4>3. PtSafe(r, a, ptProcs[q].selfRef, b, "any")
        <5>1. q # p => ptProcs[q].selfRef # r
          BY <1>1, <1>2, <2>4 DEF PtOwn, r
        <5>2. q = p => \E l \in 1..(PtLevels - 1) : b[l] # a[l]
          BY <3>4 DEF PtNeighbours
        <5> QED  BY <5>1, <5>2 DEF PtSafe
      <4>4. ptProcs[q].selfRef # r \/ b # a
        BY <4>3 DEF PtSafe
      <4> QED  BY <1>6, <1>9, <3>1, <4>1, <4>2, <4>3, <4>4 DEF PtPast
    <3> QED  BY <3>3, <3>4
  <2>5. PtKnown(m, ptProcs, ptExpected')
    BY <2>4 DEF PtKnown
  <2> QED  BY <1>2, <1>6, <1>7, <2>1, <2>3, <2>5, PtInvAfter
<1> QED  BY <1>8, <1>9

LEMMA PtInvInit ==
  ASSUME PtInit
  PROVE  PtInv
<1> DEFINE s == PtNow(0)
<1>1. PtTypeOK
  <2>1. PtBlank \in [PtIdx -> PtEntries]
    BY PtConstants DEF PtRows
  <2>2. 1 \in 1..(PtMaxFrames + 1) /\ 0 \in 0..PtMaxEdits /\ Unmapped \in Unknown..PtForeign
    BY PtConstants DEF Unmapped, Unknown
  <2>3. NoProc \in [dtb : 0..PtMaxFrames, selfRef : PtIdx]
    BY PtConstants DEF NoProc
  <2>4. ptExpected \in [PtProcesses -> [PtPages -> Unknown..PtForeign]]
    BY <2>2 DEF PtInit
  <2> QED  BY <2>1, <2>2, <2>3, <2>4 DEF PtInit, PtTypeOK
<1>2. s \in PtStates /\ s.next = 1 /\ 0 \in 0..PtForeign
  <2>1. 0 \in 0..PtForeign
    BY PtConstants
  <2> QED  BY <1>1, <2>1, PtNowIs DEF PtInit
<1>3. /\ \A f \in PtFrames : s.mirrors[f] = NoWindow /\ s.phys[f] = PtBlank
      /\ \A w \in PtWindows : s.alias[w] = PtNoPage
  BY DEF PtInit, PtNow
<1> HIDE DEF s
<1>4. PtBooks(s)
  BY <1>2, <1>3 DEF PtBooks
<1>5. \A f \in PtFrames, i \in PtIdx : PtBoth(s, f, i) = {PtZero}
  BY <1>3, PtConstants DEF PtBoth, PtSeen
<1>6. \A d : ~PtAtDepth(NoWindow, d)
  BY PtConstants DEF PtAtDepth
<1>7. PtTree(s)
  <2>1. \A f \in PtFrames : f # 0
    BY PtConstants
  <2> QED  BY <1>3, <1>5, <1>6, <2>1, PtConstants DEF PtTree
<1>8. PtSound(s)
  BY <1>3, <1>4, <1>6, <1>7 DEF PtSound, PtTopsBut
<1>9. PtOwn(s, ptProcs) /\ PtKnown(s, ptProcs, ptExpected)
  <2>1. \A p \in PtProcesses : ptProcs[p] = NoProc
    BY DEF PtInit
  <2> QED  BY <1>1, <2>1 DEF PtOwn, PtKnown, PtTypeOK
<1> QED  BY <1>1, <1>8, <1>9 DEF PtInv, s

LEMMA PtInvNext ==
  ASSUME PtInv, [PtNextStep]_ptVars
  PROVE  PtInv'
<1>1. CASE UNCHANGED ptVars
  BY <1>1 DEF PtInv, PtTypeOK, PtNow, ptVars
<1>2. ASSUME NEW p \in PtProcesses, NEW r \in PtSelfRefs, PtCreateProcess(p, r)
      PROVE  PtInv'
  BY <1>2, PtInvCreate
<1>3. ASSUME NEW p \in PtProcesses, NEW a \in PtPages,
             \/ \E foreign \in BOOLEAN : PtMapPage(p, a, foreign, TRUE)
             \/ PtMapPage(p, a, TRUE, FALSE)
      PROVE  PtInv'
  BY <1>3, PtInvMapPage
<1>4. ASSUME NEW p \in PtProcesses, NEW a \in PtPages, PtMapLarge(p, a)
      PROVE  PtInv'
  BY <1>4, PtInvMapLarge
<1>5. CASE PtSyncAliases
  BY <1>5, PtInvSync
<1>6. ASSUME NEW w \in PtWindows, NEW i \in PtIdx, PtEditWindow(w, i)
      PROVE  PtInv'
  BY <1>6, PtInvEditWindow
<1>7. ASSUME NEW f \in PtFrames, NEW i \in PtIdx, PtEditFrame(f, i)
      PROVE  PtInv'
  BY <1>7, PtInvEditFrame
<1> QED  BY <1>1, <1>2, <1>3, <1>4, <1>5, <1>6, <1>7 DEF PtNextStep

\* The frames, the windows and the records of the processes stay what the code makes them.
THEOREM PtTypeCorrect == PtSpec => []PtTypeOK
<1>1. PtInv => PtTypeOK
  BY DEF PtInv
<1> QED  BY <1>1, PtInvInit, PtInvNext, PTL DEF PtSpec

\* No process loses a page or its top table by what mapPage does for another one, by a
\* mapping that is refused half-way, by the copying back of _syncAliasesBack, or by what
\* students edit in the tables of others: walks go where pages were mapped, and the scan
\* finds the top tables and nothing else.
THEOREM TablesKept == PtSpec => []PtTablesKept
BY PtInvInit, PtInvNext, PtInvKept, PTL DEF PtSpec

================================================================================

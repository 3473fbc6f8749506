----------------------------- MODULE RequestProofs -----------------------------
(***************************************************************************)
(* What TLAPS proves of what the simulated NT kernel runs for its drivers: *)
(* deferred routines, timers, work items and threads (Dispatcher), for     *)
(* every number of objects and every depth of calls, and I/O requests      *)
(* (Irp), for every set of devices and IRPs, every number of stack         *)
(* locations and every depth of calls.                                     *)
(***************************************************************************)
EXTENDS Dispatcher, Irp, StackLemmas, TLAPS

(***************************************************************************)
(* Deferred execution (Dispatcher).                                        *)
(***************************************************************************)
USE DEF DISPATCH_LEVEL

-----------------------------------------------------------------------------
(***************************************************************************)
(* The helpers.                                                            *)
(***************************************************************************)

\* Marking records keeps the queue a queue: only drained, withdrawn and runs
\* of the records in S change.
LEMMA MarkDrainedResult ==
  ASSUME pendingDpcs \in Seq(DpcRecord), NEW S, NEW ran \in BOOLEAN,
         NEW taken \in BOOLEAN, MarkDrained(S, ran, taken)
  PROVE  /\ pendingDpcs' \in Seq(DpcRecord)
         /\ Len(pendingDpcs') = Len(pendingDpcs)
         /\ DOMAIN pendingDpcs' = DOMAIN pendingDpcs
         /\ \A i \in DOMAIN pendingDpcs :
              /\ pendingDpcs'[i].dpc = pendingDpcs[i].dpc
              /\ i \notin S => pendingDpcs'[i] = pendingDpcs[i]
              /\ i \in S =>
                   /\ pendingDpcs'[i].drained
                   /\ pendingDpcs'[i].runs =
                        IF ran THEN pendingDpcs[i].runs + 1
                        ELSE pendingDpcs[i].runs
                   /\ pendingDpcs'[i].withdrawn =
                        (pendingDpcs[i].withdrawn \/ taken)
<1> DEFINE rec(i) == IF i \in S
                     THEN [pendingDpcs[i] EXCEPT
                             !.drained = TRUE,
                             !.runs = IF ran THEN @ + 1 ELSE @,
                             !.withdrawn = @ \/ taken]
                     ELSE pendingDpcs[i]
<1>1. pendingDpcs' = [i \in DOMAIN pendingDpcs |-> rec(i)]
  BY DEF MarkDrained
<1>2. DOMAIN pendingDpcs = 1..Len(pendingDpcs) /\ Len(pendingDpcs) \in Nat
  OBVIOUS
<1>3. ASSUME NEW i \in DOMAIN pendingDpcs
      PROVE  /\ rec(i) \in DpcRecord
             /\ rec(i).dpc = pendingDpcs[i].dpc
             /\ i \notin S => rec(i) = pendingDpcs[i]
             /\ i \in S => /\ rec(i).drained
                           /\ rec(i).runs = IF ran THEN pendingDpcs[i].runs + 1
                                            ELSE pendingDpcs[i].runs
                           /\ rec(i).withdrawn =
                                (pendingDpcs[i].withdrawn \/ taken)
  <2> DEFINE r == pendingDpcs[i]
             q == [dpc |-> r.dpc, targetCpu |-> r.targetCpu, drained |-> TRUE,
                   withdrawn |-> r.withdrawn \/ taken,
                   runs |-> IF ran THEN r.runs + 1 ELSE r.runs]
  <2>1. r \in DpcRecord
    OBVIOUS
  <2>2. r.dpc \in Dpcs /\ r.targetCpu \in Targets \cup {0} /\ r.runs \in Nat
    BY <2>1 DEF DpcRecord
  <2>3. (IF ran THEN r.runs + 1 ELSE r.runs) \in Nat
    BY <2>2
  <2>4. (r.withdrawn \/ taken) \in BOOLEAN
    OBVIOUS
  <2>5. q \in DpcRecord
    BY <2>2, <2>3, <2>4 DEF DpcRecord
  <2>6. CASE i \in S
    <3>1. rec(i) = q
      BY <2>1, <2>6 DEF DpcRecord
    <3> QED  BY <2>5, <2>6, <3>1
  <2>7. CASE i \notin S
    BY <2>1, <2>7
  <2> QED  BY <2>6, <2>7
<1> HIDE DEF rec
<1>4. /\ pendingDpcs' \in Seq(DpcRecord)
      /\ Len(pendingDpcs') = Len(pendingDpcs)
      /\ DOMAIN pendingDpcs' = DOMAIN pendingDpcs
  BY <1>1, <1>2, <1>3
<1> QED  BY <1>1, <1>3, <1>4

\* The clock moves and no record changes but in its due time.
LEMMA ElapseResult ==
  ASSUME TypeOK, NEW n \in Nat, Elapse(n)
  PROVE  /\ timerObjs' \in Seq(TimerRecord)
         /\ DOMAIN timerObjs' = DOMAIN timerObjs
         /\ pg' \in PgRecord
         /\ driftAge' \in Nat
         /\ \A i \in DOMAIN timerObjs :
              /\ timerObjs'[i].timer = timerObjs[i].timer
              /\ timerObjs'[i].period = timerObjs[i].period
<1> DEFINE live == pendingTimers \cup sweep
           rec(i) == IF i \in live THEN [timerObjs[i] EXCEPT !.due = @ - n]
                     ELSE timerObjs[i]
<1>1. timerObjs' = [i \in DOMAIN timerObjs |-> rec(i)]
  BY DEF Elapse
<1>2. \A i \in DOMAIN timerObjs : /\ rec(i) \in TimerRecord
                                  /\ rec(i).timer = timerObjs[i].timer
                                  /\ rec(i).period = timerObjs[i].period
  <2> TAKE i \in DOMAIN timerObjs
  <2>1. timerObjs[i] \in TimerRecord
    BY DEF TypeOK
  <2>2. timerObjs[i].due - n \in Int
    BY <2>1 DEF TimerRecord
  <2>3. [timerObjs[i] EXCEPT !.due = @ - n] \in TimerRecord
    BY <2>1, <2>2 DEF TimerRecord
  <2>4. /\ [timerObjs[i] EXCEPT !.due = @ - n].timer = timerObjs[i].timer
        /\ [timerObjs[i] EXCEPT !.due = @ - n].period = timerObjs[i].period
    BY <2>1 DEF TimerRecord
  <2> QED  BY <2>1, <2>3, <2>4
<1>3. timerObjs \in Seq(TimerRecord)
  BY DEF TypeOK
<1> HIDE DEF rec
<1>4. timerObjs' \in Seq(TimerRecord) /\ DOMAIN timerObjs' = DOMAIN timerObjs
  BY <1>1, <1>2, <1>3
<1>5. pg' \in PgRecord
  <2>1. pg \in PgRecord /\ pg.nextIn - n \in Int
    BY DEF TypeOK, PgRecord
  <2>2. [pg EXCEPT !.nextIn = @ - n] \in PgRecord
    BY <2>1 DEF PgRecord
  <2> QED  BY <2>1, <2>2 DEF Elapse
<1>6. driftAge' \in Nat
  BY DEF TypeOK, Elapse
<1> QED  BY <1>1, <1>2, <1>4, <1>5, <1>6

\* Setting a timer keeps every record it does not re-arm, and re-arms or adds
\* exactly one record of the timer.
LEMMA SetTimerResult ==
  ASSUME TypeOK, NEW t \in Timers, NEW delta \in Deltas, NEW p \in Periods,
         NEW d \in Dpcs \cup {NoDpc}, SetTimer(t, delta, p, d)
  PROVE  /\ timerObjs' \in Seq(TimerRecord)
         /\ pendingTimers' \subseteq DOMAIN timerObjs'
         /\ DOMAIN timerObjs \subseteq DOMAIN timerObjs'
         /\ pendingTimers \subseteq pendingTimers'
         /\ \A i \in DOMAIN timerObjs :
              /\ timerObjs'[i].timer = timerObjs[i].timer
              /\ timerObjs[i].timer = t \/ timerObjs'[i] = timerObjs[i]
         /\ \A i \in pendingTimers' \ pendingTimers :
              /\ timerObjs'[i].timer = t
              /\ \A j \in pendingTimers : timerObjs[j].timer # t
              /\ \A j \in pendingTimers' \ pendingTimers : i = j
<1> DEFINE rec == [timer |-> t, due |-> delta, period |-> p, dpc |-> d]
           listed == {i \in pendingTimers : timerObjs[i].timer = t}
<1>1. rec \in TimerRecord
  BY DispatcherAssumption DEF DispatcherAssumption, TimerRecord
<1>2. /\ timerObjs \in Seq(TimerRecord)
      /\ pendingTimers \subseteq DOMAIN timerObjs
  BY DEF TypeOK
<1>3. rec.timer = t
  OBVIOUS
<1> HIDE DEF rec
<1>4. CASE listed # {}
  <2>1. PICK i \in listed : /\ timerObjs' = [timerObjs EXCEPT ![i] = rec]
                            /\ pendingTimers' = pendingTimers
    BY <1>4 DEF SetTimer, rec
  <2> QED  BY <1>1, <1>2, <1>3, <2>1
<1>5. CASE listed = {}
  <2>1. /\ timerObjs' = Append(timerObjs, rec)
        /\ pendingTimers' = pendingTimers \cup {Len(timerObjs) + 1}
    BY <1>5 DEF SetTimer, rec
  <2>2. timerObjs' \in Seq(TimerRecord) /\ Len(timerObjs') = Len(timerObjs) + 1
    BY <1>1, <1>2, <2>1
  <2>3. \A i \in DOMAIN timerObjs : timerObjs'[i] = timerObjs[i]
    BY <1>1, <1>2, <2>1
  <2>4. timerObjs'[Len(timerObjs) + 1] = rec
    BY <1>1, <1>2, <2>1
  <2> QED  BY <1>2, <1>3, <1>5, <2>1, <2>2, <2>3, <2>4
<1> QED  BY <1>4, <1>5

-----------------------------------------------------------------------------
(***************************************************************************)
(* Type correctness.                                                       *)
(***************************************************************************)

LEMMA TypeInit == Init => TypeOK
<1>1. [armed |-> FALSE, period |-> 1, nextIn |-> 0, violated |-> FALSE,
       window |-> 0] \in PgRecord
  BY DEF PgRecord
<1>2. MaxPasses \in Nat
  BY DispatcherAssumption DEF DispatcherAssumption
<1>3. <<>> \in Seq(DpcRecord) /\ <<>> \in Seq(TimerRecord)
  OBVIOUS
<1> SUFFICES ASSUME Init PROVE TypeOK
  OBVIOUS
<1>4. /\ currentIrql \in Levels
      /\ cpuIrqls \in [Cores -> Levels]
      /\ dpcTargetCpu \in [Dpcs -> Targets \cup {0}]
  BY DEF Init, Levels
<1>5. /\ pendingDpcs \in Seq(DpcRecord)
      /\ timerObjs \in Seq(TimerRecord)
      /\ pg \in PgRecord
      /\ pass \in 0..MaxPasses
  BY <1>1, <1>2, <1>3 DEF Init
<1> QED  BY <1>4, <1>5 DEF Init, TypeOK, Loops, Routines

LEMMA TypeStutter == TypeOK /\ UNCHANGED vars => TypeOK'
BY DEF TypeOK, vars, irqlVars, dpcVars, timerVars, queueVars, pgVars, loopVars

LEMMA TypeGuestCall == TypeOK /\ GuestCall => TypeOK'
<1> SUFFICES ASSUME TypeOK, GuestCall PROVE TypeOK'
  OBVIOUS
<1> USE DispatcherAssumption DEF DispatcherAssumption
<1> USE DEF irqlVars, dpcVars, timerVars, queueVars, pgVars, loopVars, Levels
<1>1. ASSUME NEW l \in Irqls, RaiseIrql(l) \/ LowerIrql(l)
      PROVE  TypeOK'
  BY <1>1 DEF TypeOK, RaiseIrql, LowerIrql, BugCheck
<1>2. CASE KeBugCheckEx
  BY <1>2 DEF TypeOK, KeBugCheckEx, BugCheck
<1>3. ASSUME NEW d \in Dpcs, NEW c \in Targets, KeSetTargetProcessorDpc(d, c)
      PROVE  TypeOK'
  BY <1>3 DEF TypeOK, KeSetTargetProcessorDpc
<1>4. ASSUME NEW d \in Dpcs, KeInsertQueueDpc(d)
      PROVE  TypeOK'
  <2> DEFINE rec == [dpc |-> d, targetCpu |-> dpcTargetCpu[d],
                     drained |-> FALSE, withdrawn |-> FALSE, runs |-> 0]
  <2>1. rec \in DpcRecord
    BY DEF TypeOK, DpcRecord
  <2>2. pendingDpcs' = Append(pendingDpcs, rec)
    BY <1>4 DEF KeInsertQueueDpc, QueueDpc
  <2> HIDE DEF rec
  <2>3. pendingDpcs' \in Seq(DpcRecord)
        /\ DOMAIN pendingDpcs \subseteq DOMAIN pendingDpcs'
    BY <2>1, <2>2 DEF TypeOK
  <2>4. cpuIrqls' \in [Cores -> Levels]
    BY <1>4 DEF TypeOK, KeInsertQueueDpc, RaiseCore
  <2> QED  BY <1>4, <2>3, <2>4 DEF TypeOK, KeInsertQueueDpc
<1>5. ASSUME NEW d \in Dpcs, KeRemoveQueueDpc(d)
      PROVE  TypeOK'
  <2>1. PICK i \in Undrained : /\ MarkDrained({i}, FALSE, TRUE)
                              /\ UnpinCores({pendingDpcs[i].targetCpu})
    BY <1>5 DEF KeRemoveQueueDpc
  <2>2. pendingDpcs' \in Seq(DpcRecord)
        /\ DOMAIN pendingDpcs' = DOMAIN pendingDpcs
    BY <2>1, MarkDrainedResult DEF TypeOK
  <2>3. cpuIrqls' \in [Cores -> Levels]
    BY <2>1 DEF TypeOK, UnpinCores
  <2> QED  BY <1>5, <2>2, <2>3 DEF TypeOK, KeRemoveQueueDpc
<1>6. CASE KfReleaseDirectedDpcs
  <2>1. pendingDpcs' \in Seq(DpcRecord)
        /\ DOMAIN pendingDpcs' = DOMAIN pendingDpcs
    BY <1>6, MarkDrainedResult DEF TypeOK, KfReleaseDirectedDpcs
  <2>2. cpuIrqls' \in [Cores -> Levels]
    BY <1>6 DEF TypeOK, KfReleaseDirectedDpcs, UnpinCores
  <2> QED  BY <1>6, <2>1, <2>2 DEF TypeOK, KfReleaseDirectedDpcs
<1>7. ASSUME NEW t \in Timers, NEW delta \in Deltas, NEW p \in Periods,
             NEW d \in Dpcs \cup {NoDpc}, KeSetTimer(t, delta, p, d)
      PROVE  TypeOK'
  <2>1. /\ timerObjs' \in Seq(TimerRecord)
        /\ pendingTimers' \subseteq DOMAIN timerObjs'
        /\ DOMAIN timerObjs \subseteq DOMAIN timerObjs'
    BY <1>7, SetTimerResult DEF KeSetTimer
  <2> QED  BY <1>7, <2>1 DEF TypeOK, KeSetTimer
<1>8. ASSUME NEW t \in Timers, KeCancelTimer(t)
      PROVE  TypeOK'
  BY <1>8 DEF TypeOK, KeCancelTimer, CancelTimer
<1>9. CASE KeQueryTickCount
  <2>1. /\ timerObjs' \in Seq(TimerRecord)
        /\ DOMAIN timerObjs' = DOMAIN timerObjs
        /\ pg' \in PgRecord
        /\ driftAge' \in Nat
    BY <1>9, ElapseResult DEF KeQueryTickCount
  <2> QED  BY <1>9, <2>1 DEF TypeOK, KeQueryTickCount
<1>10. CASE IoQueueWorkItem
  BY <1>10 DEF TypeOK, IoQueueWorkItem
<1>12. CASE PsCreateSystemThread
  BY <1>12 DEF TypeOK, PsCreateSystemThread
<1>13. CASE KeInsertQueueApc
  BY <1>13 DEF TypeOK, KeInsertQueueApc
<1>11. ASSUME NEW d \in BOOLEAN, WriteProtected(d)
       PROVE  TypeOK'
  BY <1>11 DEF TypeOK, WriteProtected
<1> QED  BY <1>1, <1>2, <1>3, <1>4, <1>5, <1>6, <1>7, <1>8, <1>9, <1>10, <1>11,
            <1>12, <1>13
         DEF GuestCall

LEMMA TypeHostCall == TypeOK /\ HostCall => TypeOK'
<1> SUFFICES ASSUME TypeOK, HostCall PROVE TypeOK'
  OBVIOUS
<1> USE DispatcherAssumption DEF DispatcherAssumption
<1> USE DEF irqlVars, dpcVars, timerVars, queueVars, pgVars, loopVars, Levels,
            Loops, Routines
<1>1. ASSUME NEW entry \in BOOLEAN, CallDriver(entry)
      PROVE  TypeOK'
  BY <1>1 DEF TypeOK, CallDriver
<1>2. CASE DrainDpcs
  <2>1. pendingDpcs' \in Seq(DpcRecord)
        /\ DOMAIN pendingDpcs' = DOMAIN pendingDpcs
    BY <1>2, MarkDrainedResult DEF TypeOK, DrainDpcs
  <2> QED  BY <1>2, <2>1 DEF TypeOK, DrainDpcs
<1>3. CASE CheckDpcWatchdog
  BY <1>3 DEF TypeOK, CheckDpcWatchdog, BugCheck
<1>4. CASE ProtectRange
  BY <1>4 DEF TypeOK, ProtectRange
<1>5. ASSUME NEW p \in PgPeriods, NEW ph \in PgPhases, InstallPatchguard(p, ph)
      PROVE  TypeOK'
  <2>1. pg' \in PgRecord
    BY <1>5 DEF InstallPatchguard, PgRecord
  <2> QED  BY <1>5, <2>1 DEF TypeOK, InstallPatchguard
<1>6. ASSUME NEW n \in TickSteps, AdvanceTicks(n)
      PROVE  TypeOK'
  <2>1. /\ timerObjs' \in Seq(TimerRecord)
        /\ DOMAIN timerObjs' = DOMAIN timerObjs
        /\ pg' \in PgRecord
        /\ driftAge' \in Nat
    BY <1>6, ElapseResult DEF AdvanceTicks
  <2> QED  BY <1>6, <2>1 DEF TypeOK, AdvanceTicks, EnterTimerLoop
<1>7. CASE FireDueTimers
  BY <1>7 DEF TypeOK, FireDueTimers, EnterTimerLoop
<1>8. CASE DrainDeferred
  BY <1>8 DEF TypeOK, DrainDeferred
<1> QED  BY <1>1, <1>2, <1>3, <1>4, <1>5, <1>6, <1>7, <1>8 DEF HostCall

LEMMA TypeLoopStep == TypeOK /\ LoopStep => TypeOK'
<1> SUFFICES ASSUME TypeOK, LoopStep PROVE TypeOK'
  OBVIOUS
<1> USE DispatcherAssumption DEF DispatcherAssumption
<1> USE DEF irqlVars, dpcVars, timerVars, queueVars, pgVars, loopVars, Loops,
            Routines
<1>1. ASSUME NEW i \in DOMAIN timerObjs, TimerExpires(i)
      PROVE  TypeOK'
  <2>1. pendingDpcs' \in Seq(DpcRecord)
        /\ DOMAIN pendingDpcs' = DOMAIN pendingDpcs
    BY <1>1, MarkDrainedResult DEF TypeOK, TimerExpires
  <2> QED  BY <1>1, <2>1 DEF TypeOK, TimerExpires
<1>2. ASSUME NEW i \in DOMAIN timerObjs, TimerSkipped(i)
      PROVE  TypeOK'
  BY <1>2 DEF TypeOK, TimerSkipped
<1>3. CASE TimersDone
  BY <1>3 DEF TypeOK, TimersDone, Undrained
<1>4. ASSUME NEW i \in DOMAIN pendingDpcs, DpcRuns(i) \/ DrainRunsDpc(i)
      PROVE  TypeOK'
  <2>1. pendingDpcs' \in Seq(DpcRecord)
        /\ DOMAIN pendingDpcs' = DOMAIN pendingDpcs
    BY <1>4, MarkDrainedResult DEF TypeOK, DpcRuns, DrainRunsDpc
  <2> QED  BY <1>4, <2>1 DEF TypeOK, DpcRuns, DrainRunsDpc
<1>5. CASE RetireDone
  BY <1>5 DEF TypeOK, RetireDone
<1>6. CASE AdvanceReturns
  <2>1. pg' \in PgRecord /\ halted' \in BOOLEAN
    <3>1. [pg EXCEPT !.violated = TRUE] \in PgRecord
      BY DEF TypeOK, PgRecord
    <3>2. pg.nextIn + pg.period \in Int
      BY DEF TypeOK, PgRecord
    <3>3. [pg EXCEPT !.nextIn = @ + pg.period] \in PgRecord
      BY <3>2 DEF TypeOK, PgRecord
    <3> QED  BY <1>6, <3>1, <3>3
             DEF TypeOK, AdvanceReturns, PatchguardSweep, BugCheck
  <2> QED  BY <1>6, <2>1 DEF TypeOK, AdvanceReturns
<1>7. CASE DrainPass
  <2>1. pendingDpcs' \in Seq(DpcRecord)
        /\ DOMAIN pendingDpcs' = DOMAIN pendingDpcs
    BY <1>7, MarkDrainedResult DEF TypeOK, DrainPass
  <2> QED  BY <1>7, <2>1 DEF TypeOK, DrainPass, Undrained
<1>8. CASE DrainRunsWork
  BY <1>8 DEF TypeOK, DrainRunsWork
<1>9. CASE DrainRunsThread
  BY <1>9 DEF TypeOK, DrainRunsThread
<1>10. CASE DrainDone
  BY <1>10 DEF TypeOK, DrainDone
<1>11. CASE DrainRunsApc
  BY <1>11 DEF TypeOK, DrainRunsApc
<1> QED  BY <1>1, <1>2, <1>3, <1>4, <1>5, <1>6, <1>7, <1>8, <1>9, <1>10, <1>11
         DEF LoopStep

LEMMA TypeCallReturns == TypeOK /\ CallReturns => TypeOK'
<1> SUFFICES ASSUME TypeOK, CallReturns PROVE TypeOK'
  OBVIOUS
<1> USE DispatcherAssumption DEF DispatcherAssumption
<1> USE DEF irqlVars, dpcVars, timerVars, queueVars, pgVars, loopVars, Routines
<1>1. CASE DriverReturns \/ RoutineReturns
  BY <1>1 DEF TypeOK, DriverReturns, RoutineReturns
<1>2. ASSUME NEW i \in DOMAIN timerObjs, TimerReturns(i)
      PROVE  TypeOK'
  <2>1. timerObjs[i] \in TimerRecord
    BY DEF TypeOK
  <2>2. timerObjs[i].due + timerObjs[i].period \in Int
    BY <2>1 DEF TimerRecord
  <2>3. [timerObjs[i] EXCEPT !.due = @ + timerObjs[i].period] \in TimerRecord
    BY <2>1, <2>2 DEF TimerRecord
  <2>4. [timerObjs EXCEPT ![i].due = @ + timerObjs[i].period]
          = [timerObjs EXCEPT
               ![i] = [timerObjs[i] EXCEPT !.due = @ + timerObjs[i].period]]
    BY DEF TypeOK
  <2>5. CASE guard < MaxPerTimer /\ timerObjs[i].period > 0
    <3>1. /\ timerObjs' = [timerObjs EXCEPT
                ![i] = [timerObjs[i] EXCEPT !.due = @ + timerObjs[i].period]]
          /\ UNCHANGED <<pendingTimers, sweep, guard>>
      BY <1>2, <2>4, <2>5 DEF TimerReturns
    <3>2. timerObjs' \in Seq(TimerRecord)
          /\ DOMAIN timerObjs' = DOMAIN timerObjs
      BY <2>3, <3>1, SMTT(30) DEF TypeOK
    <3> QED  BY <1>2, <3>1, <3>2 DEF TypeOK, TimerReturns
  <2>6. CASE ~(guard < MaxPerTimer /\ timerObjs[i].period > 0)
    <3>1. /\ pendingTimers' \subseteq pendingTimers
          /\ sweep' = sweep \ {i}
          /\ guard' = 0
          /\ timerObjs' = timerObjs
      BY <1>2, <2>6 DEF TimerReturns, CancelTimer
    <3> QED  BY <1>2, <3>1 DEF TypeOK, TimerReturns
  <2> QED  BY <2>5, <2>6
<1> QED  BY <1>1, <1>2 DEF CallReturns

LEMMA TypeNext == TypeOK /\ [Next]_vars => TypeOK'
BY TypeStutter, TypeGuestCall, TypeHostCall, TypeLoopStep, TypeCallReturns
   DEF Next

\* Type correctness: every variable keeps its type, whatever guest routines do
\* inside the kernel's loops.
THEOREM TypeCorrect == Spec => []TypeOK
BY TypeInit, TypeNext, PTL DEF Spec

-----------------------------------------------------------------------------
(***************************************************************************)
(* PatchGuard's schedule.                                                  *)
(***************************************************************************)

\* Why SweepScheduled holds: a window is at least a period, and nothing ages
\* while the bytes are pristine.
SweepInv ==
  /\ SweepScheduled
  /\ pg.period <= pg.window \/ ~pg.armed
  /\ ~drift => driftAge = 0

LEMMA ElapseSweep ==
  ASSUME TypeOK, SweepInv, NEW n \in Nat, Elapse(n), UNCHANGED drift
  PROVE  SweepInv'
<1>1. pg \in PgRecord /\ pg.nextIn \in Int /\ pg.window \in Nat
      /\ driftAge \in Nat
  BY DEF TypeOK, PgRecord
<1>2. CASE pg.armed /\ ~pg.violated
  <2>1. pg' = [pg EXCEPT !.nextIn = pg.nextIn - n]
    BY <1>2 DEF Elapse
  <2>2. /\ pg'.nextIn = pg.nextIn - n
        /\ pg'.period = pg.period
        /\ pg'.window = pg.window
    BY <1>1, <2>1 DEF PgRecord
  <2>3. driftAge' = IF drift THEN driftAge + n ELSE driftAge
    BY <1>2 DEF Elapse
  <2> QED  BY <1>1, <1>2, <2>2, <2>3 DEF SweepInv, SweepScheduled
<1>3. CASE ~(pg.armed /\ ~pg.violated)
  BY <1>3 DEF SweepInv, SweepScheduled, Elapse
<1> QED  BY <1>2, <1>3

LEMMA SweepInit == Init => SweepInv
BY DEF Init, SweepInv, SweepScheduled

LEMMA SweepNext == TypeOK /\ SweepInv /\ [Next]_vars => SweepInv'
<1> SUFFICES ASSUME TypeOK, SweepInv, [Next]_vars PROVE SweepInv'
  OBVIOUS
<1> USE DispatcherAssumption DEF DispatcherAssumption
<1>1. ASSUME NEW d \in BOOLEAN, WriteProtected(d)
      PROVE  SweepInv'
  <2>1. driftAge' = 0 /\ pg' = pg
    BY <1>1 DEF WriteProtected
  <2>2. pg.nextIn \in Int /\ pg.window \in Nat /\ driftAge \in Nat
    BY DEF TypeOK, PgRecord
  <2> QED  BY <2>1, <2>2 DEF SweepInv, SweepScheduled
<1>2. ASSUME NEW p \in PgPeriods, NEW ph \in PgPhases, InstallPatchguard(p, ph)
      PROVE  SweepInv'
  <2>1. /\ pg'.nextIn = ph
        /\ pg'.period = p
        /\ pg'.window = (IF ph > p THEN ph ELSE p)
        /\ driftAge' = 0
    BY <1>2 DEF InstallPatchguard
  <2> QED  BY <2>1 DEF SweepInv, SweepScheduled
<1>3. CASE KeQueryTickCount
  BY <1>3, ElapseSweep DEF KeQueryTickCount
<1>4. ASSUME NEW n \in TickSteps, AdvanceTicks(n)
      PROVE  SweepInv'
  BY <1>4, ElapseSweep DEF AdvanceTicks
<1>5. CASE AdvanceReturns
  <2>1. pg \in PgRecord /\ pg.nextIn \in Int /\ pg.period \in Nat
        /\ pg.window \in Nat /\ driftAge \in Nat
    BY DEF TypeOK, PgRecord
  <2>2. CASE swept /\ PgSweepDue /\ drift
    <3>1. pg' = [pg EXCEPT !.violated = TRUE]
      BY <1>5, <2>2 DEF AdvanceReturns, PatchguardSweep
    <3>2. /\ pg'.violated /\ pg'.period = pg.period /\ pg'.window = pg.window
          /\ pg'.armed = pg.armed
      BY <2>1, <3>1 DEF PgRecord
    <3> QED  BY <1>5, <3>2 DEF SweepInv, SweepScheduled, AdvanceReturns
  <2>3. CASE swept /\ PgSweepDue /\ ~drift
    <3>1. pg' = [pg EXCEPT !.nextIn = pg.nextIn + pg.period]
      BY <1>5, <2>3 DEF AdvanceReturns, PatchguardSweep
    <3>2. /\ pg'.nextIn = pg.nextIn + pg.period /\ pg'.period = pg.period
          /\ pg'.window = pg.window
      BY <2>1, <3>1 DEF PgRecord
    <3>3. pg.armed /\ pg.nextIn <= 0 /\ driftAge = 0
      BY <2>3 DEF PgSweepDue, SweepInv
    <3> QED  BY <1>5, <2>1, <3>2, <3>3
             DEF SweepInv, SweepScheduled, AdvanceReturns
  <2>4. CASE ~(swept /\ PgSweepDue)
    BY <1>5, <2>4 DEF SweepInv, SweepScheduled, AdvanceReturns
  <2> QED  BY <2>2, <2>3, <2>4
<1>6. ASSUME UNCHANGED <<pg, drift, driftAge>>
      PROVE  SweepInv'
  BY <1>6 DEF SweepInv, SweepScheduled
<1>7. CASE GuestCall \/ HostCall
  <2> USE DEF pgVars
  <2>1. ASSUME \/ \E l \in Irqls : RaiseIrql(l) \/ LowerIrql(l)
               \/ KeBugCheckEx
               \/ \E d \in Dpcs, c \in Targets : KeSetTargetProcessorDpc(d, c)
               \/ \E d \in Dpcs : KeInsertQueueDpc(d) \/ KeRemoveQueueDpc(d)
               \/ KfReleaseDirectedDpcs
        PROVE  SweepInv'
    BY <1>6, <2>1 DEF RaiseIrql, LowerIrql, KeBugCheckEx,
         KeSetTargetProcessorDpc, KeInsertQueueDpc, KeRemoveQueueDpc,
         KfReleaseDirectedDpcs
  <2>2. ASSUME \/ \E t \in Timers, delta \in Deltas, p \in Periods :
                    \E d \in Dpcs \cup {NoDpc} : KeSetTimer(t, delta, p, d)
               \/ \E t \in Timers : KeCancelTimer(t)
               \/ IoQueueWorkItem
               \/ KeInsertQueueApc
               \/ PsCreateSystemThread
        PROVE  SweepInv'
    BY <1>6, <2>2 DEF KeSetTimer, KeCancelTimer, IoQueueWorkItem,
         KeInsertQueueApc, PsCreateSystemThread
  <2>3. ASSUME \/ \E entry \in BOOLEAN : CallDriver(entry)
               \/ DrainDpcs
               \/ CheckDpcWatchdog
               \/ ProtectRange
               \/ FireDueTimers
               \/ DrainDeferred
        PROVE  SweepInv'
    BY <1>6, <2>3 DEF CallDriver, DrainDpcs, CheckDpcWatchdog, ProtectRange,
         FireDueTimers, DrainDeferred
  <2> QED  BY <1>1, <1>2, <1>3, <1>4, <1>7, <2>1, <2>2, <2>3
           DEF GuestCall, HostCall
<1>8. CASE LoopStep \/ CallReturns
  BY <1>5, <1>6, <1>8
     DEF pgVars, LoopStep, CallReturns, TimerExpires, TimerSkipped, TimersDone,
         DpcRuns, DrainRunsDpc, RetireDone, DrainPass, DrainRunsWork,
         DrainRunsApc, DrainRunsThread, DrainDone, DriverReturns, RoutineReturns, TimerReturns
<1>9. CASE UNCHANGED vars
  BY <1>6, <1>9 DEF vars, pgVars
<1> QED  BY <1>7, <1>8, <1>9 DEF Next

\* Patched bytes are always within one window of the sweep that will see them.
THEOREM SweepOnSchedule == Spec => []SweepScheduled
<1>1. SweepInv => SweepScheduled
  BY DEF SweepInv
<1> QED  BY <1>1, TypeInit, TypeNext, SweepInit, SweepNext, PTL DEF Spec

\* advanceTicks never returns over bytes that have been patched for a window
\* without a bugcheck.
THEOREM PatchesCaught == Spec => CaughtInTime
<1> DEFINE Step == loop = "finish" /\ loop' = "host" /\ swept /\ pg.armed /\ drift
                     => pg'.violated \/ driftAge < pg.window
<1>1. TypeOK /\ SweepInv /\ [Next]_vars => [Step]_vars
  <2> SUFFICES ASSUME TypeOK, SweepInv, Next, loop = "finish", loop' = "host",
                      swept, pg.armed, drift
               PROVE  pg'.violated \/ driftAge < pg.window
    OBVIOUS
  <2>1. AdvanceReturns
    BY DEF Next, GuestCall, HostCall, LoopStep, CallReturns, loopVars,
           HostIdle, RaiseIrql, LowerIrql, KeBugCheckEx,
           KeSetTargetProcessorDpc, KeInsertQueueDpc, KeRemoveQueueDpc,
           KfReleaseDirectedDpcs, KeSetTimer, KeCancelTimer, KeQueryTickCount,
           IoQueueWorkItem, KeInsertQueueApc, PsCreateSystemThread, WriteProtected, CallDriver,
           DrainDpcs, CheckDpcWatchdog, ProtectRange, InstallPatchguard,
           AdvanceTicks, FireDueTimers, DrainDeferred, AtTimer, TimerExpires,
           TimerSkipped, TimersDone, DpcRuns, DrainRunsDpc, RetireDone,
           DrainPass, DrainRunsWork, DrainRunsApc, DrainRunsThread, DrainDone, DriverReturns,
           RoutineReturns, TimerReturns
  <2>2. pg \in PgRecord /\ pg.nextIn \in Int /\ pg.window \in Nat
        /\ driftAge \in Nat
    BY DEF TypeOK, PgRecord
  <2>3. CASE pg.violated
    <3>1. ~PgSweepDue
      BY <2>3 DEF PgSweepDue
    <3> QED  BY <2>1, <2>3, <3>1 DEF AdvanceReturns
  <2>4. CASE ~pg.violated /\ pg.nextIn <= 0
    <3>1. pg' = [pg EXCEPT !.violated = TRUE]
      BY <2>1, <2>4 DEF AdvanceReturns, PgSweepDue, PatchguardSweep
    <3> QED  BY <2>2, <3>1 DEF PgRecord
  <2>5. CASE ~pg.violated /\ pg.nextIn > 0
    BY <2>2, <2>5 DEF SweepInv, SweepScheduled
  <2> QED  BY <2>2, <2>3, <2>4, <2>5
<1>2. Spec => [](TypeOK /\ SweepInv)
  BY TypeInit, TypeNext, SweepInit, SweepNext, PTL DEF Spec
<1>3. Spec => [][Step]_vars
  BY <1>1, <1>2, PTL DEF Spec
<1> QED  BY <1>3 DEF CaughtInTime

-----------------------------------------------------------------------------
(***************************************************************************)
(* The DPC queue.                                                          *)
(***************************************************************************)

\* Why DeliveredOnce holds: a record of the current batch has not run, and the
\* two loops that take batches tell a record that still has to run from one
\* somebody else has dealt with in opposite ways.  drainDeferred marks its
\* whole batch first, so there a drained record is due; retireQueuedDpcs marks
\* one record at a time, so there a drained record was withdrawn.
DeliveryInv ==
  /\ batch # {} => loop \in {"retire", "drain"}
  /\ \A i \in batch :
       /\ pendingDpcs[i].runs = 0
       /\ loop = "drain" => pendingDpcs[i].drained
       /\ loop = "retire" => ~pendingDpcs[i].drained \/ pendingDpcs[i].withdrawn
  /\ \A i \in DOMAIN pendingDpcs :
       /\ pendingDpcs[i].runs <= 1
       /\ ~pendingDpcs[i].drained =>
            pendingDpcs[i].runs = 0 /\ ~pendingDpcs[i].withdrawn
       /\ pendingDpcs[i].drained /\ ~pendingDpcs[i].withdrawn /\ i \notin batch
            => pendingDpcs[i].runs = 1

LEMMA QueueInit == Init => QueuedOnce /\ DeliveryInv
BY DEF Init, QueuedOnce, DeliveryInv, Undrained

\* Taking waiting records off the queue, outside the loops' batches or inside.
LEMMA WithdrawDelivery ==
  ASSUME TypeOK, QueuedOnce, DeliveryInv, NEW S \in SUBSET Undrained,
         MarkDrained(S, FALSE, TRUE), UNCHANGED <<batch, loop>>
  PROVE  QueuedOnce' /\ DeliveryInv'
<1> pendingDpcs \in Seq(DpcRecord)
  BY DEF TypeOK
<1>0. /\ DOMAIN pendingDpcs' = DOMAIN pendingDpcs
      /\ \A i \in DOMAIN pendingDpcs :
           /\ pendingDpcs'[i].dpc = pendingDpcs[i].dpc
           /\ i \notin S => pendingDpcs'[i] = pendingDpcs[i]
           /\ i \in S => /\ pendingDpcs'[i].drained
                         /\ pendingDpcs'[i].runs =
                              IF FALSE THEN pendingDpcs[i].runs + 1
                              ELSE pendingDpcs[i].runs
                         /\ pendingDpcs'[i].withdrawn =
                              (pendingDpcs[i].withdrawn \/ TRUE)
  BY MarkDrainedResult, Zenon
<1>1. /\ DOMAIN pendingDpcs' = DOMAIN pendingDpcs
      /\ \A i \in DOMAIN pendingDpcs :
           /\ pendingDpcs'[i].dpc = pendingDpcs[i].dpc
           /\ i \notin S => pendingDpcs'[i] = pendingDpcs[i]
           /\ i \in S => /\ pendingDpcs'[i].drained
                         /\ pendingDpcs'[i].runs = pendingDpcs[i].runs
                         /\ pendingDpcs'[i].withdrawn
  BY <1>0
<1>2. QueuedOnce'
  BY <1>1 DEF QueuedOnce, Undrained
<1>3. batch \subseteq DOMAIN pendingDpcs
  BY DEF TypeOK
<1>4. DeliveryInv'
  BY <1>1, <1>3 DEF DeliveryInv, Undrained
<1> QED  BY <1>2, <1>4

\* Handing one record to the CPU: the next of the batch, or a waiting one while
\* there is no batch.
LEMMA RunDelivery ==
  ASSUME TypeOK, QueuedOnce, DeliveryInv, NEW S, NEW i \in DOMAIN pendingDpcs,
         S \subseteq {i}, MarkDrained(S, TRUE, FALSE), UNCHANGED loop,
         \/ i \in batch /\ S = {i} /\ batch' = batch \ {i}
         \/ batch = {} /\ S \subseteq Undrained /\ batch' = batch
  PROVE  QueuedOnce' /\ DeliveryInv'
<1> pendingDpcs \in Seq(DpcRecord)
  BY DEF TypeOK
<1>0. /\ DOMAIN pendingDpcs' = DOMAIN pendingDpcs
      /\ \A j \in DOMAIN pendingDpcs :
           /\ pendingDpcs'[j].dpc = pendingDpcs[j].dpc
           /\ j \notin S => pendingDpcs'[j] = pendingDpcs[j]
           /\ j \in S => /\ pendingDpcs'[j].drained
                         /\ pendingDpcs'[j].runs =
                              IF TRUE THEN pendingDpcs[j].runs + 1
                              ELSE pendingDpcs[j].runs
                         /\ pendingDpcs'[j].withdrawn =
                              (pendingDpcs[j].withdrawn \/ FALSE)
  BY MarkDrainedResult, Zenon
<1>1. /\ DOMAIN pendingDpcs' = DOMAIN pendingDpcs
      /\ \A j \in DOMAIN pendingDpcs :
           /\ pendingDpcs'[j].dpc = pendingDpcs[j].dpc
           /\ j \notin S => pendingDpcs'[j] = pendingDpcs[j]
           /\ j \in S => /\ pendingDpcs'[j].drained
                         /\ pendingDpcs'[j].runs = pendingDpcs[j].runs + 1
  BY <1>0
<1>2. QueuedOnce'
  BY <1>1 DEF QueuedOnce, Undrained
<1>3. batch \subseteq DOMAIN pendingDpcs
  BY DEF TypeOK
<1>4. \A j \in S : pendingDpcs[j].runs = 0
  BY DEF DeliveryInv, Undrained
<1>5. DeliveryInv'
  BY <1>1, <1>3, <1>4 DEF DeliveryInv, Undrained
<1> QED  BY <1>2, <1>5

LEMMA QueueNext ==
  TypeOK /\ QueuedOnce /\ DeliveryInv /\ [Next]_vars => QueuedOnce' /\ DeliveryInv'
<1> SUFFICES ASSUME TypeOK, QueuedOnce, DeliveryInv, [Next]_vars
             PROVE  QueuedOnce' /\ DeliveryInv'
  OBVIOUS
<1>1. ASSUME UNCHANGED <<pendingDpcs, batch>>,
             UNCHANGED loop \/ batch = {}
      PROVE  QueuedOnce' /\ DeliveryInv'
  BY <1>1 DEF QueuedOnce, DeliveryInv, Undrained
<1>2. CASE GuestCall
  <2>1. ASSUME NEW d \in Dpcs, KeInsertQueueDpc(d)
        PROVE  QueuedOnce' /\ DeliveryInv'
    <3> DEFINE rec == [dpc |-> d, targetCpu |-> dpcTargetCpu[d],
                       drained |-> FALSE, withdrawn |-> FALSE, runs |-> 0]
               n == Len(pendingDpcs) + 1
    <3>1. /\ ~IsQueued(d)
          /\ pendingDpcs' = Append(pendingDpcs, rec)
          /\ UNCHANGED <<batch, loop>>
      BY <2>1 DEF KeInsertQueueDpc, QueueDpc, loopVars
    <3>2. rec.dpc = d /\ ~rec.drained /\ ~rec.withdrawn /\ rec.runs = 0
      OBVIOUS
    <3> HIDE DEF rec
    <3>3. /\ DOMAIN pendingDpcs' = DOMAIN pendingDpcs \cup {n}
          /\ n \notin DOMAIN pendingDpcs
          /\ \A i \in DOMAIN pendingDpcs : pendingDpcs'[i] = pendingDpcs[i]
          /\ pendingDpcs'[n] = rec
      BY <3>1 DEF TypeOK
    <3>4. QueuedOnce'
      BY <3>1, <3>2, <3>3 DEF QueuedOnce, Undrained, IsQueued
    <3>5. batch \subseteq DOMAIN pendingDpcs
      BY DEF TypeOK
    <3>6. DeliveryInv'
      BY <3>1, <3>2, <3>3, <3>5 DEF DeliveryInv
    <3> QED  BY <3>4, <3>6
  <2>2. ASSUME NEW d \in Dpcs, KeRemoveQueueDpc(d)
        PROVE  QueuedOnce' /\ DeliveryInv'
    <3>1. PICK i \in Undrained : MarkDrained({i}, FALSE, TRUE)
      BY <2>2 DEF KeRemoveQueueDpc
    <3> QED  BY <2>2, <3>1, WithdrawDelivery DEF KeRemoveQueueDpc, loopVars
  <2>3. CASE KfReleaseDirectedDpcs
    BY <2>3, WithdrawDelivery DEF KfReleaseDirectedDpcs, loopVars
  <2> QED
    BY <1>1, <1>2, <2>1, <2>2, <2>3
       DEF GuestCall, dpcVars, loopVars, RaiseIrql, LowerIrql, KeBugCheckEx,
           KeSetTargetProcessorDpc, KeSetTimer, KeCancelTimer, KeQueryTickCount,
           IoQueueWorkItem, KeInsertQueueApc, PsCreateSystemThread, WriteProtected
<1>3. CASE HostCall
  <2>1. HostIdle => batch = {}
    BY DEF HostIdle, DeliveryInv
  <2>2. CASE DrainDpcs
    BY <2>2, WithdrawDelivery DEF DrainDpcs, loopVars
  <2> QED
    BY <1>1, <1>3, <2>1, <2>2
       DEF HostCall, dpcVars, loopVars, CallDriver, CheckDpcWatchdog,
           ProtectRange, InstallPatchguard, AdvanceTicks, FireDueTimers,
           DrainDeferred
<1>4. CASE LoopStep
  <2>1. ASSUME NEW i \in DOMAIN timerObjs, TimerExpires(i)
        PROVE  QueuedOnce' /\ DeliveryInv'
    <3> DEFINE bound == {r \in Undrained : pendingDpcs[r].dpc = timerObjs[i].dpc}
               first == {r \in bound : IsFirst(r, bound)}
    <3>1. MarkDrained(first, TRUE, FALSE) /\ UNCHANGED <<batch, loop>>
      BY <2>1 DEF TimerExpires
    <3>2. batch = {}
      BY <2>1 DEF TimerExpires, AtTimer, DeliveryInv
    <3>3. CASE first = {}
      <4>1. /\ DOMAIN pendingDpcs' = DOMAIN pendingDpcs
            /\ \A j \in DOMAIN pendingDpcs : pendingDpcs'[j] = pendingDpcs[j]
        BY <3>1, <3>3, MarkDrainedResult DEF TypeOK
      <4> QED  BY <3>1, <3>2, <4>1 DEF QueuedOnce, DeliveryInv, Undrained
    <3>4. ASSUME NEW r \in first
          PROVE  QueuedOnce' /\ DeliveryInv'
      <4>1. r \in DOMAIN pendingDpcs /\ first \subseteq Undrained
        BY DEF Undrained
      <4>2. first \subseteq {r}
        <5>1. \A q \in first : q <= r /\ r <= q /\ q \in Int /\ r \in Int
          BY DEF IsFirst, Undrained, TypeOK
        <5> QED  BY <5>1
      <4> QED  BY <3>1, <3>2, <4>1, <4>2, RunDelivery
    <3> QED  BY <3>3, <3>4
  <2>2. CASE TimersDone
    <3>1. /\ batch = {}
          /\ pendingDpcs' = pendingDpcs
          /\ batch' = (IF loop' = "retire" THEN Undrained ELSE {})
      BY <2>2 DEF TimersDone, DeliveryInv, dpcVars
    <3> QED  BY <3>1 DEF QueuedOnce, DeliveryInv, Undrained
  <2>3. ASSUME NEW i \in DOMAIN pendingDpcs, DpcRuns(i) \/ DrainRunsDpc(i)
        PROVE  QueuedOnce' /\ DeliveryInv'
    <3>1. /\ i \in batch
          /\ MarkDrained({i}, TRUE, FALSE)
          /\ batch' = batch \ {i}
          /\ UNCHANGED loop
      BY <2>3 DEF DpcRuns, DrainRunsDpc, IsFirst
    <3> QED  BY <3>1, RunDelivery
  <2>4. CASE DrainPass
    <3>1. /\ batch = {} /\ batch' = Undrained /\ loop' = "drain"
          /\ loop = "drain"
          /\ MarkDrained(Undrained, FALSE, FALSE)
      BY <2>4 DEF DrainPass, PassOver
    <3>2. /\ DOMAIN pendingDpcs' = DOMAIN pendingDpcs
          /\ \A i \in DOMAIN pendingDpcs :
               /\ pendingDpcs'[i].dpc = pendingDpcs[i].dpc
               /\ i \notin Undrained => pendingDpcs'[i] = pendingDpcs[i]
               /\ i \in Undrained =>
                    /\ pendingDpcs'[i].drained
                    /\ pendingDpcs'[i].runs = pendingDpcs[i].runs
      BY <3>1, MarkDrainedResult DEF TypeOK
    <3>3. QueuedOnce'
      BY <3>2 DEF QueuedOnce, Undrained
    <3>4. DeliveryInv'
      BY <3>1, <3>2 DEF DeliveryInv, Undrained
    <3> QED  BY <3>3, <3>4
  <2>5. CASE AdvanceReturns
    <3>1. batch = {}
      BY <2>5 DEF AdvanceReturns, DeliveryInv
    <3> QED  BY <1>1, <2>5, <3>1 DEF AdvanceReturns, dpcVars
  <2>6. CASE RetireDone \/ DrainDone
    BY <1>1, <2>6 DEF RetireDone, DrainDone, PassOver, dpcVars
  <2> QED
    BY <1>1, <1>4, <2>1, <2>2, <2>3, <2>4, <2>5, <2>6
       DEF LoopStep, dpcVars, TimerSkipped, DrainRunsWork, DrainRunsApc, DrainRunsThread
<1>5. CASE CallReturns
  BY <1>1, <1>5
     DEF CallReturns, dpcVars, loopVars, DriverReturns, RoutineReturns,
         TimerReturns
<1>6. CASE UNCHANGED vars
  BY <1>1, <1>6 DEF vars, dpcVars, loopVars
<1> QED  BY <1>2, <1>3, <1>4, <1>5, <1>6 DEF Next

\* queueDpc's refusal is enough: a KDPC waits in the queue at most once.
THEOREM DpcQueuedOnce == Spec => []QueuedOnce
BY TypeInit, TypeNext, QueueInit, QueueNext, PTL DEF Spec

\* No insertion is run twice, and none that is marked drained is lost.
THEOREM DpcDeliveredOnce == Spec => []DeliveredOnce
<1>1. TypeOK /\ DeliveryInv => DeliveredOnce
  <2> SUFFICES ASSUME TypeOK, DeliveryInv, NEW i \in DOMAIN pendingDpcs
               PROVE  /\ pendingDpcs[i].runs <= 1
                      /\ ~pendingDpcs[i].drained => pendingDpcs[i].runs = 0
                      /\ (/\ pendingDpcs[i].drained
                          /\ ~pendingDpcs[i].withdrawn
                          /\ pendingDpcs[i].runs = 0)
                           => i \in batch
    BY DEF DeliveredOnce
  <2>1. /\ pendingDpcs[i].runs <= 1
        /\ ~pendingDpcs[i].drained => pendingDpcs[i].runs = 0
    BY DEF DeliveryInv
  <2>2. pendingDpcs[i].drained /\ ~pendingDpcs[i].withdrawn /\ i \notin batch
          => pendingDpcs[i].runs = 1
    BY DEF DeliveryInv
  <2>3. pendingDpcs[i].runs = 1 => pendingDpcs[i].runs # 0
    OBVIOUS
  <2> QED  BY <2>1, <2>2, <2>3
<1> QED  BY <1>1, TypeInit, TypeNext, QueueInit, QueueNext, PTL DEF Spec

-----------------------------------------------------------------------------
(***************************************************************************)
(* The timer list.                                                         *)
(***************************************************************************)

\* A timer routine is only ever on the CPU under the timer loop.
InTimer == running \in {"timer", "expiry"}

\* Why ListedIsArmed holds: the timer that is being expired is the only one
\* that may be listed and not armed, it is a one-shot timer then, and the cap
\* on expirations has not been reached, so the loop will drop it.
TimerInv ==
  /\ ListedOnce
  /\ ListedIsArmed
  /\ InTimer \/ guard > 0 => loop = "timers"
  /\ loop = "timers" => InTimer \/ running = "none"
  /\ loop = "timers" /\ running = "none" /\ guard > 0 =>
       \E i \in sweep : IsFirst(i, sweep) /\ timerObjs[i].period > 0
  /\ InTimer =>
       \A i \in sweep \cap pendingTimers :
         IsFirst(i, sweep) /\ timerObjs[i].timer \notin armed =>
           timerObjs[i].period = 0 /\ guard = 1

\* The first timer of a sweep is unique.
LEMMA FirstUnique ==
  ASSUME TypeOK, NEW i, NEW j, IsFirst(i, sweep), IsFirst(j, sweep)
  PROVE  i = j
<1>1. i \in Int /\ j \in Int
  BY DEF IsFirst, TypeOK
<1> QED  BY <1>1 DEF IsFirst

LEMMA PeriodType ==
  ASSUME TypeOK, NEW i \in DOMAIN timerObjs
  PROVE  timerObjs[i].period \in Nat
<1>1. timerObjs[i] \in TimerRecord
  BY DEF TypeOK
<1> QED  BY <1>1 DEF TimerRecord

LEMMA TimerInit == Init => TimerInv
BY DEF Init, TimerInv, ListedOnce, ListedIsArmed, InTimer

\* Steps that leave the records' owners and periods, the list and the loop's
\* place in it alone.
LEMMA TimerFrame ==
  ASSUME TypeOK, TimerInv,
         UNCHANGED <<pendingTimers, armed, loop, running, sweep, guard>>,
         \A i \in DOMAIN timerObjs :
           /\ timerObjs'[i].timer = timerObjs[i].timer
           /\ timerObjs'[i].period = timerObjs[i].period
  PROVE  TimerInv'
<1>1. pendingTimers \subseteq DOMAIN timerObjs /\ sweep \subseteq DOMAIN timerObjs
  BY DEF TypeOK
<1>2. \A i : IsFirst(i, sweep)' <=> IsFirst(i, sweep)
  BY DEF IsFirst
<1>3. ListedOnce'
  BY <1>1 DEF TimerInv, ListedOnce
<1>4. ListedIsArmed'
  BY <1>1, <1>2 DEF TimerInv, ListedIsArmed
<1> QED
  BY <1>1, <1>2, <1>3, <1>4 DEF TimerInv, InTimer

\* Steps of the host and of the other loops: no timer routine is on the CPU
\* before or after, and the loop does not stand in the middle of a timer.
LEMMA TimerIdle ==
  ASSUME TypeOK, TimerInv, UNCHANGED <<pendingTimers, armed>>,
         \A i \in DOMAIN timerObjs : timerObjs'[i].timer = timerObjs[i].timer,
         ~InTimer, ~InTimer', loop' = "timers" => running' = "none", guard' = 0
  PROVE  TimerInv'
<1>1. pendingTimers \subseteq DOMAIN timerObjs
  BY DEF TypeOK
<1>2. ListedOnce'
  BY <1>1 DEF TimerInv, ListedOnce
<1>3. \A i \in pendingTimers : timerObjs[i].timer \in armed
  BY DEF TimerInv, ListedIsArmed, InTimer
<1>4. ListedIsArmed'
  BY <1>1, <1>3 DEF ListedIsArmed
<1> QED  BY <1>2, <1>4 DEF TimerInv

LEMMA TimerNext == TypeOK /\ TimerInv /\ [Next]_vars => TimerInv'
<1> SUFFICES ASSUME TypeOK, TimerInv, [Next]_vars PROVE TimerInv'
  OBVIOUS
<1> USE DispatcherAssumption DEF DispatcherAssumption
<1>1. pendingTimers \subseteq DOMAIN timerObjs /\ sweep \subseteq DOMAIN timerObjs
  BY DEF TypeOK
<1>2. CASE GuestCall
  <2>1. ASSUME NEW t \in Timers, NEW delta \in Deltas, NEW p \in Periods,
               NEW d \in Dpcs \cup {NoDpc}, KeSetTimer(t, delta, p, d)
        PROVE  TimerInv'
    <3>1. /\ DOMAIN timerObjs \subseteq DOMAIN timerObjs'
          /\ pendingTimers \subseteq pendingTimers'
          /\ \A i \in DOMAIN timerObjs :
               /\ timerObjs'[i].timer = timerObjs[i].timer
               /\ timerObjs[i].timer = t \/ timerObjs'[i] = timerObjs[i]
          /\ \A i \in pendingTimers' \ pendingTimers :
               /\ timerObjs'[i].timer = t
               /\ \A j \in pendingTimers : timerObjs[j].timer # t
               /\ \A j \in pendingTimers' \ pendingTimers : i = j
      BY <2>1, SetTimerResult DEF KeSetTimer
    <3>2. /\ armed' = armed \cup {t}
          /\ UNCHANGED <<loop, running, sweep, guard>>
          /\ running # "none"
      BY <2>1 DEF KeSetTimer, GuestRuns, loopVars
    <3>3. \A i : IsFirst(i, sweep)' <=> IsFirst(i, sweep)
      BY <3>2 DEF IsFirst
    <3>4. ListedOnce'
      BY <1>1, <3>1 DEF TimerInv, ListedOnce
    <3>5. ListedIsArmed'
      BY <1>1, <3>1, <3>2, <3>3 DEF TimerInv, ListedIsArmed
    <3>6. InTimer' =>
            \A i \in sweep' \cap pendingTimers' :
              IsFirst(i, sweep)' /\ timerObjs'[i].timer \notin armed' =>
                timerObjs'[i].period = 0 /\ guard' = 1
      BY <1>1, <3>1, <3>2, <3>3 DEF TimerInv, InTimer
    <3> QED  BY <3>2, <3>4, <3>5, <3>6 DEF TimerInv, InTimer
  <2>2. ASSUME NEW t \in Timers, KeCancelTimer(t)
        PROVE  TimerInv'
    <3> DEFINE listed == {i \in pendingTimers : timerObjs[i].timer = t}
    <3>1. /\ pendingTimers' = pendingTimers \ {i \in listed : IsFirst(i, listed)}
          /\ armed' = armed \ {t}
          /\ UNCHANGED <<timerObjs, loop, running, sweep, guard>>
          /\ running # "none"
      BY <2>2 DEF KeCancelTimer, CancelTimer, GuestRuns, loopVars
    <3>2. \A i \in pendingTimers' : timerObjs[i].timer # t
      <4> SUFFICES ASSUME NEW i \in listed PROVE IsFirst(i, listed)
        BY <3>1
      <4>1. \A j \in listed : i = j
        BY DEF TimerInv, ListedOnce
      <4>2. i \in Int
        BY <1>1 DEF TypeOK
      <4> QED  BY <4>1, <4>2 DEF IsFirst
    <3>3. \A i : IsFirst(i, sweep)' <=> IsFirst(i, sweep)
      BY <3>1 DEF IsFirst
    <3>4. ListedOnce' /\ ListedIsArmed'
      BY <3>1, <3>2, <3>3 DEF TimerInv, ListedOnce, ListedIsArmed
    <3> QED  BY <3>1, <3>2, <3>3, <3>4 DEF TimerInv, InTimer
  <2>3. CASE KeQueryTickCount
    <3>1. \A i \in DOMAIN timerObjs :
            /\ timerObjs'[i].timer = timerObjs[i].timer
            /\ timerObjs'[i].period = timerObjs[i].period
      BY <2>3, ElapseResult DEF KeQueryTickCount
    <3> QED  BY <2>3, <3>1, TimerFrame DEF KeQueryTickCount, loopVars
  <2>4. ASSUME UNCHANGED <<timerObjs, pendingTimers, armed, loop, running,
                           sweep, guard>>
        PROVE  TimerInv'
    BY <2>4, TimerFrame
  <2> QED
    BY <1>2, <2>1, <2>2, <2>3, <2>4
       DEF GuestCall, timerVars, loopVars, RaiseIrql, LowerIrql, KeBugCheckEx,
           KeSetTargetProcessorDpc, KeInsertQueueDpc, KeRemoveQueueDpc,
           KfReleaseDirectedDpcs, IoQueueWorkItem, KeInsertQueueApc,
           PsCreateSystemThread, WriteProtected
<1>3. CASE HostCall
  <2>1. HostIdle => ~InTimer /\ guard = 0
    BY DEF HostIdle, TimerInv, InTimer, TypeOK
  <2>2. ASSUME NEW n \in TickSteps, AdvanceTicks(n)
        PROVE  TimerInv'
    <3>1. \A i \in DOMAIN timerObjs : timerObjs'[i].timer = timerObjs[i].timer
      BY <2>2, ElapseResult DEF AdvanceTicks
    <3>2. /\ UNCHANGED <<pendingTimers, armed, running>>
          /\ HostIdle
          /\ guard' = 0 \/ guard' = guard
      BY <2>2 DEF AdvanceTicks, EnterTimerLoop
    <3> QED  BY <2>1, <3>1, <3>2, TimerIdle DEF InTimer, HostIdle
  <2>3. CASE FireDueTimers
    <3>1. /\ UNCHANGED <<timerObjs, pendingTimers, armed, running>>
          /\ HostIdle
          /\ guard' = 0
      BY <2>3 DEF FireDueTimers, EnterTimerLoop, timerVars
    <3> QED  BY <2>1, <3>1, TimerIdle DEF InTimer, HostIdle
  <2>4. ASSUME NEW entry \in BOOLEAN, CallDriver(entry)
        PROVE  TimerInv'
    <3>1. /\ UNCHANGED <<timerObjs, pendingTimers, armed, loop, guard>>
          /\ HostIdle
          /\ running' = "driver"
      BY <2>4 DEF CallDriver, timerVars, loopVars
    <3> QED  BY <2>1, <3>1, TimerIdle DEF InTimer, HostIdle
  <2>5. ASSUME UNCHANGED <<timerObjs, pendingTimers, armed, running, guard>>,
               HostIdle
        PROVE  TimerInv'
    BY <2>1, <2>5, TimerIdle DEF InTimer, HostIdle
  <2> QED
    BY <1>3, <2>2, <2>3, <2>4, <2>5
       DEF HostCall, timerVars, loopVars, DrainDpcs, CheckDpcWatchdog,
           ProtectRange, InstallPatchguard, DrainDeferred
<1>4. CASE LoopStep
  <2>1. ASSUME NEW i \in DOMAIN timerObjs, TimerExpires(i)
        PROVE  TimerInv'
    <3>1. /\ loop = "timers" /\ running = "none" /\ IsFirst(i, sweep)
          /\ guard' = guard + 1
          /\ InTimer'
          /\ armed' = IF timerObjs[i].period = 0 /\ i \in pendingTimers
                      THEN armed \ {timerObjs[i].timer} ELSE armed
          /\ UNCHANGED <<timerObjs, pendingTimers, loop, sweep>>
      BY <2>1 DEF TimerExpires, AtTimer, InTimer
    <3>2. guard > 0 => timerObjs[i].period > 0
      BY <3>1, FirstUnique DEF TimerInv
    <3>3. \A j \in pendingTimers : timerObjs[j].timer \in armed
      BY <3>1 DEF TimerInv, ListedIsArmed
    <3>4. \A j : IsFirst(j, sweep)' <=> IsFirst(j, sweep)
      BY <3>1 DEF IsFirst
    <3>5. ListedOnce'
      BY <3>1 DEF TimerInv, ListedOnce
    <3>6. \A j \in pendingTimers : timerObjs[j].timer \in armed' \/ j = i
      BY <3>1, <3>3 DEF TimerInv, ListedOnce
    <3>7. ListedIsArmed'
      BY <3>1, <3>4, <3>6 DEF ListedIsArmed, InTimer
    <3>8. timerObjs[i].timer \notin armed' /\ i \in pendingTimers =>
            timerObjs[i].period = 0 /\ guard' = 1
      <4>1. timerObjs[i].period \in Nat /\ guard \in Nat
        BY PeriodType DEF TypeOK
      <4> QED  BY <3>1, <3>2, <3>3, <4>1
    <3> QED
      BY <1>1, <3>1, <3>4, <3>5, <3>6, <3>7, <3>8 DEF TimerInv, InTimer
  <2>2. ASSUME NEW i \in DOMAIN timerObjs, TimerSkipped(i)
        PROVE  TimerInv'
    BY <2>2, TimerIdle DEF TimerSkipped, AtTimer, InTimer, timerVars
  <2>3. CASE TimersDone
    <3>1. /\ loop = "timers" /\ running = "none" /\ sweep = {}
          /\ UNCHANGED <<timerObjs, pendingTimers, armed, running, guard>>
      BY <2>3 DEF TimersDone, timerVars
    <3>2. guard = 0
      BY <3>1 DEF TimerInv, TypeOK
    <3> QED  BY <3>1, <3>2, TimerIdle DEF InTimer
  <2>4. ASSUME UNCHANGED <<timerObjs, pendingTimers, armed, guard>>,
               loop # "timers", loop' # "timers",
               UNCHANGED running \/ running' \in {"dpc", "work", "apc", "thread"}
        PROVE  TimerInv'
    <3>1. ~InTimer /\ guard = 0
      BY <2>4 DEF TimerInv, TypeOK
    <3> QED  BY <2>4, <3>1, TimerIdle DEF InTimer
  <2> QED
    BY <1>4, <2>1, <2>2, <2>3, <2>4
       DEF LoopStep, timerVars, DpcRuns, DrainRunsDpc, RetireDone,
           AdvanceReturns, DrainPass, DrainRunsWork, DrainRunsApc, DrainRunsThread, DrainDone
<1>5. CASE CallReturns
  <2>1. CASE DriverReturns \/ RoutineReturns
    <3>1. /\ running \in {"driver", "dpc", "work", "apc", "thread"}
          /\ running' = "none"
          /\ UNCHANGED <<timerObjs, pendingTimers, armed, loop, sweep, guard>>
      BY <2>1 DEF DriverReturns, RoutineReturns, timerVars, loopVars
    <3>2. loop # "timers" /\ ~InTimer /\ guard = 0
      BY <3>1 DEF TimerInv, InTimer, TypeOK
    <3> QED  BY <3>1, <3>2, TimerIdle DEF InTimer
  <2>2. ASSUME NEW i \in DOMAIN timerObjs, TimerReturns(i)
        PROVE  TimerInv'
    <3>1. /\ loop = "timers" /\ InTimer /\ IsFirst(i, sweep)
          /\ running' = "none"
          /\ UNCHANGED <<armed, loop>>
      BY <2>2 DEF TimerReturns, InTimer
    <3>2. \A j \in pendingTimers : j = i \/ timerObjs[j].timer \in armed
      BY <3>1, FirstUnique DEF TimerInv, ListedIsArmed
    <3>3. i \in pendingTimers /\ timerObjs[i].timer \notin armed =>
            timerObjs[i].period = 0 /\ guard = 1
      BY <3>1 DEF TimerInv, IsFirst
    <3>4. timerObjs[i].period \in Nat /\ guard \in Nat
      BY PeriodType DEF TypeOK
    <3>5. CASE guard < MaxPerTimer /\ timerObjs[i].period > 0
      <4>1. /\ timerObjs' = [timerObjs EXCEPT ![i].due = @ + timerObjs[i].period]
            /\ UNCHANGED <<pendingTimers, sweep, guard>>
        BY <2>2, <3>5 DEF TimerReturns
      <4>2. \A j \in DOMAIN timerObjs :
              /\ timerObjs'[j].timer = timerObjs[j].timer
              /\ timerObjs'[j].period = timerObjs[j].period
        <5>1. \A j \in DOMAIN timerObjs : timerObjs[j] \in TimerRecord
          BY DEF TypeOK
        <5>2. timerObjs'[i] =
                [timerObjs[i] EXCEPT !.due = @ + timerObjs[i].period]
          BY <4>1 DEF TypeOK
        <5>3. \A j \in DOMAIN timerObjs \ {i} : timerObjs'[j] = timerObjs[j]
          BY <4>1 DEF TypeOK
        <5>4. /\ timerObjs'[i].timer = timerObjs[i].timer
              /\ timerObjs'[i].period = timerObjs[i].period
          BY <5>1, <5>2 DEF TimerRecord
        <5> QED  BY <5>3, <5>4
      <4>3. \A j \in pendingTimers : timerObjs[j].timer \in armed
        BY <3>2, <3>3, <3>5
      <4>4. ListedOnce' /\ ListedIsArmed'
        BY <1>1, <3>1, <4>1, <4>2, <4>3 DEF TimerInv, ListedOnce, ListedIsArmed
      <4>5. IsFirst(i, sweep)' /\ i \in sweep' /\ timerObjs'[i].period > 0
        BY <3>1, <3>5, <4>1, <4>2 DEF IsFirst
      <4> QED  BY <3>1, <4>4, <4>5 DEF TimerInv, InTimer
    <3>6. CASE ~(guard < MaxPerTimer /\ timerObjs[i].period > 0)
      <4>1. /\ guard' = 0
            /\ timerObjs' = timerObjs
            /\ pendingTimers' \subseteq pendingTimers
        BY <2>2, <3>6 DEF TimerReturns, CancelTimer
      <4>2. i \in pendingTimers' => timerObjs[i].timer \in armed
        <5>1. CASE guard >= MaxPerTimer
          BY <3>3, <3>4, <4>1, <5>1
        <5>2. CASE guard < MaxPerTimer
          <6> DEFINE listed == {j \in pendingTimers :
                                 timerObjs[j].timer = timerObjs[i].timer}
          <6>1. pendingTimers' =
                  pendingTimers \ {j \in listed : IsFirst(j, listed)}
            BY <2>2, <3>4, <3>6, <5>2 DEF TimerReturns, CancelTimer
          <6>2. i \in listed => IsFirst(i, listed)
            <7>1. \A j \in listed : i \in listed => i = j
              BY DEF TimerInv, ListedOnce
            <7>2. i \in Int
              BY DEF TypeOK
            <7> QED  BY <7>1, <7>2 DEF IsFirst
          <6> QED  BY <6>1, <6>2
        <5> QED  BY <3>4, <5>1, <5>2
      <4>3. ListedOnce' /\ ListedIsArmed'
        BY <3>1, <3>2, <4>1, <4>2 DEF TimerInv, ListedOnce, ListedIsArmed
      <4> QED  BY <3>1, <4>1, <4>3 DEF TimerInv, InTimer
    <3> QED  BY <3>5, <3>6
  <2> QED  BY <1>5, <2>1, <2>2 DEF CallReturns
<1>6. CASE UNCHANGED vars
  BY <1>6, TimerFrame DEF vars, timerVars, loopVars
<1> QED  BY <1>2, <1>3, <1>4, <1>5, <1>6 DEF Next

\* Guest calls from inside the expiry loop never make a KTIMER listed twice.
THEOREM TimerListedOnce == Spec => []ListedOnce
<1>1. TimerInv => ListedOnce
  BY DEF TimerInv
<1> QED  BY <1>1, TypeInit, TypeNext, TimerInit, TimerNext, PTL DEF Spec

\* A timer that was cancelled or has expired for good is off the list.
THEOREM ListedTimersArmed == Spec => []ListedIsArmed
<1>1. TimerInv => ListedIsArmed
  BY DEF TimerInv
<1> QED  BY <1>1, TypeInit, TypeNext, TimerInit, TimerNext, PTL DEF Spec

(***************************************************************************)
(* I/O requests (Irp).                                                     *)
(***************************************************************************)
-----------------------------------------------------------------------------
(***************************************************************************)
(* The invariant.                                                          *)
(***************************************************************************)

CallsOK == calls \in Seq(Call)

\* The type invariant without the calls, in the groups the actions change.
MemOK ==
  /\ irps \in [Irps -> IrpRecord]
  /\ slots \in [Irps -> [Locs -> Slot]]
DevOK ==
  /\ devices \subseteq Devices
  /\ currentIrp \in [Devices -> Irps \cup {NoIrp}]
  /\ attached \in [Devices -> Devices \cup {NoDevice}]
HostOK ==
  /\ queued \in 0..MaxDeferred
  /\ lastCompleted \in Irps \cup {NoIrp}
  /\ drained \subseteq Irps
  /\ sending \in Sending
  /\ result \in Result

\* A completion routine is above the loop that called it, which is not through with
\* its locations; a loop has an IRP, and a dispatch routine a device.
CallsNested ==
  \A k \in DOMAIN calls :
    /\ calls[k].kind = "routine" =>
         k > 1 /\ calls[k - 1].kind = "complete" /\ calls[k - 1].loc <= calls[k - 1].last
    /\ calls[k].kind = "complete" => calls[k].irp \in Irps
    /\ calls[k].kind = "dispatch" => calls[k].dev \in Devices

\* An IRP's pointer is nowhere above its array.
PointersBounded ==
  \A i \in Irps : irps[i].count > 0 => irps[i].current <= irps[i].count - 1

\* In the drain: what is the last completed IRP, and was not when the drain began,
\* was completed in it.
DrainTells ==
  sending.phase = "drain" /\ lastCompleted = sending.irp
    /\ sending.completedBefore # sending.irp => sending.irp \in drained

IrpInv ==
  /\ CallsOK /\ MemOK /\ DevOK /\ HostOK
  /\ CallsNested /\ PointersBounded /\ CompletionInArray
  /\ CurrentIrpInDispatch
  /\ DrainTells /\ FinishedWasCompleted

LEMMA IrpTypeSplit == IrpTypeOK <=> CallsOK /\ MemOK /\ DevOK /\ HostOK
BY DEF IrpTypeOK, CallsOK, MemOK, DevOK, HostOK

-----------------------------------------------------------------------------
(***************************************************************************)
(* What a step does to the calls in progress.                              *)
(***************************************************************************)

\* Call k is the one it was, up to how far a loop has come.
Like(k) ==
  /\ calls'[k].kind = calls[k].kind /\ calls'[k].dev = calls[k].dev
  /\ calls'[k].irp = calls[k].irp /\ calls'[k].last = calls[k].last

\* The first n calls stay, and the ones under the last of them where they were.
KeptTo(n) ==
  \A k \in 1..n : Like(k) /\ (k < n => calls'[k].loc = calls[k].loc)

\* The call made above call n.
Made(n) ==
  LET c == calls'[n + 1] IN
  /\ c.kind = "routine" =>
       n > 0 /\ calls[n].kind = "complete" /\ calls'[n].loc <= calls[n].last
  /\ c.kind = "complete" => c.irp \in Irps /\ c.last \in 0..(irps[c.irp].count - 1)
  /\ c.kind = "dispatch" => c.dev \in Devices

\* The first n calls stay, the ones above return, and at most one is made: dispatch
\* routines that return take CurrentIrp back, and the one that is called sets it.
Shape(n) ==
  /\ n \in 0..Len(calls) /\ Len(calls') \in n..n + 1
  /\ KeptTo(n)
  /\ Len(calls') = n + 1 => Made(n)
  /\ \A k \in n + 1..Len(calls) :
       calls[k].kind = "dispatch" => currentIrp'[calls[k].dev] = NoIrp
  /\ \A d \in Devices :
       \/ currentIrp'[d] \in {currentIrp[d], NoIrp}
       \/ /\ Len(calls') = n + 1 /\ calls'[n + 1].kind = "dispatch"
          /\ calls'[n + 1].dev = d /\ calls'[n + 1].irp = currentIrp'[d]

\* An allocated IRP keeps its array.
ArraysKept == \A i \in Irps : irps[i].count > 0 => irps'[i].count = irps[i].count

\* Every step of that shape keeps what is said of the calls.
LEMMA ShapeKeeps ==
  ASSUME CallsOK, CallsOK', CallsNested, CompletionInArray, CurrentIrpInDispatch,
         MemOK, MemOK', ArraysKept, NEW n, Shape(n)
  PROVE  CallsNested' /\ CompletionInArray' /\ CurrentIrpInDispatch'
<1>1. /\ Len(calls) \in Nat /\ DOMAIN calls = 1..Len(calls)
      /\ Len(calls') \in Nat /\ DOMAIN calls' = 1..Len(calls')
  BY DEF CallsOK
<1>2. n \in 0..Len(calls) /\ Len(calls') \in n..n + 1
  BY DEF Shape
<1>3. \A k \in 1..n : Like(k)
  BY DEF Shape, KeptTo
<1>4. Len(calls') = n + 1 => Made(n)
  BY DEF Shape
<1>5. ASSUME NEW i \in Irps, NEW last, last \in 0..(irps[i].count - 1)
      PROVE  last \in 0..(irps'[i].count - 1)
  <2>1. irps[i].count \in Nat
    BY IrpAssumption DEF MemOK, IrpRecord
  <2>2. irps[i].count > 0
    BY <1>5, <2>1
  <2> QED  BY <1>5, <2>2 DEF ArraysKept
<1>6. ASSUME NEW k \in DOMAIN calls'
      PROVE  /\ calls'[k].kind = "routine" =>
                  k > 1 /\ calls'[k - 1].kind = "complete" /\ calls'[k - 1].loc <= calls'[k - 1].last
             /\ calls'[k].kind = "complete" => calls'[k].irp \in Irps
             /\ calls'[k].kind = "dispatch" => calls'[k].dev \in Devices
  <2>1. CASE k \in 1..n
    <3>1. k \in DOMAIN calls /\ Like(k)
      BY <1>1, <1>2, <1>3, <2>1
    <3>2. k > 1 => Like(k - 1) /\ calls'[k - 1].loc = calls[k - 1].loc
      <4>1. k > 1 => k - 1 \in 1..n /\ k - 1 < n
        BY <1>2, <2>1
      <4> QED  BY <4>1 DEF Shape, KeptTo
    <3> QED  BY <3>1, <3>2 DEF Like, CallsNested
  <2>2. CASE k = n + 1
    <3>0. Len(calls') = n + 1
      <4>1. n \in Int /\ Len(calls') \in Int /\ Len(calls') <= n + 1
        BY <1>1, <1>2
      <4>2. k <= Len(calls')
        BY <1>1
      <4> QED  BY <2>2, <4>1, <4>2
    <3>1. Made(n)
      BY <1>4, <3>0, Zenon
    <3>2. n > 0 => Like(n)
      BY <1>2, <1>3
    <3> QED  BY <1>2, <2>2, <3>1, <3>2 DEF Made, Like
  <2> QED  BY <1>1, <1>2, <2>1, <2>2
<1>7. ASSUME NEW k \in DOMAIN calls', calls'[k].kind = "complete"
      PROVE  calls'[k].last \in 0..(irps'[calls'[k].irp].count - 1)
  <2>1. CASE k \in 1..n
    <3>1. k \in DOMAIN calls /\ Like(k)
      BY <1>1, <1>2, <1>3, <2>1
    <3>2. calls[k].irp \in Irps /\ calls[k].last \in 0..(irps[calls[k].irp].count - 1)
      BY <1>7, <3>1 DEF Like, CallsNested, CompletionInArray
    <3> QED  BY <1>5, <3>1, <3>2 DEF Like
  <2>2. CASE k = n + 1
    <3>0. Len(calls') = n + 1
      <4>1. n \in Int /\ Len(calls') \in Int /\ Len(calls') <= n + 1
        BY <1>1, <1>2
      <4>2. k <= Len(calls')
        BY <1>1
      <4> QED  BY <2>2, <4>1, <4>2
    <3>1. Made(n)
      BY <1>4, <3>0, Zenon
    <3> QED  BY <1>5, <1>7, <2>2, <3>1 DEF Made
  <2> QED  BY <1>1, <1>2, <2>1, <2>2
<1>8. ASSUME NEW d \in Devices, currentIrp'[d] # NoIrp
      PROVE  \E k \in DOMAIN calls' : /\ calls'[k].kind = "dispatch"
                                      /\ calls'[k].dev = d
                                      /\ calls'[k].irp = currentIrp'[d]
  <2>1. CASE currentIrp'[d] = currentIrp[d]
    <3>1. PICK k \in DOMAIN calls : /\ calls[k].kind = "dispatch"
                                    /\ calls[k].dev = d
                                    /\ calls[k].irp = currentIrp[d]
      BY <1>8, <2>1 DEF CurrentIrpInDispatch
    <3>2. k \in 1..n
      <4>1. k \notin n + 1..Len(calls)
        BY <1>8, <3>1 DEF Shape
      <4> QED  BY <1>1, <1>2, <4>1
    <3>3. k \in DOMAIN calls' /\ Like(k)
      BY <1>1, <1>2, <1>3, <3>2
    <3> QED  BY <2>1, <3>1, <3>3 DEF Like
  <2>2. CASE currentIrp'[d] # currentIrp[d]
    <3>1. /\ Len(calls') = n + 1 /\ calls'[n + 1].kind = "dispatch"
          /\ calls'[n + 1].dev = d /\ calls'[n + 1].irp = currentIrp'[d]
      BY <1>8, <2>2 DEF Shape
    <3>2. n + 1 \in DOMAIN calls'
      BY <1>1, <1>2, <3>1
    <3> QED  BY <3>1, <3>2
  <2> QED  BY <2>1, <2>2
<1> QED  BY <1>6, <1>7, <1>8 DEF CallsNested, CompletionInArray, CurrentIrpInDispatch

\* Steps that leave the calls and CurrentIrp alone.
LEMMA ShapeSame ==
  ASSUME CallsOK, UNCHANGED <<calls, currentIrp>>
  PROVE  CallsOK' /\ \E n : Shape(n)
<1>1. Len(calls) \in Nat
  BY DEF CallsOK
<1>2. Shape(Len(calls))
  BY <1>1 DEF Shape, KeptTo, Like
<1> QED  BY <1>2 DEF CallsOK

\* A call that is made.
LEMMA ShapePush ==
  ASSUME CallsOK, DevOK, NEW kind \in {"dispatch", "complete", "worker"},
         NEW d \in Devices \cup {NoDevice}, NEW i \in Irps \cup {NoIrp},
         NEW last \in Locs, NEW success \in BOOLEAN,
         Push(kind, d, i, last, success),
         kind = "complete" => i \in Irps /\ last \in 0..(irps[i].count - 1),
         IF kind = "dispatch" THEN d \in Devices /\ currentIrp' = [currentIrp EXCEPT ![d] = i]
         ELSE UNCHANGED currentIrp
  PROVE  CallsOK' /\ \E n : Shape(n)
<1> DEFINE c == [kind |-> kind, dev |-> d, irp |-> i, loc |-> 0,
                 last |-> last, success |-> success, ran |-> {}]
<1>1. calls' = Append(calls, c)
  BY DEF Push
<1>2. c \in Call
  BY IrpAssumption DEF Call
<1>3. c.kind = kind /\ c.dev = d /\ c.irp = i /\ c.last = last
  OBVIOUS
<1> HIDE DEF c
<1>4. /\ Len(calls) \in Nat /\ Len(calls') = Len(calls) + 1 /\ CallsOK'
      /\ calls'[Len(calls) + 1] = c
      /\ \A k \in 1..Len(calls) : calls'[k] = calls[k]
  BY <1>1, <1>2 DEF CallsOK
<1>5. Made(Len(calls))
  BY <1>3, <1>4 DEF Made
<1>6. \A e \in Devices :
        \/ currentIrp'[e] \in {currentIrp[e], NoIrp}
        \/ kind = "dispatch" /\ d = e /\ i = currentIrp'[e]
  BY DEF DevOK
<1>7. Shape(Len(calls))
  BY <1>3, <1>4, <1>5, <1>6 DEF Shape, KeptTo, Like
<1> QED  BY <1>4, <1>7

\* Calls that return, to call n: no dispatch routine among them, or one whose device
\* is given up.
LEMMA ShapePop ==
  ASSUME CallsOK, NEW n \in 0..Len(calls), calls' \in Seq(Call), Len(calls') = n,
         KeptTo(n),
         \A k \in n + 1..Len(calls) :
           calls[k].kind = "dispatch" => currentIrp'[calls[k].dev] = NoIrp,
         \A d \in Devices : currentIrp'[d] \in {currentIrp[d], NoIrp}
  PROVE  CallsOK' /\ \E m : Shape(m)
<1>1. Len(calls) \in Nat /\ n \in Nat
  BY DEF CallsOK
<1>2. Shape(n)
  BY <1>1 DEF Shape
<1> QED  BY <1>2 DEF CallsOK

-----------------------------------------------------------------------------
(***************************************************************************)
(* The steps.                                                              *)
(***************************************************************************)

\* An IRP that is built was free, and the others stay as they are.
LEMMA BuildKeeps ==
  ASSUME MemOK, PointersBounded, NEW i \in Irps, irps[i].count = 0, NEW n \in 1..MaxLocs,
         NEW ctl \in SUBSET Invitations, Build(i, n, ctl)
  PROVE  MemOK' /\ PointersBounded' /\ ArraysKept
<1>1. n \in 0..MaxLocs /\ n - 1 \in Locs
  BY IrpAssumption DEF Locs
<1>2. [count |-> n, current |-> n - 1, success |-> TRUE] \in IrpRecord
  BY <1>1 DEF IrpRecord
<1>3. irps' \in [Irps -> IrpRecord]
  BY <1>2 DEF MemOK, Build
<1>4. \A l \in Locs : [EmptySlot EXCEPT !.invoke =
                         IF l \in 0..(n - 1) THEN ctl ELSE {}] \in Slot
  BY DEF EmptySlot, Slot
<1>5. slots' \in [Irps -> [Locs -> Slot]]
  BY <1>4 DEF MemOK, Build
<1>6. \A j \in Irps : irps'[j] = IF j = i
                                 THEN [count |-> n, current |-> n - 1, success |-> TRUE]
                                 ELSE irps[j]
  BY DEF MemOK, Build
<1>7. PointersBounded'
  BY <1>6 DEF PointersBounded
<1>8. ArraysKept
  BY <1>6 DEF ArraysKept
<1> QED  BY <1>3, <1>5, <1>7, <1>8 DEF MemOK

\* Guest calls on the memory of an IRP: slots keep their shape, and a pointer that
\* moves moves down.
LEMMA MemoryCalls ==
  ASSUME IrpInv, NEW i \in Known, NEW invoke \in SUBSET Invitations, NEW success \in BOOLEAN,
         \/ IoMarkIrpPending(i)
         \/ IoSkipCurrentIrpStackLocation(i)
         \/ IoCopyCurrentIrpStackLocationToNext(i)
         \/ IoSetCompletionRoutine(i, invoke)
         \/ PokeNextLocation(i, invoke)
         \/ SetStatus(i, success)
  PROVE  /\ MemOK' /\ PointersBounded' /\ ArraysKept
         /\ UNCHANGED <<devVars, queued, calls, doneVars, sendVars>>
<1> USE DEF IrpInv
<1>1. i \in Irps /\ irps[i] \in IrpRecord /\ irps[i].current \in Locs
  BY DEF Known, MemOK, IrpRecord
<1>2. \A l \in Locs : slots[i][l] \in Slot
  BY <1>1 DEF MemOK
<1>3. irps' \in [Irps -> IrpRecord] /\ PointersBounded' /\ ArraysKept
  <2>1. CASE UNCHANGED irps
    BY <2>1 DEF MemOK, PointersBounded, ArraysKept
  <2>2. CASE irps[i].current - 1 \in Locs
             /\ irps' = [irps EXCEPT ![i].current = irps[i].current - 1]
    <3>1. irps' \in [Irps -> IrpRecord]
      BY <1>1, <2>2 DEF MemOK, IrpRecord
    <3>2. \A j \in Irps :
            /\ irps'[j].count = irps[j].count
            /\ irps'[j].current = IF j = i THEN irps[i].current - 1 ELSE irps[j].current
      BY <1>1, <2>2 DEF MemOK, IrpRecord
    <3>3. irps[i].current - 1 <= irps[i].current
      BY <1>1, IrpAssumption DEF Locs
    <3>4. irps[i].count \in Nat /\ irps[i].current \in Int
      BY <1>1, IrpAssumption DEF IrpRecord, Locs
    <3> QED  BY <3>1, <3>2, <3>3, <3>4, <1>1 DEF PointersBounded, ArraysKept
  <2>3. CASE irps' = [irps EXCEPT ![i].success = success]
    <3>1. irps' \in [Irps -> IrpRecord]
      BY <1>1, <2>3 DEF MemOK, IrpRecord
    <3>2. \A j \in Irps : irps'[j].count = irps[j].count /\ irps'[j].current = irps[j].current
      BY <1>1, <2>3 DEF MemOK, IrpRecord
    <3> QED  BY <3>1, <3>2 DEF PointersBounded, ArraysKept
  <2> QED  BY <2>1, <2>2, <2>3 DEF IoMarkIrpPending, IoSkipCurrentIrpStackLocation,
     IoCopyCurrentIrpStackLocationToNext, IoSetCompletionRoutine, PokeNextLocation, SetStatus
<1>4. slots' \in [Irps -> [Locs -> Slot]]
  <2>1. CASE UNCHANGED slots
    BY <2>1 DEF MemOK
  <2>2. ASSUME NEW l \in Locs, NEW s \in Slot, slots' = [slots EXCEPT ![i][l] = s]
        PROVE  slots' \in [Irps -> [Locs -> Slot]]
    BY <1>1, <2>2 DEF MemOK
  <2>3. ASSUME NEW s \in Slot
        PROVE  /\ [s EXCEPT !.routine = FALSE] \in Slot /\ [s EXCEPT !.pending = TRUE] \in Slot
               /\ [s EXCEPT !.routine = TRUE, !.invoke = invoke] \in Slot
    BY <2>3 DEF Slot
  <2>4. CASE IoMarkIrpPending(i)
    <3>1. slots' = [slots EXCEPT ![i][irps[i].current] =
                      [slots[i][irps[i].current] EXCEPT !.pending = TRUE]]
      BY <2>4, <1>1 DEF IoMarkIrpPending, MemOK
    <3> QED  BY <1>1, <1>2, <2>2, <2>3, <3>1
  <2>5. CASE IoCopyCurrentIrpStackLocationToNext(i)
    <3>1. /\ irps[i].current - 1 \in Locs
          /\ slots' = [slots EXCEPT ![i][irps[i].current - 1] =
                         [slots[i][irps[i].current] EXCEPT !.routine = FALSE]]
      BY <2>5 DEF IoCopyCurrentIrpStackLocationToNext
    <3> QED  BY <1>1, <1>2, <2>2, <2>3, <3>1
  <2>6. CASE IoSetCompletionRoutine(i, invoke)
    <3>1. slots' = [slots EXCEPT ![i][irps[i].current] =
            [slots[i][irps[i].current] EXCEPT !.routine = TRUE, !.invoke = invoke]]
      BY <2>6, <1>1 DEF IoSetCompletionRoutine, MemOK
    <3> QED  BY <1>1, <1>2, <2>2, <2>3, <3>1
  <2>7. CASE PokeNextLocation(i, invoke)
    <3>1. irps[i].current - 1 \in Locs
      BY <2>7, <1>1, IrpAssumption DEF PokeNextLocation, IrpRecord, Locs
    <3>2. slots' = [slots EXCEPT ![i][irps[i].current - 1] =
            [slots[i][irps[i].current - 1] EXCEPT !.routine = TRUE, !.invoke = invoke]]
      BY <2>7, <1>1, <3>1 DEF PokeNextLocation, MemOK
    <3> QED  BY <1>1, <1>2, <2>2, <2>3, <3>1, <3>2
  <2>8. CASE IoSkipCurrentIrpStackLocation(i) \/ SetStatus(i, success)
    BY <2>1, <2>8 DEF IoSkipCurrentIrpStackLocation, SetStatus
  <2> QED  BY <2>4, <2>5, <2>6, <2>7, <2>8
<1>5. UNCHANGED <<devVars, queued, calls, doneVars, sendVars>>
  BY DEF IoMarkIrpPending, IoSkipCurrentIrpStackLocation,
     IoCopyCurrentIrpStackLocationToNext, IoSetCompletionRoutine, PokeNextLocation, SetStatus
<1> QED  BY <1>3, <1>4, <1>5 DEF MemOK

\* What remains of the invariant once the shape of the step is known.
LEMMA ByShape ==
  ASSUME IrpInv, CallsOK', \E n : Shape(n), MemOK', PointersBounded', ArraysKept,
         DevOK', HostOK', DrainTells', FinishedWasCompleted'
  PROVE  IrpInv'
<1>1. PICK n : Shape(n)
  OBVIOUS
<1>2. CallsNested' /\ CompletionInArray' /\ CurrentIrpInDispatch'
  BY <1>1, ShapeKeeps DEF IrpInv
<1> QED  BY <1>2 DEF IrpInv

\* Parts that a step leaves alone.
LEMMA MemoryStays ==
  ASSUME IrpInv, UNCHANGED memVars
  PROVE  MemOK' /\ PointersBounded' /\ ArraysKept
BY DEF IrpInv, memVars, MemOK, PointersBounded, ArraysKept

LEMMA HostStays ==
  ASSUME IrpInv, UNCHANGED <<doneVars, sendVars>>, queued' \in 0..MaxDeferred
  PROVE  HostOK' /\ DrainTells' /\ FinishedWasCompleted'
BY DEF IrpInv, doneVars, sendVars, HostOK, DrainTells, FinishedWasCompleted

LEMMA DevicesStay ==
  ASSUME IrpInv, UNCHANGED <<devices, attached>>, currentIrp' \in [Devices -> Irps \cup {NoIrp}]
  PROVE  DevOK'
BY DEF IrpInv, DevOK

\* Calls on IRPs.
LEMMA IrpCallKeeps ==
  ASSUME IrpInv, IrpCall
  PROVE  IrpInv'
<1> USE DEF IrpInv
<1>1. PICK i \in Known :
        \/ IoMarkIrpPending(i)
        \/ IoSkipCurrentIrpStackLocation(i)
        \/ IoCopyCurrentIrpStackLocationToNext(i)
        \/ \E invoke \in Invites :
             IoSetCompletionRoutine(i, invoke) \/ PokeNextLocation(i, invoke)
        \/ \E success \in BOOLEAN : SetStatus(i, success)
        \/ \E d \in Devices : IofCallDriver(d, i)
        \/ IofCompleteRequest(i)
  BY DEF IrpCall
<1>2. i \in Irps /\ irps[i].count > 0 /\ irps[i].count \in Nat /\ irps[i].current \in Locs
  BY <1>1, IrpAssumption DEF Known, MemOK, IrpRecord
<1>3. ASSUME /\ MemOK' /\ PointersBounded' /\ ArraysKept
             /\ UNCHANGED <<devVars, queued, calls, doneVars, sendVars>>
      PROVE  IrpInv'
  <2>1. UNCHANGED <<calls, currentIrp, devices, attached, queued>>
        /\ UNCHANGED <<doneVars, sendVars>>
    BY <1>3 DEF devVars
  <2>2. CallsOK' /\ \E n : Shape(n)
    BY <2>1, ShapeSame
  <2>3. HostOK' /\ DrainTells' /\ FinishedWasCompleted'
    BY <2>1, HostStays DEF HostOK
  <2>4. DevOK'
    BY <2>1 DEF DevOK
  <2> HIDE DEF IrpInv
  <2> QED  BY <1>3, <2>2, <2>3, <2>4, ByShape
<1>4. ASSUME NEW invoke \in Invites,
             IoSetCompletionRoutine(i, invoke) \/ PokeNextLocation(i, invoke)
      PROVE  IrpInv'
  <2>1. invoke \in SUBSET Invitations
    BY IrpAssumption DEF Invitations
  <2> HIDE DEF IrpInv
  <2> QED  BY <1>1, <1>3, <1>4, <2>1, MemoryCalls
<1>5. ASSUME NEW success \in BOOLEAN, SetStatus(i, success)
      PROVE  IrpInv'
  <2> HIDE DEF IrpInv
  <2> QED  BY <1>1, <1>3, <1>5, MemoryCalls
<1>6. CASE \/ IoMarkIrpPending(i)
           \/ IoSkipCurrentIrpStackLocation(i)
           \/ IoCopyCurrentIrpStackLocationToNext(i)
  <2> HIDE DEF IrpInv
  <2> QED  BY <1>1, <1>3, <1>6, MemoryCalls
<1>7. ASSUME NEW d \in Devices, IofCallDriver(d, i)
      PROVE  IrpInv'
  <2>1. HostOK' /\ DrainTells' /\ FinishedWasCompleted'
    BY <1>7, HostStays DEF IofCallDriver, HostOK
  <2>2. UNCHANGED <<devices, attached, slots>>
    BY <1>7 DEF IofCallDriver
  <2>3. CASE d \in devices
    <3>1. /\ Push("dispatch", d, i, 0, TRUE)
          /\ currentIrp' = [currentIrp EXCEPT ![d] = i] /\ UNCHANGED irps
      BY <1>7, <2>3 DEF IofCallDriver
    <3>2. 0 \in Locs
      BY IrpAssumption DEF Locs
    <3>3. CallsOK' /\ \E n : Shape(n)
      BY <1>2, <3>1, <3>2, ShapePush
    <3>4. DevOK'
      BY <1>2, <2>2, <3>1 DEF DevOK
    <3>5. MemOK' /\ PointersBounded' /\ ArraysKept
      BY <2>2, <3>1, MemoryStays DEF memVars
    <3> HIDE DEF IrpInv
    <3> QED  BY <2>1, <3>3, <3>4, <3>5, ByShape
  <2>4. CASE d \notin devices
    <3>1. /\ irps' = [irps EXCEPT ![i].success = FALSE]
          /\ UNCHANGED <<calls, currentIrp>>
      BY <1>7, <2>4 DEF IofCallDriver
    <3>2. irps' \in [Irps -> IrpRecord]
      BY <1>2, <3>1 DEF MemOK, IrpRecord
    <3>3. \A j \in Irps : irps'[j].count = irps[j].count /\ irps'[j].current = irps[j].current
      BY <1>2, <3>1 DEF MemOK, IrpRecord
    <3>4. MemOK' /\ PointersBounded' /\ ArraysKept
      BY <2>2, <3>2, <3>3 DEF MemOK, PointersBounded, ArraysKept
    <3>5. CallsOK' /\ \E n : Shape(n)
      BY <3>1, ShapeSame
    <3>6. DevOK'
      BY <2>2, <3>1 DEF DevOK
    <3> HIDE DEF IrpInv
    <3> QED  BY <2>1, <3>4, <3>5, <3>6, ByShape
  <2> QED  BY <2>3, <2>4
<1>8. CASE IofCompleteRequest(i)
  <2>1. /\ lastCompleted' = i /\ drained' = drained \cup {i}
        /\ Push("complete", NoDevice, i, LastVisited(i), irps[i].success)
        /\ UNCHANGED <<irps, slots, devices, currentIrp, attached, queued, sending, result>>
    BY <1>8 DEF IofCompleteRequest, memVars, devVars, sendVars
  <2>2. irps[i].success \in BOOLEAN
    BY <1>2 DEF MemOK, IrpRecord
  <2>3. LastVisited(i) \in Locs /\ LastVisited(i) \in 0..(irps[i].count - 1)
    <3>1. irps[i].current \in Int /\ irps[i].current <= MaxLocs - 1
      BY <1>2, IrpAssumption DEF Locs
    <3>2. irps[i].current <= irps[i].count - 1
      BY <1>2 DEF PointersBounded
    <3> QED  BY <1>2, <3>1, <3>2, IrpAssumption DEF LastVisited, Locs
  <2>4. CallsOK' /\ \E n : Shape(n)
    <3> DEFINE v == LastVisited(i)
               b == irps[i].success
    <3>1. v \in Locs /\ v \in 0..(irps[i].count - 1) /\ b \in BOOLEAN
          /\ Push("complete", NoDevice, i, v, b)
      BY <2>1, <2>2, <2>3
    <3> HIDE DEF v, b
    <3> QED  BY <1>2, <2>1, <3>1, ShapePush
  <2>5. MemOK' /\ PointersBounded' /\ ArraysKept
    BY <2>1, MemoryStays DEF memVars
  <2>6. DevOK'
    BY <2>1 DEF DevOK
  <2>7. HostOK'
    BY <1>2, <2>1 DEF HostOK
  <2>8. DrainTells' /\ FinishedWasCompleted'
    BY <2>1 DEF DrainTells, FinishedWasCompleted
  <2> HIDE DEF IrpInv
  <2> QED  BY <2>4, <2>5, <2>6, <2>7, <2>8, ByShape
<1> QED  BY <1>1, <1>4, <1>5, <1>6, <1>7, <1>8

\* Calls on devices, allocations and what is queued.
LEMMA DeviceCallKeeps ==
  ASSUME IrpInv, DeviceCall
  PROVE  IrpInv'
<1> USE DEF IrpInv
<1>1. UNCHANGED <<calls, currentIrp>> /\ UNCHANGED <<doneVars, sendVars>>
  BY DEF DeviceCall, IoAllocateIrp, QueueRoutine, IoDeleteDevice,
         IoAttachDeviceToDeviceStack, IoDetachDevice, devVars
<1>2. CallsOK' /\ \E n : Shape(n)
  BY <1>1, ShapeSame
<1>3. queued' \in 0..MaxDeferred
  BY IrpAssumption DEF HostOK, DeviceCall, IoAllocateIrp, QueueRoutine, IoDeleteDevice,
     IoAttachDeviceToDeviceStack, IoDetachDevice
<1>4. MemOK' /\ PointersBounded' /\ ArraysKept
  <2>1. ASSUME NEW i \in Irps, NEW n \in 1..MaxLocs, IoAllocateIrp(i, n)
        PROVE  MemOK' /\ PointersBounded' /\ ArraysKept
    <3>1. irps[i].count = 0 /\ Build(i, n, {}) /\ {} \in SUBSET Invitations
      BY <2>1 DEF IoAllocateIrp
    <3> QED  BY <3>1, BuildKeeps
  <2>2. CASE UNCHANGED memVars
    BY <2>2, MemoryStays
  <2> QED  BY <2>1, <2>2 DEF DeviceCall, QueueRoutine, IoDeleteDevice,
     IoAttachDeviceToDeviceStack, IoDetachDevice
<1>5. DevOK'
  <2>1. CASE UNCHANGED devVars
    BY <2>1 DEF devVars, DevOK
  <2>2. ASSUME NEW d \in Devices, IoDeleteDevice(d) \/ IoDetachDevice(d)
        PROVE  DevOK'
    BY <2>2 DEF IoDeleteDevice, IoDetachDevice, DevOK
  <2>3. ASSUME NEW d \in Devices, NEW e \in Devices, IoAttachDeviceToDeviceStack(d, e)
        PROVE  DevOK'
    BY <2>3 DEF IoAttachDeviceToDeviceStack, PreviousTop, DevOK
  <2> QED  BY <2>1, <2>2, <2>3 DEF DeviceCall, IoAllocateIrp, QueueRoutine
<1>6. HostOK' /\ DrainTells' /\ FinishedWasCompleted'
  BY <1>1, <1>3, HostStays
<1> HIDE DEF IrpInv
<1> QED  BY <1>2, <1>4, <1>5, <1>6, ByShape

\* The calls without the innermost one.
LEMMA Returned ==
  ASSUME CallsOK, calls # <<>>, Return
  PROVE  /\ Len(calls) \in Nat \ {0} /\ Len(calls) - 1 \in 0..Len(calls)
         /\ calls' \in Seq(Call) /\ Len(calls') = Len(calls) - 1
         /\ KeptTo(Len(calls) - 1)
         /\ \A k \in Len(calls) - 1 + 1..Len(calls) : calls[k] = Top
<1>1. calls \in Seq(Call) /\ calls' = SubSeq(calls, 1, Len(calls) - 1)
  BY DEF CallsOK, Return
<1>2. /\ Len(calls) \in Nat \ {0} /\ Len(calls') = Len(calls) - 1 /\ calls' \in Seq(Call)
      /\ \A k \in 1..Len(calls) - 1 : calls'[k] = calls[k]
  BY <1>1, FrontProperties, Zenon
<1> QED  BY <1>2 DEF KeptTo, Like, Top

\* A return that no dispatch routine makes.
LEMMA QuietReturn ==
  ASSUME CallsOK, calls # <<>>, Return, Top.kind # "dispatch", UNCHANGED currentIrp
  PROVE  CallsOK' /\ \E n : Shape(n)
<1>1. \A k \in Len(calls) - 1 + 1..Len(calls) : calls[k].kind # "dispatch"
  BY Returned
<1>2. \A d \in Devices : currentIrp'[d] \in {currentIrp[d], NoIrp}
  OBVIOUS
<1> QED  BY <1>1, <1>2, Returned, ShapePop

\* A dispatch routine's return takes its device's CurrentIrp back.
LEMMA DispatchReturn ==
  ASSUME CallsOK, CallsNested, DevOK, calls # <<>>, Return, Top.kind = "dispatch",
         currentIrp' = [currentIrp EXCEPT ![Top.dev] = NoIrp], UNCHANGED <<devices, attached>>
  PROVE  CallsOK' /\ DevOK' /\ \E n : Shape(n)
<1>1. Top.dev \in Devices
  <2>1. Len(calls) \in DOMAIN calls
    BY DEF CallsOK
  <2> QED  BY <2>1 DEF CallsNested, Top
<1>2. \A k \in Len(calls) - 1 + 1..Len(calls) : currentIrp'[calls[k].dev] = NoIrp
  BY <1>1, Returned DEF DevOK
<1>3. \A d \in Devices : currentIrp'[d] \in {currentIrp[d], NoIrp}
  BY <1>1 DEF DevOK
<1>4. DevOK'
  BY <1>1 DEF DevOK
<1> QED  BY <1>2, <1>3, <1>4, Returned, ShapePop

\* completeIrp's loop calls a routine above itself, or goes on to the next location.
LEMMA VisitKeepsCalls ==
  ASSUME CallsOK, CallsNested, CompletionVisits
  PROVE  CallsOK' /\ \E n : Shape(n)
<1> DEFINE n == Len(calls)
           t == calls[n]
<1>1. /\ calls \in Seq(Call) /\ n \in Nat \ {0} /\ t = Top /\ t.kind = "complete"
      /\ t \in Call /\ UNCHANGED currentIrp
  BY DEF CallsOK, CompletionVisits, Top, devVars
<1>2. t.last \in Locs /\ t.loc \in 0..MaxLocs /\ t.loc <= t.last /\ t.ran \subseteq Locs
  BY <1>1 DEF CompletionVisits, Call
<1>3. t.loc + 1 \in 0..MaxLocs /\ t.loc \in Locs
  BY <1>2, IrpAssumption DEF Locs
<1>4. CASE calls' = [calls EXCEPT ![n].loc = @ + 1]
  <2>1. [t EXCEPT !.loc = t.loc + 1] \in Call
    BY <1>1, <1>3 DEF Call
  <2>2. calls' = [calls EXCEPT ![n] = [t EXCEPT !.loc = t.loc + 1]]
    BY <1>1, <1>4
  <2>3. /\ calls' \in Seq(Call) /\ Len(calls') = n
        /\ \A k \in 1..n : calls'[k] = IF k = n THEN [t EXCEPT !.loc = t.loc + 1] ELSE calls[k]
    BY <1>1, <2>1, <2>2
  <2>4. KeptTo(n)
    BY <1>1, <2>3 DEF KeptTo, Like, Call
  <2> HIDE DEF t
  <2>5. n \in 0..n /\ \A k \in n + 1..n : calls[k].kind # "dispatch"
    BY <1>1
  <2>6. \A d \in Devices : currentIrp'[d] \in {currentIrp[d], NoIrp}
    BY <1>1
  <2> QED  BY <2>3, <2>4, <2>5, <2>6, ShapePop
<1>5. CASE calls' = Append([calls EXCEPT ![n].ran = @ \cup {t.loc}],
                           [t EXCEPT !.kind = "routine", !.ran = {}])
  <2> DEFINE below == [calls EXCEPT ![n] = [t EXCEPT !.ran = t.ran \cup {t.loc}]]
             c == [t EXCEPT !.kind = "routine", !.ran = {}]
  <2>1. [t EXCEPT !.ran = t.ran \cup {t.loc}] \in Call /\ c \in Call
    BY <1>1, <1>2, <1>3 DEF Call
  <2>2. /\ below \in Seq(Call) /\ Len(below) = n
        /\ \A k \in 1..n : below[k] = IF k = n THEN [t EXCEPT !.ran = t.ran \cup {t.loc}]
                                      ELSE calls[k]
    BY <1>1, <2>1
  <2>3. calls' = Append(below, c)
    BY <1>1, <1>5
  <2>4. c.kind = "routine"
    BY <1>1 DEF Call
  <2>5. \A k \in 1..n : /\ below[k].kind = calls[k].kind /\ below[k].dev = calls[k].dev
                        /\ below[k].irp = calls[k].irp /\ below[k].last = calls[k].last
                        /\ below[k].loc = calls[k].loc
    BY <1>1, <2>2 DEF Call
  <2> HIDE DEF below, c
  <2>6. /\ CallsOK' /\ Len(calls') = n + 1 /\ calls'[n + 1] = c
        /\ \A k \in 1..n : calls'[k] = below[k]
    BY <1>1, <2>1, <2>2, <2>3 DEF CallsOK
  <2>7. Made(n)
    BY <1>1, <1>2, <2>4, <2>5, <2>6 DEF Made
  <2>8. KeptTo(n)
    BY <2>5, <2>6 DEF KeptTo, Like
  <2>9. Shape(n)
    BY <1>1, <2>6, <2>7, <2>8 DEF Shape
  <2> QED  BY <2>6, <2>9
<1> QED  BY <1>1, <1>4, <1>5 DEF CompletionVisits

\* A completion routine returns to its loop, or takes it along.
LEMMA RoutineKeepsCalls ==
  ASSUME CallsOK, CallsNested, CompletionInArray, NEW more \in BOOLEAN, IrpRoutineReturns(more)
  PROVE  CallsOK' /\ \E n : Shape(n)
<1> DEFINE n == Len(calls)
           back == Len(calls) - 1
           t == calls[back]
<1>1. /\ calls \in Seq(Call) /\ n \in Nat \ {0} /\ n \in DOMAIN calls
      /\ calls[n].kind = "routine" /\ UNCHANGED currentIrp
  BY DEF CallsOK, IrpRoutineReturns, Top, devVars
<1>2. n > 1 /\ t.kind = "complete" /\ t \in Call /\ t.loc <= t.last
  BY <1>1 DEF CallsNested
<1>3. \A k \in back..n : calls[k].kind # "dispatch"
  BY <1>1, <1>2
<1>4. \A d \in Devices : currentIrp'[d] \in {currentIrp[d], NoIrp}
  BY <1>1
<1>5. CASE calls' = SubSeq(calls, 1, back - 1)
  <2>1. back - 1 \in 0..n
    BY <1>1, <1>2
  <2>2. calls' \in Seq(Call) /\ Len(calls') = back - 1 /\ \A k \in 1..back - 1 : calls'[k] = calls[k]
    BY <1>1, <1>5, <2>1, PrefixProperties, Zenon
  <2>3. KeptTo(back - 1)
    BY <2>2 DEF KeptTo, Like
  <2>4. \A k \in back - 1 + 1..n : calls[k].kind # "dispatch"
    BY <1>1, <1>3
  <2> QED  BY <1>4, <2>1, <2>2, <2>3, <2>4, ShapePop
<1>6. CASE calls' = [SubSeq(calls, 1, back) EXCEPT ![back].loc = @ + 1]
  <2> DEFINE u == [t EXCEPT !.loc = t.loc + 1]
             below == SubSeq(calls, 1, back)
  <2>1. back \in 0..n /\ back \in 1..back
    BY <1>1, <1>2
  <2>2. below \in Seq(Call) /\ Len(below) = back /\ \A k \in 1..back : below[k] = calls[k]
    BY <1>1, <2>1, PrefixProperties, Zenon
  <2>3. u \in Call
    <3>1. t.last \in Locs /\ t.loc \in 0..MaxLocs
      BY <1>2 DEF Call
    <3>2. t.loc + 1 \in 0..MaxLocs
      BY <1>2, <3>1, IrpAssumption DEF Locs
    <3> QED  BY <1>2, <3>2 DEF Call
  <2>4. /\ u.kind = t.kind /\ u.dev = t.dev /\ u.irp = t.irp /\ u.last = t.last
    BY <1>2 DEF Call
  <2>5. calls' = [below EXCEPT ![back] = u]
    BY <1>6, <2>1, <2>2
  <2> HIDE DEF below, u, t
  <2>6. /\ calls' \in Seq(Call) /\ Len(calls') = back
        /\ \A k \in 1..back : calls'[k] = IF k = back THEN u ELSE calls[k]
    BY <2>1, <2>2, <2>3, <2>5
  <2>7. KeptTo(back)
    BY <2>1, <2>4, <2>6 DEF KeptTo, Like, t
  <2>8. \A k \in back + 1..n : calls[k].kind # "dispatch"
    BY <1>1, <1>3
  <2> QED  BY <1>4, <2>1, <2>6, <2>7, <2>8, ShapePop
<1> QED  BY <1>5, <1>6 DEF IrpRoutineReturns

\* Returns.
LEMMA ReturnsKeep ==
  ASSUME IrpInv, Returns
  PROVE  IrpInv'
<1> USE DEF IrpInv
<1>1. MemOK' /\ PointersBounded' /\ ArraysKept
  <2>1. UNCHANGED memVars
    BY DEF Returns, CompletionVisits, CompletionEnds, IrpRoutineReturns, WorkerReturns,
           ForwardReturns, DispatchReturns
  <2> QED  BY <2>1, MemoryStays
<1>2. queued' \in 0..MaxDeferred
  BY DEF HostOK, Returns, CompletionVisits, CompletionEnds, IrpRoutineReturns, WorkerReturns,
         ForwardReturns, DispatchReturns
<1>3. CASE CompletionVisits \/ CompletionEnds \/ WorkerReturns
             \/ \E more \in BOOLEAN : IrpRoutineReturns(more)
  <2>1. UNCHANGED devVars /\ UNCHANGED <<doneVars, sendVars>>
    BY <1>3 DEF CompletionVisits, CompletionEnds, WorkerReturns, IrpRoutineReturns
  <2>2. DevOK' /\ UNCHANGED currentIrp
    BY <2>1 DEF DevOK, devVars
  <2>3. HostOK' /\ DrainTells' /\ FinishedWasCompleted'
    BY <1>2, <2>1, HostStays
  <2>4. CallsOK' /\ \E n : Shape(n)
    <3>1. CASE CompletionEnds \/ WorkerReturns
      BY <2>2, <3>1, QuietReturn DEF CompletionEnds, WorkerReturns
    <3> QED  BY <1>3, <3>1, VisitKeepsCalls, RoutineKeepsCalls
  <2> HIDE DEF IrpInv
  <2> QED  BY <1>1, <2>2, <2>3, <2>4, ByShape
<1>4. CASE ForwardReturns
  <2>1. /\ calls # <<>> /\ Top.kind = "dispatch" /\ Return
        /\ currentIrp' = [currentIrp EXCEPT ![Top.dev] = NoIrp]
        /\ UNCHANGED <<devices, attached>> /\ UNCHANGED <<doneVars, sendVars>>
    BY <1>4 DEF ForwardReturns, CallsOK
  <2>2. CallsOK' /\ DevOK' /\ \E n : Shape(n)
    BY <2>1, DispatchReturn
  <2>3. HostOK' /\ DrainTells' /\ FinishedWasCompleted'
    BY <1>2, <2>1, HostStays
  <2> HIDE DEF IrpInv
  <2> QED  BY <1>1, <2>2, <2>3, ByShape
<1>5. ASSUME NEW fault \in BOOLEAN, DispatchReturns(fault)
      PROVE  IrpInv'
  <2>1. /\ sending.phase = "dispatch" /\ calls # <<>> /\ Top.kind = "dispatch" /\ Return
        /\ currentIrp' = [currentIrp EXCEPT ![Top.dev] = NoIrp]
        /\ UNCHANGED <<devices, attached>> /\ UNCHANGED lastCompleted
    <3>1. /\ sending.phase = "dispatch" /\ Len(calls) = 1 /\ Top.kind = "dispatch" /\ Return
          /\ currentIrp' = [currentIrp EXCEPT ![Top.dev] = NoIrp]
          /\ UNCHANGED <<memVars, devices, attached, queued, lastCompleted>>
      BY <1>5, Zenon DEF DispatchReturns
    <3>2. calls # <<>>
      BY <3>1 DEF CallsOK
    <3> QED  BY <3>1, <3>2
  <2>2. CallsOK' /\ DevOK' /\ \E n : Shape(n)
    BY <2>1, DispatchReturn
  <2>3. HostOK' /\ DrainTells' /\ FinishedWasCompleted'
    <3>1. sending.irp \in Irps \cup {NoIrp} /\ Idle \in Sending
      BY DEF HostOK, Sending, Idle
    <3>2. CASE fault
      <4>1. sending' = Idle /\ UNCHANGED <<result, drained>>
        BY <1>5, <3>2 DEF DispatchReturns
      <4> QED  BY <1>2, <2>1, <3>1, <4>1 DEF HostOK, DrainTells, FinishedWasCompleted, Idle
    <3>3. CASE ~fault /\ slots[sending.irp][0].pending
      <4>1. /\ sending' = [sending EXCEPT !.phase = "drain", !.completedBefore = lastCompleted]
            /\ drained' = {} /\ UNCHANGED result
        BY <1>5, <3>3 DEF DispatchReturns
      <4>2. /\ sending' \in Sending /\ sending'.irp = sending.irp
            /\ sending'.completedBefore = lastCompleted
        BY <4>1 DEF HostOK, Sending
      <4> QED  BY <1>2, <2>1, <4>1, <4>2 DEF HostOK, DrainTells, FinishedWasCompleted
    <3>4. CASE ~fault /\ ~slots[sending.irp][0].pending
      <4>1. /\ sending' = Idle /\ UNCHANGED drained
            /\ result' = [irp |-> sending.irp, marked |-> FALSE, pending |-> FALSE,
                          drained |-> FALSE]
        BY <1>5, <3>4 DEF DispatchReturns
      <4>2. result' \in Result /\ ~result'.marked
        BY <3>1, <4>1 DEF Result
      <4> QED  BY <1>2, <2>1, <3>1, <4>1, <4>2 DEF HostOK, DrainTells, FinishedWasCompleted, Idle
    <3> QED  BY <1>5, <3>2, <3>3, <3>4
  <2> HIDE DEF IrpInv
  <2> QED  BY <1>1, <2>2, <2>3, ByShape
<1> HIDE DEF IrpInv
<1> QED  BY <1>3, <1>4, <1>5 DEF Returns

\* What the host does.
LEMMA HostKeeps ==
  ASSUME IrpInv, Host
  PROVE  IrpInv'
<1> USE DEF IrpInv
<1>1. 0 \in Locs /\ 1 \in 1..MaxLocs /\ Invitations \in SUBSET Invitations
  BY IrpAssumption DEF Locs
<1>2. ASSUME NEW d \in Devices, NEW i \in Irps, SendIrp(d, i)
      PROVE  IrpInv'
  <2>1. /\ irps[i].count = 0 /\ Build(i, 1, Invitations)
        /\ currentIrp' = [currentIrp EXCEPT ![d] = i]
        /\ sending' = [phase |-> "dispatch", irp |-> i, completedBefore |-> NoIrp]
        /\ Push("dispatch", d, i, 0, TRUE)
        /\ UNCHANGED <<devices, attached, queued, lastCompleted, drained, result>>
    BY <1>2 DEF SendIrp, doneVars
  <2>2. MemOK' /\ PointersBounded' /\ ArraysKept
    BY <1>1, <2>1, BuildKeeps
  <2>3. CallsOK' /\ \E n : Shape(n)
    BY <1>1, <2>1, ShapePush
  <2>4. DevOK'
    BY <2>1 DEF DevOK
  <2>5. HostOK' /\ DrainTells' /\ FinishedWasCompleted'
    BY <2>1 DEF HostOK, Sending, DrainTells, FinishedWasCompleted
  <2> HIDE DEF IrpInv
  <2> QED  BY <2>2, <2>3, <2>4, <2>5, ByShape
<1>3. CASE DeferredRuns
  <2>1. /\ Push("worker", NoDevice, NoIrp, 0, TRUE)
        /\ UNCHANGED memVars /\ UNCHANGED devVars /\ UNCHANGED <<doneVars, sendVars>>
        /\ queued' = queued - 1 /\ queued > 0
    BY <1>3 DEF DeferredRuns
  <2>2. queued' \in 0..MaxDeferred
    BY <2>1, IrpAssumption DEF HostOK
  <2>3. UNCHANGED currentIrp /\ DevOK'
    BY <2>1 DEF devVars, DevOK
  <2>4. CallsOK' /\ \E n : Shape(n)
    BY <1>1, <2>1, <2>3, ShapePush
  <2>5. HostOK' /\ DrainTells' /\ FinishedWasCompleted'
    BY <2>1, <2>2, HostStays
  <2>6. MemOK' /\ PointersBounded' /\ ArraysKept
    BY <2>1, MemoryStays
  <2> HIDE DEF IrpInv
  <2> QED  BY <2>3, <2>4, <2>5, <2>6, ByShape
<1>4. CASE DrainEnds
  <2> DEFINE finished == lastCompleted = sending.irp /\ sending.completedBefore # sending.irp
  <2>1. /\ sending.phase = "drain" /\ sending' = Idle
        /\ result' = [irp |-> sending.irp, marked |-> TRUE, pending |-> ~finished,
                      drained |-> sending.irp \in drained]
        /\ UNCHANGED memVars /\ UNCHANGED devVars
        /\ UNCHANGED <<queued, calls, lastCompleted, drained>>
    BY <1>4 DEF DrainEnds, doneVars
  <2>2. UNCHANGED currentIrp /\ DevOK'
    BY <2>1 DEF devVars, DevOK
  <2>3. CallsOK' /\ \E n : Shape(n)
    BY <2>1, <2>2, ShapeSame
  <2>4. MemOK' /\ PointersBounded' /\ ArraysKept
    BY <2>1, MemoryStays
  <2>5. HostOK'
    <3>1. Idle \in Sending /\ sending.irp \in Irps \cup {NoIrp}
      BY DEF HostOK, Sending, Idle
    <3>2. (~finished) \in BOOLEAN /\ (sending.irp \in drained) \in BOOLEAN
      OBVIOUS
    <3>3. result' \in Result
      BY <2>1, <3>1, <3>2 DEF Result
    <3> QED  BY <2>1, <3>1, <3>3 DEF HostOK
  <2>6. finished => sending.irp \in drained
    BY <2>1 DEF DrainTells
  <2>7. DrainTells' /\ FinishedWasCompleted'
    BY <2>1, <2>6 DEF DrainTells, FinishedWasCompleted, Idle
  <2> HIDE DEF IrpInv
  <2> QED  BY <2>2, <2>3, <2>4, <2>5, <2>7, ByShape
<1> HIDE DEF IrpInv
<1> QED  BY <1>2, <1>3, <1>4 DEF Host

-----------------------------------------------------------------------------
(***************************************************************************)
(* The theorems.                                                           *)
(***************************************************************************)

\* Nothing is sent at first.
LEMMA IrpInvInit == IrpInit => IrpInv
<1> SUFFICES ASSUME IrpInit
             PROVE  IrpInv
  OBVIOUS
<1>1. MemOK
  <2>1. 0 \in Locs /\ EmptySlot \in Slot
    BY IrpAssumption DEF Locs, EmptySlot, Slot
  <2>2. [count |-> 0, current |-> 0, success |-> TRUE] \in IrpRecord
    BY <2>1, IrpAssumption DEF IrpRecord
  <2> QED  BY <2>1, <2>2 DEF IrpInit, MemOK
<1>2. DevOK /\ HostOK
  BY IrpAssumption DEF IrpInit, DevOK, HostOK, Sending, Result, Idle
<1>3. CallsOK /\ CallsNested /\ CompletionInArray /\ CurrentIrpInDispatch
  BY DEF IrpInit, CallsOK, CallsNested, CompletionInArray, CurrentIrpInDispatch
<1>4. PointersBounded /\ DrainTells /\ FinishedWasCompleted
  BY DEF IrpInit, PointersBounded, DrainTells, FinishedWasCompleted, Idle
<1> QED  BY <1>1, <1>2, <1>3, <1>4 DEF IrpInv

\* Every step.
LEMMA IrpInvNext == IrpInv /\ [IrpNext]_irpVars => IrpInv'
<1>1. CASE UNCHANGED irpVars
  BY <1>1 DEF irpVars, memVars, devVars, doneVars, sendVars, IrpInv, CallsOK, MemOK, DevOK, HostOK,
     CallsNested, PointersBounded, CompletionInArray, CurrentIrpInDispatch, DrainTells,
     FinishedWasCompleted
<1> QED  BY <1>1, IrpCallKeeps, DeviceCallKeeps, ReturnsKeep, HostKeeps DEF IrpNext

LEMMA IrpInvariant == IrpSpec => []IrpInv
BY IrpInvInit, IrpInvNext, PTL DEF IrpSpec

\* Every variable keeps its type, however deep drivers nest their calls.
THEOREM IrpTypeCorrect == IrpSpec => []IrpTypeOK
<1>1. IrpInv => IrpTypeOK
  BY IrpTypeSplit DEF IrpInv
<1> QED  BY <1>1, IrpInvariant, PTL

\* completeIrp stays inside the stack array of the IRP it completes, for any number of
\* locations and wherever the location helpers have moved the pointer.
THEOREM CompletionStaysInArray == IrpSpec => []CompletionInArray
<1>1. IrpInv => CompletionInArray
  BY DEF IrpInv
<1> QED  BY <1>1, IrpInvariant, PTL

\* Every variable keeps its type with completeIrp in the array.
THEOREM TypedInArrayHolds == IrpSpec => []TypedInArray
BY IrpTypeCorrect, CompletionStaysInArray, PTL DEF TypedInArray

\* Whatever routines forward and whichever of them fault, a device's CurrentIrp names
\* an IRP only while a dispatch routine of the device has it.
THEOREM CurrentIrpOwned == IrpSpec => []CurrentIrpInDispatch
<1>1. IrpInv => CurrentIrpInDispatch
  BY DEF IrpInv
<1> QED  BY <1>1, IrpInvariant, PTL

\* sendIrp reports an IRP that was marked pending as finished only if the deferred work
\* it drained completed that IRP.
THEOREM FinishedIsCompleted == IrpSpec => []FinishedWasCompleted
<1>1. IrpInv => FinishedWasCompleted
  BY DEF IrpInv
<1> QED  BY <1>1, IrpInvariant, PTL

================================================================================

------------------------------ MODULE Dispatcher ------------------------------
(***************************************************************************)
(* The deferred-execution core of the simulated NT kernel                  *)
(* (packages/ntsim/src/kernel.mjs with the Ke thunks of winapi.mjs): the   *)
(* DPC queue, the kernel timers, the queues of work items, APCs and system *)
(* threads, the IRQL of the four logical cores, the lab clock and the      *)
(* mini-PatchGuard that rides on it.                                       *)
(*                                                                         *)
(* The kernel's loops (fireDueTimers, retireQueuedDpcs, drainDeferred) run *)
(* guest routines through cpu.callFunction in the middle of an iteration,  *)
(* and a routine may call every exported Ke function before it returns.    *)
(* Each loop is therefore modelled one iteration at a time: a step starts  *)
(* a routine, guest actions interleave while it is on the CPU, and a       *)
(* second step resumes the loop behind it.                                 *)
(*                                                                         *)
(* Times are relative to the clock: a timer's due is dueTick - tickCount   *)
(* and pg.nextIn is nextSweep - tickCount, so the clock needs no bound.    *)
(***************************************************************************)
EXTENDS Integers, Sequences, FiniteSets

CONSTANTS
  Dpcs,          \* KDPC objects a driver owns (initialised with a routine)
  Timers,        \* KTIMER objects a driver owns
  NoDpc,         \* a timer set without a DPC (dpcVa = 0)
  Cores,         \* the secondary cores, 1..3 in the code
  Targets,       \* the processor numbers a driver passes (8 bits wide)
  Irqls,         \* the levels a driver asks for (8 bits wide)
  TickSteps,     \* clock advances the host makes, within 0..100000
  Deltas,        \* |DueTime| values
  Periods,       \* timer periods, 0 for a one-shot timer
  PgPeriods,     \* PatchGuard periods and phases the host arms it with
  PgPhases,
  MaxPerTimer,   \* maxPerTimer of fireDueTimers, 64 in the code
  MaxPasses,     \* maxPasses of drainDeferred, 8 in the code
  MaxDpcRecords, \* bound: KDPC insertions in a behaviour
  MaxTimerObjs,  \* bound: timer records created in a behaviour
  MaxQueued,     \* bound: work items, APCs and threads queued together
  MaxRanges,     \* bound: protectRange calls
  MaxLag         \* bound: how far behind the clock a timer or a sweep may be

DISPATCH_LEVEL == 2

ASSUME DispatcherAssumption ==
  /\ NoDpc \notin Dpcs
  /\ Cores \subseteq Nat \ {0}
  /\ Targets \subseteq Nat
  /\ Irqls \subseteq Nat
  /\ TickSteps \subseteq Nat
  /\ Deltas \subseteq Nat
  /\ Periods \subseteq Nat
  /\ PgPeriods \subseteq Nat \ {0}
  /\ PgPhases \subseteq Nat
  /\ MaxPerTimer \in Nat \ {0, 1}
  /\ MaxPasses \in Nat \ {0}
  /\ MaxDpcRecords \in Nat
  /\ MaxTimerObjs \in Nat
  /\ MaxQueued \in Nat
  /\ MaxRanges \in Nat
  /\ MaxLag \in Nat

VARIABLES
  currentIrql,      \* IRQL of core 0
  cpuIrqls,         \* IRQL of the secondary cores
  dpcTargetCpu,     \* KeSetTargetProcessorDpc choices
  pendingDpcs,      \* the DPC records in insertion order; never shortened
  timerObjs,        \* the timer records in creation order
  pendingTimers,    \* those of timerObjs that are in the kernel's list
  armed,            \* ghost: timers set and neither cancelled nor expired
  pendingWorkItems, \* how many work items are queued
  pendingApcs,      \* how many APCs are queued
  pendingThreads,   \* how many system threads are queued
  protectedRanges,  \* how many ranges protectRange has registered
  drift,            \* a protected range differs from its pristine bytes
  driftAge,         \* ghost: ticks since PatchGuard could have seen drift
  pg,               \* the mini-PatchGuard
  halted,           \* cpu.halted: a bugcheck stops every later routine
  loop,             \* the kernel loop in progress
  cont,             \* what follows the timer loop
  swept,            \* advanceTicks was given a positive tick count
  running,          \* what cpu.callFunction is executing
  sweep,            \* timers the timer loop has still to visit
  guard,            \* expirations of the current timer in this loop
  batch,            \* DPC records the current batch has still to run
  workBatch,        \* work items, APCs, threads the current pass has to run
  apcBatch,
  threadBatch,
  pass              \* passes drainDeferred has begun

irqlVars  == <<currentIrql, cpuIrqls>>
dpcVars   == <<dpcTargetCpu, pendingDpcs>>
timerVars == <<timerObjs, pendingTimers, armed>>
queueVars == <<pendingWorkItems, pendingApcs, pendingThreads>>
pgVars    == <<protectedRanges, drift, driftAge, pg>>
loopVars  == <<loop, cont, swept, sweep, guard, batch, workBatch,
               apcBatch, threadBatch, pass>>
vars == <<irqlVars, dpcVars, timerVars, queueVars, pgVars, halted, loopVars,
          running>>

-----------------------------------------------------------------------------
\* The types of the records the kernel keeps.  runs and withdrawn are ghosts:
\* how often the record was handed to the CPU, and whether a driver (or the
\* host's retirement-only drain) took it off the queue instead.

DpcRecord == [dpc : Dpcs, targetCpu : Targets \cup {0}, drained : BOOLEAN,
              withdrawn : BOOLEAN, runs : Nat]

TimerRecord == [timer : Timers, due : Int, period : Nat,
                dpc : Dpcs \cup {NoDpc}]

PgRecord == [armed : BOOLEAN, period : Nat \ {0}, nextIn : Int,
             violated : BOOLEAN, window : Nat]

Levels   == Irqls \cup {0, DISPATCH_LEVEL}
Loops    == {"host", "timers", "retire", "finish", "drain"}
\* "expiry": a timer without a DPC expires, no guest routine is involved
Routines == {"none", "driver", "timer", "expiry", "dpc", "work", "apc", "thread"}

TypeOK ==
  /\ currentIrql \in Levels
  /\ cpuIrqls \in [Cores -> Levels]
  /\ dpcTargetCpu \in [Dpcs -> Targets \cup {0}]
  /\ pendingDpcs \in Seq(DpcRecord)
  /\ timerObjs \in Seq(TimerRecord)
  /\ pendingTimers \subseteq DOMAIN timerObjs
  /\ armed \subseteq Timers
  /\ pendingWorkItems \in Nat
  /\ pendingApcs \in Nat
  /\ pendingThreads \in Nat
  /\ protectedRanges \in Nat
  /\ drift \in BOOLEAN
  /\ driftAge \in Nat
  /\ pg \in PgRecord
  /\ halted \in BOOLEAN
  /\ loop \in Loops
  /\ cont \in {"host", "retire"}
  /\ swept \in BOOLEAN
  /\ running \in Routines
  /\ sweep \subseteq DOMAIN timerObjs
  /\ guard \in Nat
  /\ batch \subseteq DOMAIN pendingDpcs
  /\ workBatch \in Nat
  /\ apcBatch \in Nat
  /\ threadBatch \in Nat
  /\ pass \in 0..MaxPasses

\* The simulator boots with core 0 at DISPATCH_LEVEL and everything else empty.
Init ==
  /\ currentIrql = DISPATCH_LEVEL
  /\ cpuIrqls = [c \in Cores |-> 0]
  /\ dpcTargetCpu = [d \in Dpcs |-> 0]
  /\ pendingDpcs = <<>>
  /\ timerObjs = <<>>
  /\ pendingTimers = {}
  /\ armed = {}
  /\ pendingWorkItems = 0
  /\ pendingApcs = 0
  /\ pendingThreads = 0
  /\ protectedRanges = 0
  /\ drift = FALSE
  /\ driftAge = 0
  /\ pg = [armed |-> FALSE, period |-> 1, nextIn |-> 0, violated |-> FALSE,
           window |-> 0]
  /\ halted = FALSE
  /\ loop = "host"
  /\ cont = "host"
  /\ swept = FALSE
  /\ running = "none"
  /\ sweep = {}
  /\ guard = 0
  /\ batch = {}
  /\ workBatch = 0
  /\ apcBatch = 0
  /\ threadBatch = 0
  /\ pass = 0

-----------------------------------------------------------------------------
\* Helpers.

\* Records of the queue that are still waiting.
Undrained == {i \in DOMAIN pendingDpcs : ~pendingDpcs[i].drained}

\* The entry of S a loop over insertion order visits next.
IsFirst(i, S) == i \in S /\ \A j \in S : i <= j

\* A guest routine (or the driver's own entry points) is on the CPU; a
\* bugchecked CPU executes nothing any more.
GuestRuns == running \notin {"none", "expiry"} /\ ~halted

\* drained := true for the records of S, which the CPU is handed now (ran) or
\* a caller takes off the queue (taken).
MarkDrained(S, ran, taken) ==
  pendingDpcs' = [i \in DOMAIN pendingDpcs |->
                    IF i \in S
                    THEN [pendingDpcs[i] EXCEPT
                            !.drained = TRUE,
                            !.runs = IF ran THEN @ + 1 ELSE @,
                            !.withdrawn = @ \/ taken]
                    ELSE pendingDpcs[i]]

\* The lab clock moves by n: every live time gets that much closer.  Times
\* below -MaxLag are cut off by the guard.
Elapse(n) ==
  LET live == pendingTimers \cup sweep IN
  /\ \A i \in live : timerObjs[i].due - n >= -MaxLag
  /\ pg.armed => pg.nextIn - n >= -MaxLag
  /\ timerObjs' = [i \in DOMAIN timerObjs |->
                     IF i \in live THEN [timerObjs[i] EXCEPT !.due = @ - n]
                     ELSE timerObjs[i]]
  /\ pg' = IF pg.armed /\ ~pg.violated THEN [pg EXCEPT !.nextIn = @ - n]
           ELSE pg
  /\ driftAge' = IF pg.armed /\ ~pg.violated /\ drift THEN driftAge + n
                 ELSE driftAge

\* setCpuIrql for the secondary cores: other processor numbers are ignored.
RaiseCore(c, level) ==
  cpuIrqls' = [k \in Cores |-> IF k = c /\ cpuIrqls[k] < level THEN level
                               ELSE cpuIrqls[k]]

UnpinCores(S) ==
  cpuIrqls' = [k \in Cores |-> IF k \in S THEN 0 ELSE cpuIrqls[k]]

-----------------------------------------------------------------------------
\* Guest calls: IRQL.

\* noteBugcheck stops the CPU: the caller and every later routine with it.
BugCheck == halted' = TRUE

\* KfRaiseIrql / KeRaiseIrql / KeRaiseIrqlToDpcLevel: raising below the
\* current level is IRQL_NOT_LESS_OR_EQUAL and leaves the level alone.  Spin
\* locks and fast mutexes only set the level, without a check: what they do is
\* always a raise or a lowering (winapi.mjs:343-366, winapi-ext.mjs:937-938).
RaiseIrql(level) ==
  /\ GuestRuns
  /\ IF level < currentIrql
     THEN BugCheck /\ UNCHANGED irqlVars
     ELSE currentIrql' = level /\ UNCHANGED <<cpuIrqls, halted>>
  /\ UNCHANGED <<dpcVars, timerVars, queueVars, pgVars, loopVars, running>>

\* KeLowerIrql: lowering above the current level bugchecks likewise.
LowerIrql(level) ==
  /\ GuestRuns
  /\ IF level > currentIrql
     THEN BugCheck /\ UNCHANGED irqlVars
     ELSE currentIrql' = level /\ UNCHANGED <<cpuIrqls, halted>>
  /\ UNCHANGED <<dpcVars, timerVars, queueVars, pgVars, loopVars, running>>

KeBugCheckEx ==
  /\ GuestRuns
  /\ BugCheck
  /\ UNCHANGED <<irqlVars, dpcVars, timerVars, queueVars, pgVars, loopVars,
                 running>>

-----------------------------------------------------------------------------
\* Guest calls: DPCs.

KeSetTargetProcessorDpc(d, c) ==
  /\ GuestRuns
  /\ dpcTargetCpu' = [dpcTargetCpu EXCEPT ![d] = c]
  /\ UNCHANGED <<irqlVars, pendingDpcs, timerVars, queueVars, pgVars, halted,
                 loopVars, running>>

\* Fault: a DPC counts as waiting only at the processor it is directed at now.
IsQueuedThere(d) ==
  \E i \in Undrained : /\ pendingDpcs[i].dpc = d
                       /\ pendingDpcs[i].targetCpu = dpcTargetCpu[d]

\* queueDpc: a DPC that is still waiting is not queued a second time.
IsQueued(d) == \E i \in Undrained : pendingDpcs[i].dpc = d

QueueDpc(d, target) ==
  /\ ~IsQueued(d)
  /\ Len(pendingDpcs) < MaxDpcRecords
  /\ pendingDpcs' = Append(pendingDpcs,
       [dpc |-> d, targetCpu |-> target, drained |-> FALSE,
        withdrawn |-> FALSE, runs |-> 0])

\* KeInsertQueueDpc: a DPC directed at another core raises that core to
\* DISPATCH_LEVEL the moment it is accepted.
KeInsertQueueDpc(d) ==
  /\ GuestRuns
  /\ QueueDpc(d, dpcTargetCpu[d])
  /\ RaiseCore(dpcTargetCpu[d], DISPATCH_LEVEL)
  /\ UNCHANGED <<currentIrql, dpcTargetCpu, timerVars, queueVars, pgVars,
                 halted, loopVars, running>>

\* KeRemoveQueueDpc: takes the waiting record off the queue and unpins the
\* core it was directed at.
KeRemoveQueueDpc(d) ==
  /\ GuestRuns
  /\ \E i \in Undrained :
        /\ pendingDpcs[i].dpc = d
        /\ MarkDrained({i}, FALSE, TRUE)
        /\ UnpinCores({pendingDpcs[i].targetCpu})
  /\ UNCHANGED <<currentIrql, dpcTargetCpu, timerVars, queueVars, pgVars,
                 halted, loopVars, running>>

\* KfReleaseDirectedDpcs: the same for every waiting directed DPC.
KfReleaseDirectedDpcs ==
  LET directed == {i \in Undrained : pendingDpcs[i].targetCpu > 0} IN
  /\ GuestRuns
  /\ MarkDrained(directed, FALSE, TRUE)
  /\ UnpinCores({pendingDpcs[i].targetCpu : i \in directed})
  /\ UNCHANGED <<currentIrql, dpcTargetCpu, timerVars, queueVars, pgVars,
                 halted, loopVars, running>>

-----------------------------------------------------------------------------
\* Guest calls: timers, work items, threads, protected memory.

\* Fault: the list is not searched for the timer.
SetTimerUnsearched(t, delta, period, d) ==
  /\ Len(timerObjs) < MaxTimerObjs
  /\ timerObjs' = Append(timerObjs, [timer |-> t, due |-> delta,
                                     period |-> period, dpc |-> d])
  /\ pendingTimers' = pendingTimers \cup {Len(timerObjs) + 1}

\* setTimer: a listed timer is re-armed in place, any other gets a new record
\* at the end of the list.
SetTimer(t, delta, period, d) ==
  LET rec == [timer |-> t, due |-> delta, period |-> period, dpc |-> d]
      listed == {i \in pendingTimers : timerObjs[i].timer = t}
  IN IF listed # {}
     THEN \E i \in listed : /\ IsFirst(i, listed)
                            /\ timerObjs' = [timerObjs EXCEPT ![i] = rec]
                            /\ UNCHANGED pendingTimers
     ELSE /\ Len(timerObjs) < MaxTimerObjs
          /\ timerObjs' = Append(timerObjs, rec)
          /\ pendingTimers' = pendingTimers \cup {Len(timerObjs) + 1}

\* KeSetTimer / KeSetTimerEx.
KeSetTimer(t, delta, period, d) ==
  /\ GuestRuns
  /\ SetTimer(t, delta, period, d)
  /\ armed' = armed \cup {t}
  /\ UNCHANGED <<irqlVars, dpcVars, queueVars, pgVars, halted, loopVars,
                 running>>

\* cancelTimer: removes the first listed record of the timer, if any.
CancelTimer(t) ==
  LET listed == {i \in pendingTimers : timerObjs[i].timer = t} IN
  pendingTimers' = pendingTimers \ {i \in listed : IsFirst(i, listed)}

KeCancelTimer(t) ==
  /\ GuestRuns
  /\ CancelTimer(t)
  /\ armed' = armed \ {t}
  /\ UNCHANGED <<irqlVars, dpcVars, timerObjs, queueVars, pgVars, halted,
                 loopVars, running>>

\* KeQueryTickCount moves the clock: each query is one tick later.
KeQueryTickCount ==
  /\ GuestRuns
  /\ Elapse(1)
  /\ UNCHANGED <<irqlVars, dpcVars, pendingTimers, armed, queueVars,
                 protectedRanges, drift, halted, loopVars, running>>

\* The bound leaves room for another work item, APC or thread.
MayQueue == pendingWorkItems + pendingApcs + pendingThreads < MaxQueued

IoQueueWorkItem ==
  /\ GuestRuns
  /\ MayQueue
  /\ pendingWorkItems' = pendingWorkItems + 1
  /\ UNCHANGED <<irqlVars, dpcVars, timerVars, pendingApcs, pendingThreads, pgVars, halted,
                 loopVars, running>>

\* An APC is queued as often as it is inserted.
KeInsertQueueApc ==
  /\ GuestRuns
  /\ MayQueue
  /\ pendingApcs' = pendingApcs + 1
  /\ UNCHANGED <<irqlVars, dpcVars, timerVars, pendingWorkItems, pendingThreads, pgVars,
                 halted, loopVars, running>>

PsCreateSystemThread ==
  /\ GuestRuns
  /\ MayQueue
  /\ pendingThreads' = pendingThreads + 1
  /\ UNCHANGED <<irqlVars, dpcVars, timerVars, pendingWorkItems, pendingApcs, pgVars,
                 halted, loopVars, running>>

\* The guest patches a protected range, or puts the pristine bytes back.
WriteProtected(d) ==
  /\ GuestRuns
  /\ protectedRanges > 0
  /\ drift' = d
  /\ driftAge' = 0
  /\ d # drift
  /\ UNCHANGED <<irqlVars, dpcVars, timerVars, queueVars, protectedRanges, pg,
                 halted, loopVars, running>>

-----------------------------------------------------------------------------
\* Host calls.  The host (debugger, analyzer, lab scenario) has control when
\* no loop is in progress and nothing is on the CPU.

HostIdle == loop = "host" /\ running = "none"

\* callDriverEntry resets core 0 to DISPATCH_LEVEL; dispatch routines
\* (sendIrp) run at whatever level core 0 has.
CallDriver(entry) ==
  /\ HostIdle
  /\ running' = "driver"
  /\ currentIrql' = IF entry THEN DISPATCH_LEVEL ELSE currentIrql
  /\ UNCHANGED <<cpuIrqls, dpcVars, timerVars, queueVars, pgVars, halted,
                 loopVars>>

DriverReturns ==
  /\ running = "driver"
  /\ running' = "none"
  /\ UNCHANGED <<irqlVars, dpcVars, timerVars, queueVars, pgVars, halted,
                 loopVars>>

\* drainDpcs: retirement only, no routine is run.
DrainDpcs ==
  /\ HostIdle
  /\ MarkDrained(Undrained, FALSE, TRUE)
  /\ UNCHANGED <<irqlVars, dpcTargetCpu, timerVars, queueVars, pgVars, halted,
                 loopVars, running>>

\* checkDpcWatchdog: DPC_WATCHDOG_VIOLATION when a secondary core sits at or
\* above DISPATCH_LEVEL, or core 0 above it.
CheckDpcWatchdog ==
  /\ HostIdle
  /\ \/ \E c \in Cores : cpuIrqls[c] >= DISPATCH_LEVEL
     \/ currentIrql > DISPATCH_LEVEL
  /\ BugCheck
  /\ UNCHANGED <<irqlVars, dpcVars, timerVars, queueVars, pgVars, loopVars,
                 running>>

ProtectRange ==
  /\ HostIdle
  /\ protectedRanges < MaxRanges
  /\ protectedRanges' = protectedRanges + 1
  /\ UNCHANGED <<irqlVars, dpcVars, timerVars, queueVars, drift, driftAge, pg,
                 halted, loopVars, running>>

\* installPatchguard: refuses to arm over nothing; arming again starts afresh.
InstallPatchguard(period, phase) ==
  /\ HostIdle
  /\ protectedRanges > 0
  /\ pg' = [armed |-> TRUE, period |-> period, nextIn |-> phase,
            violated |-> FALSE,
            window |-> IF phase > period THEN phase ELSE period]
  /\ driftAge' = 0
  /\ UNCHANGED <<irqlVars, dpcVars, timerVars, queueVars, protectedRanges,
                 drift, halted, loopVars, running>>

-----------------------------------------------------------------------------
\* advanceTicks: move the clock, expire timers, retire DPCs, sweep.

\* fireDueTimers takes its copy of the list, unless core 0 is above
\* DISPATCH_LEVEL.
EnterTimerLoop(after) ==
  /\ sweep' = pendingTimers
  /\ guard' = 0
  /\ cont' = after

AdvanceTicks(n) ==
  /\ HostIdle
  /\ Elapse(n)
  /\ swept' = (n > 0)
  /\ IF currentIrql > DISPATCH_LEVEL
     THEN loop' = "finish" /\ UNCHANGED <<sweep, guard, cont>>
     ELSE loop' = "timers" /\ EnterTimerLoop("retire")
  /\ UNCHANGED <<irqlVars, dpcVars, pendingTimers, armed, queueVars,
                 protectedRanges, drift, halted, batch, workBatch, apcBatch, threadBatch,
                 pass, running>>

\* fireDueTimers on its own, as sendIrp calls it for a pended IRP.
FireDueTimers ==
  /\ HostIdle
  /\ currentIrql <= DISPATCH_LEVEL
  /\ loop' = "timers"
  /\ EnterTimerLoop("host")
  /\ UNCHANGED <<irqlVars, dpcVars, timerVars, queueVars, pgVars, halted,
                 swept, batch, workBatch, apcBatch, threadBatch, pass, running>>

\* The timer the loop stands at, between two routines.
AtTimer(i) == loop = "timers" /\ running = "none" /\ IsFirst(i, sweep)

\* A due timer expires: the record of its DPC that is waiting in the queue
\* counts as delivered, and the DPC routine goes on the CPU.  A one-shot
\* timer the list still holds has now expired.
TimerExpires(i) ==
  LET t == timerObjs[i]
      bound == {r \in Undrained : pendingDpcs[r].dpc = t.dpc}
  IN /\ AtTimer(i)
     /\ t.due <= 0
     /\ guard' = guard + 1
     /\ running' = IF t.dpc = NoDpc THEN "expiry" ELSE "timer"
     /\ MarkDrained({r \in bound : IsFirst(r, bound)}, TRUE, FALSE)
     /\ armed' = IF t.period = 0 /\ i \in pendingTimers
                 THEN armed \ {t.timer} ELSE armed
     /\ UNCHANGED <<irqlVars, dpcTargetCpu, timerObjs, pendingTimers,
                    queueVars, pgVars, halted, loop, cont, swept, sweep, batch,
                    workBatch,
                 apcBatch, threadBatch, pass>>

\* Fault: an expired one-shot timer stays in the list.
TimerReturnsListed(i) ==
  LET t == timerObjs[i] IN
  /\ loop = "timers" /\ running \in {"timer", "expiry"} /\ IsFirst(i, sweep)
  /\ running' = "none"
  /\ IF guard < MaxPerTimer /\ t.period > 0
     THEN /\ timerObjs' = [timerObjs EXCEPT ![i].due = @ + t.period]
          /\ UNCHANGED <<sweep, guard>>
     ELSE sweep' = sweep \ {i} /\ guard' = 0 /\ UNCHANGED timerObjs
  /\ UNCHANGED <<irqlVars, dpcVars, pendingTimers, armed, queueVars, pgVars,
                 halted, loop, cont, swept, batch, workBatch, apcBatch, threadBatch,
                 pass>>

\* The routine is back: stop at the cap, go round again for a periodic timer,
\* drop a one-shot timer from the list.
TimerReturns(i) ==
  LET t == timerObjs[i] IN
  /\ loop = "timers" /\ running \in {"timer", "expiry"} /\ IsFirst(i, sweep)
  /\ running' = "none"
  /\ IF guard < MaxPerTimer /\ t.period > 0
     THEN /\ timerObjs' = [timerObjs EXCEPT ![i].due = @ + t.period]
          /\ UNCHANGED <<pendingTimers, sweep, guard>>
     ELSE /\ IF guard >= MaxPerTimer THEN UNCHANGED pendingTimers
             ELSE CancelTimer(t.timer)
          /\ sweep' = sweep \ {i}
          /\ guard' = 0
          /\ UNCHANGED timerObjs
  /\ UNCHANGED <<irqlVars, dpcVars, armed, queueVars, pgVars, halted, loop,
                 cont, swept, batch, workBatch,
                 apcBatch, threadBatch, pass>>

\* Not due (any more): on to the next timer of the copy.
TimerSkipped(i) ==
  /\ AtTimer(i)
  /\ timerObjs[i].due > 0
  /\ sweep' = sweep \ {i}
  /\ guard' = 0
  /\ UNCHANGED <<irqlVars, dpcVars, timerVars, queueVars, pgVars, halted, loop,
                 cont, swept, batch, workBatch, apcBatch, threadBatch, pass, running>>

\* The copy is exhausted.  advanceTicks goes on to retireQueuedDpcs, which
\* filters its own copy, when core 0 is at or below DISPATCH_LEVEL.
TimersDone ==
  /\ loop = "timers" /\ running = "none" /\ sweep = {}
  /\ loop' = IF cont = "host" THEN "host"
             ELSE IF currentIrql <= DISPATCH_LEVEL THEN "retire" ELSE "finish"
  /\ batch' = IF loop' = "retire" THEN Undrained ELSE {}
  /\ UNCHANGED <<irqlVars, dpcVars, timerVars, queueVars, pgVars, halted, cont,
                 swept, sweep, guard, workBatch, apcBatch, threadBatch, pass, running>>

\* Fault: the record is run without being marked drained.
DpcRunsUnmarked(i) ==
  /\ loop = "retire" /\ running = "none" /\ IsFirst(i, batch)
  /\ pendingDpcs' = [pendingDpcs EXCEPT ![i].runs = @ + 1]
  /\ batch' = batch \ {i}
  /\ running' = "dpc"
  /\ UNCHANGED <<irqlVars, dpcTargetCpu, timerVars, queueVars, pgVars, halted,
                 loop, cont, swept, sweep, guard, workBatch, apcBatch, threadBatch, pass>>

\* retireQueuedDpcs: one record of the batch is marked and run.
DpcRuns(i) ==
  /\ loop = "retire" /\ running = "none" /\ IsFirst(i, batch)
  /\ MarkDrained({i}, TRUE, FALSE)
  /\ batch' = batch \ {i}
  /\ running' = "dpc"
  /\ UNCHANGED <<irqlVars, dpcTargetCpu, timerVars, queueVars, pgVars, halted,
                 loop, cont, swept, sweep, guard, workBatch,
                 apcBatch, threadBatch, pass>>

RetireDone ==
  /\ loop = "retire" /\ running = "none" /\ batch = {}
  /\ loop' = "finish"
  /\ UNCHANGED <<irqlVars, dpcVars, timerVars, queueVars, pgVars, halted, cont,
                 swept, sweep, guard, batch, workBatch, apcBatch, threadBatch, pass,
                 running>>

\* Fault: a clean pass schedules the next sweep from the current tick plus two
\* periods.
PatchguardSweepLate ==
  IF drift
  THEN pg' = [pg EXCEPT !.violated = TRUE] /\ BugCheck
  ELSE pg' = [pg EXCEPT !.nextIn = 2 * pg.period] /\ UNCHANGED halted

\* patchguardSweep: drift is fatal, a clean pass re-arms one period on.
PatchguardSweep ==
  IF drift
  THEN /\ pg' = [pg EXCEPT !.violated = TRUE]
       /\ BugCheck
  ELSE /\ pg' = [pg EXCEPT !.nextIn = @ + pg.period]
       /\ UNCHANGED halted

\* Fault: a sweep is only due after its tick has passed.
PgSweepOverdue == pg.armed /\ ~pg.violated /\ pg.nextIn < 0

\* _pgSweepDue.
PgSweepDue == pg.armed /\ ~pg.violated /\ pg.nextIn <= 0

\* The tail of advanceTicks.
AdvanceReturns ==
  /\ loop = "finish"
  /\ loop' = "host"
  /\ IF swept /\ PgSweepDue THEN PatchguardSweep ELSE UNCHANGED <<pg, halted>>
  /\ UNCHANGED <<irqlVars, dpcVars, timerVars, queueVars, protectedRanges,
                 drift, driftAge, cont, swept, sweep, guard, batch, workBatch,
                 apcBatch, threadBatch, pass, running>>

-----------------------------------------------------------------------------
\* drainDeferred: at most MaxPasses passes, each over a copy of all queues.

DrainDeferred ==
  /\ HostIdle
  /\ loop' = "drain"
  /\ pass' = 0
  /\ UNCHANGED <<irqlVars, dpcVars, timerVars, queueVars, pgVars, halted, cont,
                 swept, sweep, guard, batch, workBatch, apcBatch, threadBatch, running>>

PassOver == batch = {} /\ workBatch = 0 /\ apcBatch = 0 /\ threadBatch = 0

QueuesEmpty ==
  Undrained = {} /\ pendingWorkItems = 0 /\ pendingApcs = 0 /\ pendingThreads = 0

\* Fault: passes are not counted, so a requeueing worker is never cut off.
DrainPassUnbounded ==
  /\ loop = "drain" /\ running = "none"
  /\ PassOver
  /\ ~QueuesEmpty
  /\ pass' = pass
  /\ batch' = Undrained
  /\ MarkDrained(Undrained, FALSE, FALSE)
  /\ workBatch' = pendingWorkItems
  /\ apcBatch' = pendingApcs
  /\ threadBatch' = pendingThreads
  /\ pendingWorkItems' = 0
  /\ pendingApcs' = 0
  /\ pendingThreads' = 0
  /\ UNCHANGED <<irqlVars, dpcTargetCpu, timerVars, pgVars, halted, loop, cont,
                 swept, sweep, guard, running>>

\* A pass takes everything that is queued; the DPC records are marked drained
\* before the first of them runs.
DrainPass ==
  /\ loop = "drain" /\ running = "none"
  /\ PassOver
  /\ pass < MaxPasses
  /\ ~QueuesEmpty
  /\ pass' = pass + 1
  /\ batch' = Undrained
  /\ MarkDrained(Undrained, FALSE, FALSE)
  /\ workBatch' = pendingWorkItems
  /\ apcBatch' = pendingApcs
  /\ threadBatch' = pendingThreads
  /\ pendingWorkItems' = 0
  /\ pendingApcs' = 0
  /\ pendingThreads' = 0
  /\ UNCHANGED <<irqlVars, dpcTargetCpu, timerVars, pgVars, halted, loop, cont,
                 swept, sweep, guard, running>>

DrainRunsDpc(i) ==
  /\ loop = "drain" /\ running = "none" /\ IsFirst(i, batch)
  /\ MarkDrained({i}, TRUE, FALSE)
  /\ batch' = batch \ {i}
  /\ running' = "dpc"
  /\ UNCHANGED <<irqlVars, dpcTargetCpu, timerVars, queueVars, pgVars, halted,
                 loop, cont, swept, sweep, guard, workBatch,
                 apcBatch, threadBatch, pass>>

DrainRunsWork ==
  /\ loop = "drain" /\ running = "none" /\ batch = {}
  /\ workBatch > 0
  /\ workBatch' = workBatch - 1
  /\ running' = "work"
  /\ UNCHANGED <<irqlVars, dpcVars, timerVars, queueVars, pgVars, halted, loop,
                 cont, swept, sweep, guard, batch, apcBatch, threadBatch, pass>>

\* The APCs of a pass run behind its work items.
DrainRunsApc ==
  /\ loop = "drain" /\ running = "none" /\ batch = {} /\ workBatch = 0
  /\ apcBatch > 0
  /\ apcBatch' = apcBatch - 1
  /\ running' = "apc"
  /\ UNCHANGED <<irqlVars, dpcVars, timerVars, queueVars, pgVars, halted, loop,
                 cont, swept, sweep, guard, batch, workBatch, threadBatch, pass>>

\* Fault: the pass does not check that it has a thread left.
DrainRunsThreadEmpty ==
  /\ loop = "drain" /\ running = "none" /\ batch = {} /\ workBatch = 0 /\ apcBatch = 0
  /\ threadBatch' = threadBatch - 1
  /\ running' = "thread"
  /\ UNCHANGED <<irqlVars, dpcVars, timerVars, queueVars, pgVars, halted, loop,
                 cont, swept, sweep, guard, batch, workBatch, apcBatch, pass>>

DrainRunsThread ==
  /\ loop = "drain" /\ running = "none" /\ batch = {} /\ workBatch = 0 /\ apcBatch = 0
  /\ threadBatch > 0
  /\ threadBatch' = threadBatch - 1
  /\ running' = "thread"
  /\ UNCHANGED <<irqlVars, dpcVars, timerVars, queueVars, pgVars, halted, loop,
                 cont, swept, sweep, guard, batch, workBatch, apcBatch, pass>>

DrainDone ==
  /\ loop = "drain" /\ running = "none"
  /\ PassOver
  /\ pass = MaxPasses \/ QueuesEmpty
  /\ loop' = "host"
  /\ UNCHANGED <<irqlVars, dpcVars, timerVars, queueVars, pgVars, halted, cont,
                 swept, sweep, guard, batch, workBatch, apcBatch, threadBatch, pass,
                 running>>

\* A DPC, work-item, APC or thread routine is back.
RoutineReturns ==
  /\ running \in {"dpc", "work", "apc", "thread"}
  /\ running' = "none"
  /\ UNCHANGED <<irqlVars, dpcVars, timerVars, queueVars, pgVars, halted,
                 loopVars>>

-----------------------------------------------------------------------------
GuestCall ==
  \/ \E l \in Irqls : RaiseIrql(l) \/ LowerIrql(l)
  \/ KeBugCheckEx
  \/ \E d \in Dpcs, c \in Targets : KeSetTargetProcessorDpc(d, c)
  \/ \E d \in Dpcs : KeInsertQueueDpc(d) \/ KeRemoveQueueDpc(d)
  \/ KfReleaseDirectedDpcs
  \/ \E t \in Timers, delta \in Deltas, p \in Periods :
       \E d \in Dpcs \cup {NoDpc} : KeSetTimer(t, delta, p, d)
  \/ \E t \in Timers : KeCancelTimer(t)
  \/ KeQueryTickCount
  \/ IoQueueWorkItem
  \/ KeInsertQueueApc
  \/ PsCreateSystemThread
  \/ \E d \in BOOLEAN : WriteProtected(d)

HostCall ==
  \/ \E entry \in BOOLEAN : CallDriver(entry)
  \/ DrainDpcs
  \/ CheckDpcWatchdog
  \/ ProtectRange
  \/ \E p \in PgPeriods, ph \in PgPhases : InstallPatchguard(p, ph)
  \/ \E n \in TickSteps : AdvanceTicks(n)
  \/ FireDueTimers
  \/ DrainDeferred

\* The kernel's own loops.
LoopStep ==
  \/ \E i \in DOMAIN timerObjs : TimerExpires(i) \/ TimerSkipped(i)
  \/ TimersDone
  \/ \E i \in DOMAIN pendingDpcs : DpcRuns(i) \/ DrainRunsDpc(i)
  \/ RetireDone
  \/ AdvanceReturns
  \/ DrainPass
  \/ DrainRunsWork
  \/ DrainRunsApc
  \/ DrainRunsThread
  \/ DrainDone

\* cpu.callFunction comes back.
CallReturns ==
  \/ DriverReturns
  \/ RoutineReturns
  \/ \E i \in DOMAIN timerObjs : TimerReturns(i)

Next == GuestCall \/ HostCall \/ LoopStep \/ CallReturns

\* The loops are plain JavaScript and go on whenever they can; callFunction
\* always comes back because cpu.run has a step budget.  Nothing is assumed
\* of the host or of what routines call.
Fairness == WF_vars(LoopStep) /\ WF_vars(CallReturns)

Spec == Init /\ [][Next]_vars /\ Fairness

-----------------------------------------------------------------------------
(***************************************************************************)
(* Properties.                                                             *)
(***************************************************************************)

\* A KDPC object is in the queue at most once, whatever routines insert,
\* remove and re-insert while a batch is being run (queueDpc's refusal).
QueuedOnce ==
  \A i, j \in Undrained : pendingDpcs[i].dpc = pendingDpcs[j].dpc => i = j

\* Every accepted insertion is handed to the CPU exactly once unless somebody
\* takes it off the queue: never twice, although three loops (timer expiry,
\* retireQueuedDpcs, drainDeferred) consume the same queue, and never dropped
\* by a loop that marked it drained ahead of running it.
DeliveredOnce ==
  \A i \in DOMAIN pendingDpcs :
    LET r == pendingDpcs[i] IN
    /\ r.runs <= 1
    /\ ~r.drained => r.runs = 0
    /\ r.drained /\ ~r.withdrawn /\ r.runs = 0 => i \in batch

\* The timer list holds a KTIMER at most once, also when a routine cancels and
\* sets timers in the middle of the expiry loop.
ListedOnce ==
  \A i, j \in pendingTimers : timerObjs[i].timer = timerObjs[j].timer => i = j

\* Only armed timers are listed: one that was cancelled, or that expired as a
\* one-shot timer, is gone from the list once its routine has returned, so no
\* later clock tick can expire it again.
ListedIsArmed ==
  \A i \in pendingTimers :
    \/ timerObjs[i].timer \in armed
    \/ loop = "timers" /\ running \in {"timer", "expiry"} /\ IsFirst(i, sweep)

\* PatchGuard's schedule: the sweep that will see patched bytes is never more
\* than one window (the period, or the phase of the first sweep) after they
\* appear, however far single clock advances jump.
SweepScheduled ==
  pg.armed /\ ~pg.violated => pg.nextIn + driftAge <= pg.window

\* So bytes that stay patched for a window do not survive the next clock
\* advance: when advanceTicks returns, PatchGuard has bugchecked on them or
\* they are younger than that.
CaughtInTime ==
  [][loop = "finish" /\ loop' = "host" /\ swept /\ pg.armed /\ drift
       => pg'.violated \/ driftAge < pg.window]_vars

\* advanceTicks, fireDueTimers and drainDeferred return, although routines can
\* move the clock, re-arm timers and re-queue work from inside the loop.
LoopsReturn == loop # "host" ~> loop = "host"

-----------------------------------------------------------------------------
(***************************************************************************)
(* What a comment says of the timer list, and the code does not do.       *)
(***************************************************************************)

\* kernel.mjs, pendingTimers: the modelled KTIMERs that were set are fired by
\* advanceTicks and fireDueTimers, so an armed one has to be listed.
ArmedIsListed ==
  \A t \in armed : \E i \in pendingTimers : timerObjs[i].timer = t

=============================================================================

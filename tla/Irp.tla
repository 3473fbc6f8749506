---------------------------------- MODULE Irp ----------------------------------
(***************************************************************************)
(* I/O request packets in the simulated NT kernel: sendIrp and completeIrp *)
(* of packages/ntsim/src/devices.mjs with the Io thunks of winapi-ext.mjs. *)
(*                                                                         *)
(* The host sends one IRP at a time, but a driver may keep an IRP pending  *)
(* while later ones are sent, forward it, complete it from a deferred      *)
(* routine, and re-enter all of it from dispatch and completion routines.  *)
(* calls is the stack of guest routines and kernel loops in progress; the  *)
(* routine on top is the one that acts.                                    *)
(*                                                                         *)
(* Locations number the IO_STACK_LOCATION array from 0.  IRPs built by     *)
(* sendIrp have one location, and forwarding moves CurrentStackLocation    *)
(* down: location -1 is memory of the IRP header, where the helpers write  *)
(* as if it were a location.                                               *)
(***************************************************************************)
EXTENDS Integers, Sequences, FiniteSets

CONSTANTS
  Devices,    \* the device objects
  Irps,       \* IRP allocations
  NoIrp,      \* no IRP
  NoDevice,   \* no device
  Invites,    \* invoke bits drivers register completion routines with
  MaxLocs,    \* bound: stack locations IoAllocateIrp is asked for
  MaxDepth,   \* bound: calls in progress when a routine makes another one
  MaxDeferred   \* bound: deferred routines queued at once

ASSUME IrpAssumption ==
  /\ NoIrp \notin Irps
  /\ NoDevice \notin Devices
  /\ Invites \subseteq SUBSET {"success", "error", "cancel"}
  /\ MaxLocs \in Nat \ {0}
  /\ MaxDepth \in Nat \ {0}
  /\ MaxDeferred \in Nat

VARIABLES
  irps,          \* the IRPs: number of locations, current location, status
  slots,         \* their stack locations
  devices,       \* kernel.devices: what IofCallDriver finds
  currentIrp,    \* DEVICE_OBJECT.CurrentIrp
  attached,      \* DEVICE_OBJECT.AttachedDevice
  queued,        \* deferred routines (DPCs, work items, timers) waiting
  calls,         \* the routines and loops in progress, innermost last
  lastCompleted, \* kernel.lastCompletedIrp
  drained,       \* ghost: the IRPs completed since the drain began
  sending,       \* the sendIrp in progress
  result         \* what the last sendIrp reported

memVars  == <<irps, slots>>
devVars  == <<devices, currentIrp, attached>>
doneVars == <<lastCompleted, drained>>
sendVars == <<sending, result>>
irpVars == <<memVars, devVars, queued, calls, doneVars, sendVars>>

-----------------------------------------------------------------------------
Locs == -1..(MaxLocs - 1)

\* Control: when the routine is to be invoked, and SL_PENDING_RETURNED.
Invitations == {"success", "error", "cancel"}
Slot == [routine : BOOLEAN, invoke : SUBSET Invitations, pending : BOOLEAN]

IrpRecord == [count : 0..MaxLocs, current : Locs, success : BOOLEAN]

\* dispatch: a MajorFunction routine, called by the host or by IofCallDriver;
\* complete: completeIrp's loop, at location loc, with the status it read at
\* its start; routine: a completion routine; worker: a deferred routine.
Call == [kind : {"dispatch", "complete", "routine", "worker"},
         dev : Devices \cup {NoDevice}, irp : Irps \cup {NoIrp},
         loc : 0..MaxLocs, last : Locs, success : BOOLEAN, ran : SUBSET Locs]

Sending == [phase : {"host", "dispatch", "drain"}, irp : Irps \cup {NoIrp},
            completedBefore : Irps \cup {NoIrp}]

\* drained: ghost, the IRP was completed in the drain.
Result == [irp : Irps \cup {NoIrp}, marked : BOOLEAN, pending : BOOLEAN,
           drained : BOOLEAN]

IrpTypeOK ==
  /\ irps \in [Irps -> IrpRecord]
  /\ slots \in [Irps -> [Locs -> Slot]]
  /\ devices \subseteq Devices
  /\ currentIrp \in [Devices -> Irps \cup {NoIrp}]
  /\ attached \in [Devices -> Devices \cup {NoDevice}]
  /\ queued \in 0..MaxDeferred
  /\ calls \in Seq(Call)
  /\ lastCompleted \in Irps \cup {NoIrp}
  /\ drained \subseteq Irps
  /\ sending \in Sending
  /\ result \in Result

EmptySlot == [routine |-> FALSE, invoke |-> {}, pending |-> FALSE]
Idle == [phase |-> "host", irp |-> NoIrp, completedBefore |-> NoIrp]

IrpInit ==
  /\ irps = [i \in Irps |-> [count |-> 0, current |-> 0, success |-> TRUE]]
  /\ slots = [i \in Irps |-> [l \in Locs |-> EmptySlot]]
  /\ devices = Devices
  /\ currentIrp = [d \in Devices |-> NoIrp]
  /\ attached = [d \in Devices |-> NoDevice]
  /\ queued = 0
  /\ calls = <<>>
  /\ lastCompleted = NoIrp
  /\ drained = {}
  /\ sending = Idle
  /\ result = [irp |-> NoIrp, marked |-> FALSE, pending |-> FALSE,
               drained |-> FALSE]

-----------------------------------------------------------------------------
\* The call stack.

Top == calls[Len(calls)]
Return == calls' = SubSeq(calls, 1, Len(calls) - 1)

\* A guest routine is the innermost call; it may act on any IRP it has seen.
IrpGuestRuns == calls # <<>> /\ Top.kind # "complete"
Known == {i \in Irps : irps[i].count > 0}

Push(kind, d, i, last, success) ==
  /\ Len(calls) < MaxDepth
  /\ calls' = Append(calls, [kind |-> kind, dev |-> d, irp |-> i, loc |-> 0,
                             last |-> last, success |-> success, ran |-> {}])

\* A fresh IRP with n locations whose control bytes are ctl.
Build(i, n, ctl) ==
  /\ irps' = [irps EXCEPT ![i] = [count |-> n, current |-> n - 1,
                                  success |-> TRUE]]
  /\ slots' = [slots EXCEPT ![i] =
                [l \in Locs |-> [EmptySlot EXCEPT !.invoke =
                                   IF l \in 0..(n - 1) THEN ctl ELSE {}]]]

-----------------------------------------------------------------------------
\* sendIrp, first half: build the IRP and call the dispatch routine.  A device
\* the driver deleted can still be sent to: the host holds its record.

SendIrp(d, i) ==
  /\ sending.phase = "host" /\ calls = <<>>
  /\ irps[i].count = 0
  /\ Build(i, 1, Invitations)
  /\ currentIrp' = [currentIrp EXCEPT ![d] = i]
  /\ sending' = [phase |-> "dispatch", irp |-> i, completedBefore |-> NoIrp]
  /\ Push("dispatch", d, i, 0, TRUE)
  /\ UNCHANGED <<devices, attached, queued, doneVars,
                 result>>

-----------------------------------------------------------------------------
\* Guest calls on an IRP.

IoMarkIrpPending(i) ==
  /\ IrpGuestRuns
  /\ slots' = [slots EXCEPT ![i][irps[i].current].pending = TRUE]
  /\ UNCHANGED <<irps, devVars, queued, calls, doneVars,
                 sendVars>>

IoSkipCurrentIrpStackLocation(i) ==
  /\ IrpGuestRuns
  /\ irps[i].current - 1 \in Locs
  /\ irps' = [irps EXCEPT ![i].current = @ - 1]
  /\ UNCHANGED <<slots, devVars, queued, calls, doneVars,
                 sendVars>>

\* The copy takes the control byte along, clears the routine and, unlike the
\* WDK helper, makes the next location the current one.
IoCopyCurrentIrpStackLocationToNext(i) ==
  LET current == irps[i].current IN
  /\ IrpGuestRuns
  /\ current - 1 \in Locs
  /\ slots' = [slots EXCEPT ![i][current - 1] =
                [slots[i][current] EXCEPT !.routine = FALSE]]
  /\ irps' = [irps EXCEPT ![i].current = current - 1]
  /\ UNCHANGED <<devVars, queued, calls, doneVars, sendVars>>

\* In the current location, where the WDK helper writes the next one.
IoSetCompletionRoutine(i, invoke) ==
  /\ IrpGuestRuns
  /\ slots' = [slots EXCEPT ![i][irps[i].current] =
                [@ EXCEPT !.routine = TRUE, !.invoke = invoke]]
  /\ UNCHANGED <<irps, devVars, queued, calls, doneVars,
                 sendVars>>

\* A compiled driver's inlined helper pokes the next location directly.
PokeNextLocation(i, invoke) ==
  LET next == irps[i].current - 1 IN
  /\ IrpGuestRuns
  /\ next \in 0..(irps[i].count - 1)
  /\ slots' = [slots EXCEPT ![i][next] =
                [@ EXCEPT !.routine = TRUE, !.invoke = invoke]]
  /\ UNCHANGED <<irps, devVars, queued, calls, doneVars,
                 sendVars>>

\* The driver writes Irp->IoStatus.Status.
SetStatus(i, success) ==
  /\ IrpGuestRuns
  /\ irps[i].success # success
  /\ irps' = [irps EXCEPT ![i].success = success]
  /\ UNCHANGED <<slots, devVars, queued, calls, doneVars,
                 sendVars>>

IoAllocateIrp(i, n) ==
  /\ IrpGuestRuns
  /\ irps[i].count = 0
  /\ Build(i, n, {})
  /\ UNCHANGED <<devVars, queued, calls, doneVars, sendVars>>

\* IofCallDriver: into the dispatch routine of a device that is still listed,
\* any other fails the IRP.
IofCallDriver(d, i) ==
  /\ IrpGuestRuns
  /\ IF d \in devices
     THEN /\ Push("dispatch", d, i, 0, TRUE)
          /\ currentIrp' = [currentIrp EXCEPT ![d] = i]
          /\ UNCHANGED irps
     ELSE /\ irps' = [irps EXCEPT ![i].success = FALSE]
          /\ UNCHANGED <<calls, currentIrp>>
  /\ UNCHANGED <<slots, devices, attached, queued, doneVars, sendVars>>

\* Fault: the index of the current location is not clamped.
LastVisitedUnclamped(i) == irps[i].current

\* completeIrp visits the locations from 0 up to the current one.
LastVisited(i) == IF irps[i].current < 0 THEN 0 ELSE irps[i].current

\* IofCompleteRequest enters completeIrp, which reads the status and the
\* current location once, before it calls any routine.
IofCompleteRequest(i) ==
  /\ IrpGuestRuns
  /\ lastCompleted' = i
  /\ drained' = drained \cup {i}
  /\ Push("complete", NoDevice, i, LastVisited(i), irps[i].success)
  /\ UNCHANGED <<memVars, devVars, queued, sendVars>>

\* KeInsertQueueDpc, IoQueueWorkItem, KeSetTimer: see module Dispatcher.
QueueRoutine ==
  /\ IrpGuestRuns
  /\ queued < MaxDeferred
  /\ queued' = queued + 1
  /\ UNCHANGED <<memVars, devVars, calls, doneVars, sendVars>>

-----------------------------------------------------------------------------
\* Guest calls on devices.

IoDeleteDevice(d) ==
  /\ IrpGuestRuns
  /\ devices' = devices \ {d}
  /\ UNCHANGED <<memVars, currentIrp, attached, queued, calls,
                 doneVars, sendVars>>

\* What the thunk takes for the top of the target's stack.
PreviousTop(tgt) == IF attached[tgt] = NoDevice THEN tgt ELSE attached[tgt]

IoAttachDeviceToDeviceStack(src, tgt) ==
  /\ IrpGuestRuns
  /\ src # tgt
  /\ attached' = [attached EXCEPT ![src] = PreviousTop(tgt)]
  /\ UNCHANGED <<memVars, devices, currentIrp, queued, calls, doneVars, sendVars>>

\* Clears the device's own pointer, whichever way the attachment went.
IoDetachDevice(tgt) ==
  /\ IrpGuestRuns
  /\ attached' = [attached EXCEPT ![tgt] = NoDevice]
  /\ UNCHANGED <<memVars, devices, currentIrp, queued, calls, doneVars,
                 sendVars>>

-----------------------------------------------------------------------------
\* Returns.

\* A location's routine is invited by the status, or has no invoke bit at all.
Invited(slot, success) ==
  \/ slot.invoke = {}
  \/ (IF success THEN "success" ELSE "error") \in slot.invoke

\* completeIrp's loop calls the routine of its location, or passes it by.
CompletionVisits ==
  LET slot == slots[Top.irp][Top.loc] IN
  /\ calls # <<>> /\ Top.kind = "complete"
  /\ Top.loc <= Top.last
  /\ IF slot.routine /\ Invited(slot, Top.success)
     THEN calls' = Append([calls EXCEPT ![Len(calls)].ran = @ \cup {Top.loc}],
                          [Top EXCEPT !.kind = "routine", !.ran = {}])
     ELSE calls' = [calls EXCEPT ![Len(calls)].loc = @ + 1]
  /\ UNCHANGED <<memVars, devVars, queued, doneVars, sendVars>>

CompletionEnds ==
  /\ calls # <<>> /\ Top.kind = "complete"
  /\ Top.loc > Top.last
  /\ Return
  /\ UNCHANGED <<memVars, devVars, queued, doneVars, sendVars>>

\* STATUS_MORE_PROCESSING_REQUIRED ends the loop that called the routine; a
\* routine that faults or returns anything else does not.
IrpRoutineReturns(more) ==
  LET loop == Len(calls) - 1 IN
  /\ calls # <<>> /\ Top.kind = "routine"
  /\ calls' = IF more THEN SubSeq(calls, 1, loop - 1)
              ELSE [SubSeq(calls, 1, loop) EXCEPT ![loop].loc = @ + 1]
  /\ UNCHANGED <<memVars, devVars, queued, doneVars, sendVars>>

WorkerReturns ==
  /\ calls # <<>> /\ Top.kind = "worker"
  /\ Return
  /\ UNCHANGED <<memVars, devVars, queued, doneVars, sendVars>>

\* The dispatch routine IofCallDriver called; one that faulted is reported as
\* an error status and leaves the IRP alone.
ForwardReturns ==
  /\ Len(calls) > 1 /\ Top.kind = "dispatch"
  /\ Return
  /\ currentIrp' = [currentIrp EXCEPT ![Top.dev] = NoIrp]
  /\ UNCHANGED <<memVars, devices, attached, queued, doneVars, sendVars>>

\* Fault: CurrentIrp is cleared for a routine that came back, not for one that
\* faulted.
SendReturnsLeavingIrp(fault) ==
  /\ sending.phase = "dispatch" /\ Len(calls) = 1 /\ Top.kind = "dispatch"
  /\ Return
  /\ currentIrp' = IF fault THEN currentIrp
                   ELSE [currentIrp EXCEPT ![Top.dev] = NoIrp]
  /\ IF fault
     THEN sending' = Idle /\ UNCHANGED result
     ELSE /\ sending' = [sending EXCEPT !.phase = "drain",
                          !.completedBefore = lastCompleted]
          /\ UNCHANGED result
  /\ UNCHANGED <<memVars, devices, attached, queued, doneVars>>

\* sendIrp, second half: a fault is reported as such; an IRP whose first
\* location was marked pending gets the deferred work drained; any other is
\* reported complete.
DispatchReturns(fault) ==
  LET i == sending.irp IN
  /\ sending.phase = "dispatch" /\ Len(calls) = 1 /\ Top.kind = "dispatch"
  /\ Return
  /\ currentIrp' = [currentIrp EXCEPT ![Top.dev] = NoIrp]
  /\ CASE fault ->
            sending' = Idle /\ UNCHANGED <<result, drained>>
       [] ~fault /\ slots[i][0].pending ->
            /\ sending' = [sending EXCEPT !.phase = "drain",
                                          !.completedBefore = lastCompleted]
            /\ drained' = {}
            /\ UNCHANGED result
       [] ~fault /\ ~slots[i][0].pending ->
            /\ sending' = Idle
            /\ result' = [irp |-> i, marked |-> FALSE, pending |-> FALSE,
                          drained |-> FALSE]
            /\ UNCHANGED drained
  /\ UNCHANGED <<memVars, devices, attached, queued, lastCompleted>>

\* The host drains deferred work for a pending IRP, or between IRPs.
DeferredRuns ==
  /\ sending.phase \in {"host", "drain"} /\ calls = <<>>
  /\ queued > 0
  /\ queued' = queued - 1
  /\ Push("worker", NoDevice, NoIrp, 0, TRUE)
  /\ UNCHANGED <<memVars, devVars, doneVars, sendVars>>

\* Fault: any completion counts, also one that was made before the drain.
DrainEndsUnchecked ==
  LET i == sending.irp
      finished == lastCompleted # NoIrp
  IN /\ sending.phase = "drain" /\ calls = <<>>
     /\ sending' = Idle
     /\ result' = [irp |-> i, marked |-> TRUE, pending |-> ~finished,
                   drained |-> i \in drained]
     /\ UNCHANGED <<memVars, devVars, queued, calls, doneVars>>

\* The drain is over: nothing is queued, or what is left is beyond the pass
\* limit or masked by IRQL.  The IRP counts as finished when it is now the
\* last one completed and was not before.
DrainEnds ==
  LET i == sending.irp
      finished == lastCompleted = i /\ sending.completedBefore # i
  IN /\ sending.phase = "drain" /\ calls = <<>>
     /\ sending' = Idle
     /\ result' = [irp |-> i, marked |-> TRUE, pending |-> ~finished,
                   drained |-> i \in drained]
     /\ UNCHANGED <<memVars, devVars, queued, calls, doneVars>>

-----------------------------------------------------------------------------
IrpCall ==
  \E i \in Known :
    \/ IoMarkIrpPending(i)
    \/ IoSkipCurrentIrpStackLocation(i)
    \/ IoCopyCurrentIrpStackLocationToNext(i)
    \/ \E invoke \in Invites :
         IoSetCompletionRoutine(i, invoke) \/ PokeNextLocation(i, invoke)
    \/ \E success \in BOOLEAN : SetStatus(i, success)
    \/ \E d \in Devices : IofCallDriver(d, i)
    \/ IofCompleteRequest(i)

DeviceCall ==
  \/ \E i \in Irps, n \in 1..MaxLocs : IoAllocateIrp(i, n)
  \/ QueueRoutine
  \/ \E d \in Devices : IoDeleteDevice(d)
  \/ \E d, e \in Devices : IoAttachDeviceToDeviceStack(d, e)
  \/ \E d \in Devices : IoDetachDevice(d)

Returns ==
  \/ CompletionVisits
  \/ CompletionEnds
  \/ \E more \in BOOLEAN : IrpRoutineReturns(more)
  \/ WorkerReturns
  \/ ForwardReturns
  \/ \E fault \in BOOLEAN : DispatchReturns(fault)

Host ==
  \/ \E d \in Devices, i \in Irps : SendIrp(d, i)
  \/ DeferredRuns
  \/ DrainEnds

IrpNext == IrpCall \/ DeviceCall \/ Returns \/ Host

IrpSpec == IrpInit /\ [][IrpNext]_irpVars

-----------------------------------------------------------------------------
(***************************************************************************)
(* Properties.                                                             *)
(***************************************************************************)

\* A device's CurrentIrp names an IRP only while that device's dispatch
\* routine is in progress with it, however deep drivers forward IRPs through
\* each other and whichever of the routines fault.
CurrentIrpInDispatch ==
  \A d \in Devices : currentIrp[d] # NoIrp =>
    \E k \in DOMAIN calls : /\ calls[k].kind = "dispatch"
                            /\ calls[k].dev = d
                            /\ calls[k].irp = currentIrp[d]

\* sendIrp calls an IRP its driver marked pending finished only if the deferred
\* work it drained completed that IRP, not one of the others that routines
\* complete in the same drain or one that was completed earlier.
FinishedWasCompleted ==
  result.marked /\ ~result.pending => result.drained

\* completeIrp takes no memory outside an IRP's stack array for a location,
\* wherever the location helpers have moved the IRP's pointer to.
CompletionInArray ==
  \A k \in DOMAIN calls : calls[k].kind = "complete" =>
    calls[k].last \in 0..(irps[calls[k].irp].count - 1)

\* Every variable has its type, and completeIrp stays inside an IRP's stack array.
TypedInArray == IrpTypeOK /\ CompletionInArray

-----------------------------------------------------------------------------
(***************************************************************************)
(* What a comment says, and the code does not do.                          *)
(***************************************************************************)

\* devices.mjs, completeIrp: the registered completion routines are invoked,
\* honoring the invoke bits.
NoneSkipped ==
  [][calls # <<>> /\ Top.kind = "complete" /\ Len(calls') < Len(calls) =>
       \A l \in Locs :
         LET slot == slots[Top.irp][l] IN
         slot.routine /\ Invited(slot, Top.success) => l \in Top.ran]_irpVars

=============================================================================

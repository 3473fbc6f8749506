------------------------------- MODULE Callbacks -------------------------------
(***************************************************************************)
(* Notification and operation callbacks of the simulated NT kernel:        *)
(* notify.mjs (process, thread and image routines), callbacks.mjs (object  *)
(* and registry callbacks) and the thunks that register and remove them.   *)
(*                                                                         *)
(* The host fires one event at a time.  The loop over the callbacks runs   *)
(* guest routines, and each may register and remove callbacks of every     *)
(* kind before it returns.  What the loop then sees differs: it goes over  *)
(* a copy for processes, over the list itself for threads, images and      *)
(* objects, and over the list itself until a removal replaces it for the   *)
(* registry.                                                               *)
(***************************************************************************)
EXTENDS Naturals, Sequences, SequencesExt, Kept

CONSTANTS
  Routines,      \* addresses of guest routines
  Registrations, \* OB_CALLBACK_REGISTRATION structures
  Pre,           \* Pre[r], Post[r]: the operation entries of r that have a
  Post,          \*   pre-operation and a post-operation routine, in order
  NoRoutine,     \* nothing is running
  Ps,            \* which of "process", "thread", "image" drivers register for
  UseOb,         \* drivers register object, and registry, callbacks
  UseCm,
  MaxListed      \* bound: callbacks that are registered at once

Kinds == {"process", "thread", "image"}

ASSUME CallbacksAssumption ==
  /\ NoRoutine \notin Routines
  /\ Pre \in [Registrations -> Seq(Routines)]
  /\ Post \in [Registrations -> Seq(Routines)]
  /\ Ps \subseteq Kinds
  /\ UseOb \in BOOLEAN
  /\ UseCm \in BOOLEAN
  /\ MaxListed \in Nat

VARIABLES
  notifyRoutines, \* the three lists of Ps routines
  processEx,      \* notifyKinds.processEx: routines called the Ex way
  obCallbacks,    \* registrations of object callbacks
  cmCallbacks,    \* registry callbacks with their cookies
  loop,           \* the event being delivered
  running,        \* the guest routine on the CPU and how it was called
  creationStatus, \* CreationStatus of the PS_CREATE_NOTIFY_INFO
  blocked         \* what the event reports

lists == <<notifyRoutines, processEx, obCallbacks, cmCallbacks>>
vars == <<lists, loop, running, creationStatus, blocked>>

-----------------------------------------------------------------------------
Statuses == {"none", "success", "warning", "failure"}
CmEntry == [fn : Routines, cookie : 1..MaxListed]
Element == Routines \cup Registrations \cup CmEntry

\* event: what is delivered; next: the index the iterator is at; todo: routines
\* of the element it took last; copy: the array it goes over when that is not
\* the list itself.  Ghosts: reached, the elements it took; stayed, those that
\* have been registered since it began; unread, a routine called the Ex way threw
\* and CreationStatus was not read since.
Loop == [event : Kinds \cup {"none", "pre", "post", "cm"},
         next : Nat \ {0}, todo : Seq(Routines), copied : BOOLEAN,
         copy : Seq(Element), reached : SUBSET Element,
         stayed : SUBSET Element, unread : BOOLEAN]

TypeOK ==
  /\ notifyRoutines \in [Kinds -> Seq(Routines)]
  /\ processEx \subseteq Routines
  /\ obCallbacks \in Seq(Registrations)
  /\ cmCallbacks \in Seq(CmEntry)
  /\ loop \in Loop
  /\ running \in [routine : Routines \cup {NoRoutine}, ex : BOOLEAN]
  /\ creationStatus \in Statuses
  /\ blocked \in BOOLEAN

Idle == [event |-> "none", next |-> 1, todo |-> <<>>, copied |-> FALSE,
         copy |-> <<>>, reached |-> {}, stayed |-> {}, unread |-> FALSE]
Nobody == [routine |-> NoRoutine, ex |-> FALSE]

Init ==
  /\ notifyRoutines = [k \in Kinds |-> <<>>]
  /\ processEx = {}
  /\ obCallbacks = <<>>
  /\ cmCallbacks = <<>>
  /\ loop = Idle
  /\ running = Nobody
  /\ creationStatus = "none"
  /\ blocked = FALSE

-----------------------------------------------------------------------------
(***************************************************************************)
(* Registration and removal, from a driver's entry points or from a        *)
(* callback that is running.                                               *)
(***************************************************************************)

GuestRuns == loop.event = "none" \/ running # Nobody

\* The list an event is about now has this content.
Keep(events, list) ==
  loop' = IF loop.event \in events
          THEN [loop EXCEPT !.stayed = @ \cap ToSet(list)]
          ELSE loop

\* The bound on registered callbacks leaves room for another one.
Room ==
  Len(notifyRoutines["process"]) + Len(notifyRoutines["thread"])
    + Len(notifyRoutines["image"]) + Len(obCallbacks) + Len(cmCallbacks)
      < MaxListed

Others == <<running, creationStatus, blocked>>

SetPs(kind, list) ==
  /\ GuestRuns
  /\ Len(list) > Len(notifyRoutines[kind]) => Room
  /\ notifyRoutines' = [notifyRoutines EXCEPT ![kind] = list]
  /\ Keep({kind}, list)
  /\ UNCHANGED <<obCallbacks, cmCallbacks, Others>>

\* The argument Remove: 0, 1, or another value, since a BOOLEAN leaves the upper
\* bits of its register undefined.  The wrapper of notify.mjs takes only 1 for
\* a removal, the routine behind it every value but 0.
Removes == {0, 1, 2}

TrackKind(cb, remove, ex) ==
  processEx' = CASE remove = 1 -> processEx \ {cb}
                 [] remove # 1 /\ ex -> processEx \cup {cb}
                 [] OTHER -> processEx

PsSetCreateProcessNotifyRoutine(cb, remove) ==
  LET list == notifyRoutines["process"] IN
  /\ SetPs("process", CASE remove # 0 -> RemoveFirst(list, cb)
                        [] remove = 0 /\ Contains(list, cb) -> list
                        [] OTHER -> Append(list, cb))
  /\ TrackKind(cb, remove, FALSE)

\* PsSetCreateProcessNotifyRoutineEx and Ex2 do not look for duplicates.
PsSetCreateProcessNotifyRoutineEx(cb, remove) ==
  LET list == notifyRoutines["process"] IN
  /\ SetPs("process", IF remove # 0 THEN RemoveFirst(list, cb)
                      ELSE Append(list, cb))
  /\ TrackKind(cb, remove, TRUE)

\* PsSetCreateThreadNotifyRoutine(Ex), PsSetLoadImageNotifyRoutine.
PsSetNotifyRoutine(kind, cb) ==
  /\ SetPs(kind, Append(notifyRoutines[kind], cb))
  /\ UNCHANGED processEx

PsRemoveNotifyRoutine(kind, cb) ==
  /\ SetPs(kind, RemoveFirst(notifyRoutines[kind], cb))
  /\ UNCHANGED processEx

SetOb(list) ==
  /\ GuestRuns
  /\ Len(list) > Len(obCallbacks) => Room
  /\ obCallbacks' = list
  /\ Keep({"pre", "post"}, list)
  /\ UNCHANGED <<notifyRoutines, processEx, cmCallbacks, Others>>

ObRegisterCallbacks(r) == SetOb(Append(obCallbacks, r))
ObUnRegisterCallbacks(r) == SetOb(RemoveFirst(obCallbacks, r))

\* Fault: the cookie is the index in the array.
CmRegisterFromZero(fn) ==
  LET cookie == Len(cmCallbacks) IN
  /\ GuestRuns
  /\ Room
  /\ cmCallbacks' = Append(cmCallbacks, [fn |-> fn, cookie |-> cookie])
  /\ UNCHANGED <<notifyRoutines, processEx, obCallbacks, loop, Others>>

\* The cookie is the length of the list plus one, in use or not.
CmRegisterCallback(fn) ==
  LET cookie == Len(cmCallbacks) + 1 IN
  /\ GuestRuns
  /\ Room
  /\ cmCallbacks' = Append(cmCallbacks, [fn |-> fn, cookie |-> cookie])
  /\ UNCHANGED <<notifyRoutines, processEx, obCallbacks, loop, Others>>

\* Every entry with the cookie goes, and what is left is a new array: a loop in
\* progress goes on over the old one.
CmUnRegisterCallback(cookie) ==
  LET list == Kept(cmCallbacks, {i \in DOMAIN cmCallbacks : cmCallbacks[i].cookie # cookie}) IN
  /\ GuestRuns
  /\ cmCallbacks' = list
  /\ loop' = IF loop.event # "cm" THEN loop
             ELSE [loop EXCEPT !.stayed = @ \cap ToSet(list),
                     !.copied = TRUE,
                     !.copy = IF loop.copied THEN @ ELSE cmCallbacks]
  /\ UNCHANGED <<notifyRoutines, processEx, obCallbacks, Others>>

-----------------------------------------------------------------------------
(***************************************************************************)
(* Delivery.                                                               *)
(***************************************************************************)

List(event) ==
  CASE event \in Kinds -> notifyRoutines[event]
    [] event \in {"pre", "post"} -> obCallbacks
    [] event = "cm" -> cmCallbacks
    [] OTHER -> <<>>

Begin(event) == [Idle EXCEPT !.event = event, !.stayed = ToSet(List(event))]

\* Fault: the process list is not copied.
FireInPlace(event) ==
  /\ loop.event = "none"
  /\ loop' = Begin(event)
  /\ UNCHANGED <<lists, running, creationStatus, blocked>>

\* fireProcessNotify copies the list first, the others do not.
Fire(event) ==
  /\ loop.event = "none"
  /\ loop' = [Begin(event) EXCEPT
                !.copied = (event = "process"),
                !.copy = IF event = "process" THEN List(event) ELSE <<>>]
  /\ UNCHANGED <<lists, running, creationStatus, blocked>>

\* The array the loop goes over, as it is now.
Array == IF loop.copied THEN loop.copy ELSE List(loop.event)

\* The routines an element stands for.
RoutinesOf(x) ==
  CASE loop.event \in Kinds -> <<x>>
    [] loop.event = "pre" -> Pre[x]
    [] loop.event = "post" -> Post[x]
    [] OTHER -> <<x.fn>>

Between == loop.event # "none" /\ running = Nobody

TakeNext ==
  /\ Between /\ ~blocked
  /\ loop.todo = <<>>
  /\ loop.next <= Len(Array)
  /\ LET x == Array[loop.next] IN
     loop' = [loop EXCEPT !.next = @ + 1, !.todo = RoutinesOf(x),
                          !.reached = @ \cup {x}]
  /\ UNCHANGED <<lists, running, creationStatus, blocked>>

\* The convention of a process routine is looked up when it is called, and the
\* first one called the Ex way gets the information block built.
CallNext ==
  /\ Between /\ ~blocked
  /\ loop.todo # <<>>
  /\ LET cb == Head(loop.todo)
         ex == loop.event = "process" /\ cb \in processEx
     IN /\ running' = [routine |-> cb, ex |-> ex]
        /\ creationStatus' = IF ex /\ creationStatus = "none" THEN "success"
                             ELSE creationStatus
  /\ loop' = [loop EXCEPT !.todo = Tail(@)]
  /\ UNCHANGED <<lists, blocked>>

\* A routine called the Ex way writes CreationStatus.
WriteCreationStatus(s) ==
  /\ running.ex
  /\ creationStatus' = s
  /\ UNCHANGED <<lists, loop, running, blocked>>

\* Fault: the status is not read after a routine that faulted.
ReturnsUnlessFaulted(s) ==
  /\ running # Nobody
  /\ running' = Nobody
  /\ blocked' = \/ running.ex /\ s # "none" /\ creationStatus = "failure"
                \/ loop.event = "cm" /\ s = "failure"
  /\ loop' = [loop EXCEPT !.unread = @ /\ ~running.ex]
  /\ UNCHANGED <<lists, creationStatus>>

\* The routine returns s, or the call comes back with a fault status ("none").  A
\* failing CreationStatus, faulted or not, blocks the process; a failing return
\* blocks the registry write.
Returns(s) ==
  /\ running # Nobody
  /\ running' = Nobody
  /\ blocked' = \/ running.ex /\ creationStatus = "failure"
                \/ loop.event = "cm" /\ s = "failure"
  /\ loop' = [loop EXCEPT !.unread = @ /\ ~running.ex]
  /\ UNCHANGED <<lists, creationStatus>>

\* An API the routine calls throws in the host.  fireProcessNotify catches that and
\* goes on without a look at CreationStatus; the other events are given up.
Throws ==
  /\ running # Nobody
  /\ running' = Nobody
  /\ loop' = IF loop.event = "process" THEN [loop EXCEPT !.unread = @ \/ running.ex]
             ELSE Idle
  /\ UNCHANGED <<lists, creationStatus, blocked>>

\* The event is reported, and what it kept is let go.  An object operation has a
\* second loop, over the post-operation routines.
Ends ==
  /\ Between
  /\ \/ blocked
     \/ loop.todo = <<>> /\ loop.next > Len(Array)
  /\ loop' = IF loop.event = "pre" THEN Begin("post") ELSE Idle
  /\ creationStatus' = "none"
  /\ blocked' = FALSE
  /\ UNCHANGED <<lists, running>>

-----------------------------------------------------------------------------
PsCall ==
  \/ \E cb \in Routines, remove \in Removes :
       /\ "process" \in Ps
       /\ \/ PsSetCreateProcessNotifyRoutine(cb, remove)
          \/ PsSetCreateProcessNotifyRoutineEx(cb, remove)
  \/ \E kind \in Ps \ {"process"}, cb \in Routines :
       PsSetNotifyRoutine(kind, cb) \/ PsRemoveNotifyRoutine(kind, cb)

ObCall ==
  UseOb /\ \E r \in Registrations :
             ObRegisterCallbacks(r) \/ ObUnRegisterCallbacks(r)

CmCall ==
  UseCm /\ (\/ \E fn \in Routines : CmRegisterCallback(fn)
            \/ \E cookie \in 1..MaxListed : CmUnRegisterCallback(cookie))

Events == Ps \cup (IF UseOb THEN {"pre"} ELSE {})
             \cup (IF UseCm THEN {"cm"} ELSE {})

Next ==
  \/ PsCall \/ ObCall \/ CmCall
  \/ \E event \in Events : Fire(event)
  \/ TakeNext
  \/ CallNext
  \/ \E s \in {"success", "warning", "failure"} : WriteCreationStatus(s)
  \/ \E s \in {"none", "success", "failure"} : Returns(s)
  \/ Throws
  \/ Ends

Spec == Init /\ [][Next]_vars

-----------------------------------------------------------------------------
(***************************************************************************)
(* Properties.                                                             *)
(***************************************************************************)

\* A loop over the events that no callback left, by a refusal or a throw, has reached
\* every callback that was registered when it began and still is.
ReachesAll(events) ==
  loop.event \in events /\ loop'.event # loop.event /\ ~blocked /\ running = Nobody
    => loop.stayed \subseteq loop.reached

\* fireProcessNotify and fireCmSetValueKey skip nobody, whatever the routines
\* they call register and remove while the loop is on its way.
EveryRoutineNotified == [][ReachesAll({"process", "cm"})]_vars

\* A process creation is reported blocked exactly when the information block was
\* left with a failing status: no routine after the one that refused changes
\* the verdict, and none is overlooked, also if routines remove themselves,
\* fault, or change convention while the notification is delivered.  What a routine
\* wrote that threw in the host counts only if another one called the Ex way comes
\* back after it.
BlockedIsFinal ==
  [][loop.event = "process" /\ loop'.event = "none" =>
       (blocked <=> creationStatus = "failure" /\ ~loop.unread)]_vars

-----------------------------------------------------------------------------
(***************************************************************************)
(* What a comment says, and the code does not do.                          *)
(***************************************************************************)

\* callbacks.mjs, fireObOperation: every registration that stays registered is
\* reached by the operation.
EveryRegistrationReached == [][ReachesAll({"pre", "post"})]_vars

=============================================================================

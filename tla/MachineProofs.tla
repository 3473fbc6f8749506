----------------------------- MODULE MachineProofs -----------------------------
(***************************************************************************)
(* What TLAPS proves of the machine around the interpreter: the kernel's   *)
(* callbacks, the list of processes, the search for an exception handler,  *)
(* and what instructions that fault in the middle leave behind, for every  *)
(* set of routines, processes and function tables, memory of any size and  *)
(* every count.                                                            *)
(***************************************************************************)
EXTENDS Callbacks, ProcessList, Seh, CpuMem, StackLemmas, FiniteSetTheorems, TLAPS

-----------------------------------------------------------------------------
(***************************************************************************)
(* Callbacks (Callbacks).                                                  *)
(***************************************************************************)
\* loop is a record of the fields of Loop, whatever they hold.
LoopShape ==
  loop = [event |-> loop.event, next |-> loop.next, todo |-> loop.todo,
          copied |-> loop.copied, copy |-> loop.copy, reached |-> loop.reached,
          stayed |-> loop.stayed, unread |-> loop.unread]

\* The verdict and the status from one routine to the next: nothing is left over when
\* no event is delivered; between routines they agree; and a routine runs only while
\* nobody has refused, and can only refuse when it was called the Ex way.
VerdictInv ==
  /\ LoopShape
  /\ blocked \in BOOLEAN /\ loop.unread \in BOOLEAN
  /\ loop.event = "none" => running = Nobody /\ ~blocked
  /\ loop.event # "process" => creationStatus = "none" /\ ~running.ex
  /\ running # Nobody => ~blocked
  /\ loop.event = "process" =>
       /\ running = Nobody => (blocked <=> creationStatus = "failure" /\ ~loop.unread)
       /\ running # Nobody => running.ex \/ creationStatus # "failure" \/ loop.unread

\* Nothing is delivered at first.
LEMMA VerdictInit == Init => VerdictInv
<1> SUFFICES ASSUME Init
             PROVE  VerdictInv
  OBVIOUS
<1>1. LoopShape /\ loop.event = "none" /\ loop.unread \in BOOLEAN
  BY DEF Init, LoopShape, Idle
<1>2. running = Nobody /\ running.ex = FALSE /\ creationStatus = "none"
  BY DEF Init, Nobody
<1>3. blocked = FALSE
  BY DEF Init
<1> QED  BY <1>1, <1>2, <1>3 DEF VerdictInv

\* Registering and removing callbacks leaves the event and its verdict alone.
LEMMA GuestCallsKeep ==
  ASSUME VerdictInv, PsCall \/ ObCall \/ CmCall
  PROVE  VerdictInv'
<1> USE DEF LoopShape
<1>1. UNCHANGED <<running, creationStatus, blocked>>
  BY DEF PsCall, ObCall, CmCall, PsSetCreateProcessNotifyRoutine,
         PsSetCreateProcessNotifyRoutineEx, PsSetNotifyRoutine, PsRemoveNotifyRoutine, SetPs,
         ObRegisterCallbacks, ObUnRegisterCallbacks, SetOb, CmRegisterCallback,
         CmUnRegisterCallback, Others
<1>2. ASSUME NEW events, NEW list, Keep(events, list)
      PROVE  LoopShape' /\ loop'.event = loop.event /\ loop'.unread = loop.unread
  BY <1>2 DEF Keep, VerdictInv
<1>3. LoopShape' /\ loop'.event = loop.event /\ loop'.unread = loop.unread
  <2>1. CASE PsCall
    BY <1>2, <2>1 DEF PsCall, PsSetCreateProcessNotifyRoutine,
       PsSetCreateProcessNotifyRoutineEx, PsSetNotifyRoutine, PsRemoveNotifyRoutine, SetPs
  <2>2. CASE ObCall
    BY <1>2, <2>2 DEF ObCall, ObRegisterCallbacks, ObUnRegisterCallbacks, SetOb
  <2>3. ASSUME NEW fn, CmRegisterCallback(fn)
        PROVE  LoopShape' /\ loop'.event = loop.event /\ loop'.unread = loop.unread
    BY <2>3 DEF CmRegisterCallback, VerdictInv
  <2>4. ASSUME NEW cookie, CmUnRegisterCallback(cookie)
        PROVE  LoopShape' /\ loop'.event = loop.event /\ loop'.unread = loop.unread
    BY <2>4 DEF CmUnRegisterCallback, VerdictInv
  <2> QED  BY <2>1, <2>2, <2>3, <2>4 DEF CmCall
<1> QED  BY <1>1, <1>3 DEF VerdictInv, Nobody

\* Every step.
LEMMA VerdictNext == VerdictInv /\ [Next]_vars => VerdictInv'
<1> SUFFICES ASSUME VerdictInv, [Next]_vars
             PROVE  VerdictInv'
  OBVIOUS
<1> USE DEF VerdictInv, LoopShape
<1>1. CASE PsCall \/ ObCall \/ CmCall
  BY <1>1, GuestCallsKeep
<1>2. ASSUME NEW event \in Events, Fire(event)
      PROVE  VerdictInv'
  <2>1. LoopShape' /\ loop'.event = event /\ loop'.unread = FALSE
    BY <1>2 DEF Fire, Begin, Idle
  <2>2. event # "none"
    BY CallbacksAssumption DEF Events, Kinds
  <2> QED  BY <1>2, <2>1, <2>2 DEF Fire, Nobody
<1>3. CASE TakeNext
  <2>1. LoopShape' /\ loop'.event = loop.event /\ loop'.unread = loop.unread
    BY <1>3 DEF TakeNext
  <2> QED  BY <1>3, <2>1 DEF TakeNext, Between, Nobody
<1>4. CASE CallNext
  <2>1. LoopShape' /\ loop'.event = loop.event /\ loop.event # "none"
        /\ loop'.unread = loop.unread
    BY <1>4 DEF CallNext, Between
  <2>2. blocked' = FALSE
    BY <1>4 DEF CallNext
  <2>4. loop.event # "process" => creationStatus' = "none" /\ ~running'.ex
    BY <1>4 DEF CallNext, Between
  <2>3. loop.event = "process" => creationStatus' # "failure" \/ loop.unread
    BY <1>4 DEF CallNext, Between
  <2> QED  BY <2>1, <2>2, <2>3, <2>4
<1>5. ASSUME NEW s, WriteCreationStatus(s)
      PROVE  VerdictInv'
  BY <1>5 DEF WriteCreationStatus, Nobody
<1>6. ASSUME NEW s, Returns(s)
      PROVE  VerdictInv'
  <2>1. LoopShape' /\ loop'.event = loop.event
        /\ loop'.unread = (loop.unread /\ ~running.ex)
    BY <1>6 DEF Returns
  <2> QED  BY <1>6, <2>1 DEF Returns, Nobody
<1>t. CASE Throws
  <2>1. CASE loop.event = "process"
    <3>1. LoopShape' /\ loop'.event = "process"
          /\ loop'.unread = (loop.unread \/ running.ex)
      BY <1>t, <2>1 DEF Throws
    <3> QED  BY <1>t, <2>1, <3>1 DEF Throws, Nobody
  <2>2. CASE loop.event # "process"
    <3>1. loop' = Idle /\ loop.event \notin {"none", "process"}
      BY <1>t, <2>2 DEF Throws, Nobody
    <3>2. LoopShape' /\ loop'.event = "none" /\ loop'.unread \in BOOLEAN
      BY <3>1 DEF Idle
    <3>3. running' = Nobody /\ running'.ex = FALSE /\ creationStatus' = "none"
      BY <1>t, <2>2, <3>1 DEF Throws, Nobody
    <3>4. blocked' \in BOOLEAN /\ ~blocked'
      BY <1>t DEF Throws
    <3> QED  BY <3>2, <3>3, <3>4
  <2> QED  BY <2>1, <2>2
<1>7. CASE Ends
  <2>1. LoopShape' /\ loop'.event \in {"none", "post"} /\ loop'.unread = FALSE
    BY <1>7 DEF Ends, Begin, Idle
  <2> QED  BY <1>7, <2>1 DEF Ends, Between, Nobody
<1>8. CASE UNCHANGED vars
  BY <1>8 DEF vars, Nobody
<1> QED
  BY <1>1, <1>2, <1>3, <1>4, <1>5, <1>6, <1>7, <1>8, <1>t DEF Next

\* Only the end of an event clears it, and it does so between two routines.
LEMMA EventEnds ==
  ASSUME VerdictInv, [Next]_vars, loop.event = "process", loop'.event = "none"
  PROVE  running = Nobody
<1> USE DEF VerdictInv, LoopShape
<1>1. CASE PsCall \/ ObCall \/ CmCall
  <2>1. ASSUME NEW events, NEW list, Keep(events, list)
        PROVE  loop'.event = loop.event
    BY <2>1 DEF Keep
  <2>2. loop'.event = loop.event
    <3>1. CASE PsCall
      BY <2>1, <3>1 DEF PsCall, PsSetCreateProcessNotifyRoutine,
         PsSetCreateProcessNotifyRoutineEx, PsSetNotifyRoutine, PsRemoveNotifyRoutine, SetPs
    <3>2. CASE ObCall
      BY <2>1, <3>2 DEF ObCall, ObRegisterCallbacks, ObUnRegisterCallbacks, SetOb
    <3>3. ASSUME NEW fn, CmRegisterCallback(fn)
          PROVE  loop'.event = loop.event
      BY <3>3 DEF CmRegisterCallback
    <3>4. ASSUME NEW cookie, CmUnRegisterCallback(cookie)
          PROVE  loop'.event = loop.event
      BY <3>4 DEF CmUnRegisterCallback
    <3> QED  BY <1>1, <3>1, <3>2, <3>3, <3>4 DEF CmCall
  <2> QED  BY <2>2
<1>2. CASE \/ \E event \in Events : Fire(event)
           \/ TakeNext \/ CallNext
  BY <1>2 DEF Fire, TakeNext, CallNext, Between
<1>3. CASE \/ \E s \in {"success", "warning", "failure"} : WriteCreationStatus(s)
           \/ \E s \in {"none", "success", "failure"} : Returns(s)
           \/ Throws \/ UNCHANGED vars
  <2>1. loop'.event = loop.event
    BY <1>3 DEF WriteCreationStatus, Returns, Throws, vars
  <2> QED  BY <2>1
<1>4. CASE Ends
  BY <1>4 DEF Ends, Between
<1> QED  BY <1>1, <1>2, <1>3, <1>4 DEF Next

\* A process creation is reported blocked exactly when CreationStatus was left failing
\* and read after that, whatever callbacks do to each other in between.
THEOREM VerdictStands == Spec => BlockedIsFinal
<1>1. VerdictInv /\ [Next]_vars =>
        (loop.event = "process" /\ loop'.event = "none" =>
           (blocked <=> creationStatus = "failure" /\ ~loop.unread))
  BY EventEnds DEF VerdictInv
<1> QED  BY <1>1, VerdictInit, VerdictNext, PTL DEF Spec, BlockedIsFinal

-----------------------------------------------------------------------------
(* Who is called.  Every loop over processes goes over a copy, one over registry  *)
(* callbacks over an array that grows until a removal leaves it to the loop.      *)

\* The array of a loop over processes or registry callbacks is a copy, or grows; the
\* loop has taken the elements before its index, and who stayed is in the array.
LoopInv ==
  /\ loop.event = "process" => loop.copied /\ loop.copy \in Seq(Routines)
  /\ loop.event = "cm" /\ loop.copied => loop.copy \in Seq(CmEntry)
  /\ loop.event \notin {"process", "cm"} => ~loop.copied
  /\ loop.event \in {"process", "cm"} =>
       /\ loop.next <= Len(Array) + 1
       /\ loop.reached = {Array[i] : i \in 1..(loop.next - 1)}
       /\ loop.stayed \subseteq {Array[i] : i \in 1..Len(Array)}
NotifyInv == TypeOK /\ LoopInv

\* What the loop can go over.
LEMMA ArrayElements ==
  ASSUME NotifyInv, loop.event # "none"
  PROVE  /\ Len(Array) \in Nat
         /\ \A i \in 1..Len(Array) : Array[i] \in Element /\ RoutinesOf(Array[i]) \in Seq(Routines)
<1>e. loop.event \in Kinds \cup {"pre", "post", "cm"} /\ "cm" \notin Kinds
      /\ "pre" \notin Kinds /\ "post" \notin Kinds
  BY DEF Loop, Kinds, NotifyInv, TypeOK
<1>a. /\ notifyRoutines \in [Kinds -> Seq(Routines)] /\ obCallbacks \in Seq(Registrations)
      /\ cmCallbacks \in Seq(CmEntry) /\ LoopInv /\ loop.copied \in BOOLEAN
  BY DEF NotifyInv, TypeOK, Loop
<1>b. /\ loop.copied => Array = loop.copy
      /\ ~loop.copied => Array = List(loop.event)
  BY DEF Array
<1>1. CASE loop.event \in Kinds
  <2>1. Array \in Seq(Routines)
    <3>1. CASE loop.event = "process"
      <4>1. loop.copied /\ loop.copy \in Seq(Routines)
        BY <1>a, <3>1 DEF LoopInv
      <4> QED  BY <1>b, <4>1
    <3>2. CASE loop.event # "process"
      <4>1. loop.event \notin {"process", "cm"}
        BY <1>1, <1>e, <3>2
      <4>2. Array = List(loop.event)
        BY <1>a, <1>b, <4>1 DEF LoopInv
      <4>3. List(loop.event) = notifyRoutines[loop.event]
        BY <1>1, <1>e DEF List
      <4> QED  BY <1>1, <1>a, <4>2, <4>3
    <3> QED  BY <3>1, <3>2
  <2>2. \A x \in Routines : RoutinesOf(x) = <<x>> /\ <<x>> \in Seq(Routines)
    <3>1. \A x \in Routines : <<x>> \in Seq(Routines)
      OBVIOUS
    <3> QED  BY <1>1, <1>e, <3>1 DEF RoutinesOf
  <2>3. Routines \subseteq Element
    BY DEF Element
  <2> QED  BY <2>1, <2>2, <2>3, Elements
<1>2. CASE loop.event \in {"pre", "post"}
  <2>1. Array \in Seq(Registrations)
    <3>1. ~loop.copied
      BY <1>2, <1>a DEF LoopInv
    <3>2. List(loop.event) = obCallbacks
      BY <1>2, <1>e DEF List
    <3> QED  BY <1>a, <1>b, <3>1, <3>2
  <2>2. \A x \in Registrations : RoutinesOf(x) \in Seq(Routines)
    BY <1>2, CallbacksAssumption DEF RoutinesOf, Kinds
  <2>3. Registrations \subseteq Element
    BY DEF Element
  <2> QED  BY <2>1, <2>2, <2>3, Elements
<1>3. CASE loop.event = "cm"
  <2>1. Array \in Seq(CmEntry)
    <3>1. List(loop.event) = cmCallbacks
      BY <1>3, <1>e DEF List
    <3>2. loop.copied => loop.copy \in Seq(CmEntry)
      BY <1>3, <1>a DEF LoopInv
    <3> QED  BY <1>a, <1>b, <3>1, <3>2
  <2>2. \A x \in CmEntry : RoutinesOf(x) = <<x.fn>> /\ <<x.fn>> \in Seq(Routines)
    <3>1. \A x \in CmEntry : x.fn \in Routines
      BY DEF CmEntry
    <3>2. \A x \in CmEntry : RoutinesOf(x) = <<x.fn>>
      BY <1>3 DEF RoutinesOf, Kinds
    <3>3. \A r \in Routines : <<r>> \in Seq(Routines)
      OBVIOUS
    <3> QED  BY <3>1, <3>2, <3>3
  <2>3. CmEntry \subseteq Element
    BY DEF Element
  <2> QED  BY <2>1, <2>2, <2>3, Elements
<1> QED  BY <1>e, <1>1, <1>2, <1>3

\* Nothing is registered at first.
LEMMA NotifyInit == Init => NotifyInv
<1> SUFFICES ASSUME Init
             PROVE  NotifyInv
  OBVIOUS
<1>1. Idle \in Loop
  BY DEF Idle, Loop
<1>2. Nobody \in [routine : Routines \cup {NoRoutine}, ex : BOOLEAN]
  BY DEF Nobody
<1>3. TypeOK
  <2>1. notifyRoutines \in [Kinds -> Seq(Routines)] /\ processEx \subseteq Routines
    BY DEF Init
  <2>2. obCallbacks \in Seq(Registrations) /\ cmCallbacks \in Seq(CmEntry)
    BY DEF Init
  <2>3. loop \in Loop /\ running \in [routine : Routines \cup {NoRoutine}, ex : BOOLEAN]
    BY <1>1, <1>2 DEF Init
  <2>4. creationStatus \in Statuses /\ blocked \in BOOLEAN
    BY DEF Init, Statuses
  <2> QED  BY <2>1, <2>2, <2>3, <2>4 DEF TypeOK
<1>4. LoopInv
  BY DEF Init, LoopInv, Idle
<1> QED  BY <1>3, <1>4 DEF NotifyInv

\* Somebody may no longer stay; the array is the same.
LEMMA KeepKeeps ==
  ASSUME NotifyInv, NEW events, NEW list, Keep(events, list), Array' = Array
  PROVE  loop' \in Loop /\ LoopInv'
<1>1. loop \in Loop
  BY DEF NotifyInv, TypeOK
<1>2. PICK s \in SUBSET Element : loop' = [loop EXCEPT !.stayed = s] /\ s \subseteq loop.stayed
  <2>1. CASE loop.event \in events
    <3>1. loop' = [loop EXCEPT !.stayed = loop.stayed \cap ToSet(list)]
      BY <2>1 DEF Keep
    <3>2. loop.stayed \cap ToSet(list) \in SUBSET Element
      BY <1>1 DEF Loop
    <3> QED  BY <3>1, <3>2
  <2>2. CASE loop.event \notin events
    <3>1. loop' = [loop EXCEPT !.stayed = loop.stayed] /\ loop.stayed \in SUBSET Element
      BY <1>1, <2>2 DEF Keep, Loop
    <3> QED  BY <3>1
  <2> QED  BY <2>1, <2>2
<1>3. /\ loop' \in Loop /\ loop'.event = loop.event /\ loop'.next = loop.next
      /\ loop'.copied = loop.copied /\ loop'.copy = loop.copy
      /\ loop'.reached = loop.reached /\ loop'.stayed \subseteq loop.stayed
  BY <1>1, <1>2 DEF Loop
<1>4. PICK a : a = Array /\ a = Array'
  OBVIOUS
<1>5. LoopInv'
  <2> DEFINE inv(e, n, cd, c, r, st) ==
        /\ e = "process" => cd /\ c \in Seq(Routines)
        /\ e = "cm" /\ cd => c \in Seq(CmEntry)
        /\ e \notin {"process", "cm"} => ~cd
        /\ e \in {"process", "cm"} =>
             /\ n <= Len(a) + 1
             /\ r = {a[i] : i \in 1..(n - 1)}
             /\ st \subseteq {a[i] : i \in 1..Len(a)}
  <2>1. inv(loop.event, loop.next, loop.copied, loop.copy, loop.reached, loop.stayed)
    BY <1>4 DEF NotifyInv, LoopInv
  <2>2. inv(loop'.event, loop'.next, loop'.copied, loop'.copy, loop'.reached, loop'.stayed)
    <3>1. \A st : st \subseteq loop.stayed =>
            inv(loop.event, loop.next, loop.copied, loop.copy, loop.reached, st)
      BY <2>1
    <3> HIDE DEF inv
    <3> QED  BY <1>3, <3>1
  <2> QED  BY <1>4, <2>2 DEF LoopInv
<1> QED  BY <1>3, <1>5

\* The lists of Ps routines.
LEMMA SetPsKeeps ==
  ASSUME NotifyInv, NEW kind \in Kinds, NEW list \in Seq(Routines), SetPs(kind, list),
         processEx' \subseteq Routines
  PROVE  NotifyInv'
<1>a. /\ notifyRoutines \in [Kinds -> Seq(Routines)] /\ loop \in Loop
      /\ LoopInv /\ kind # "none"
  BY DEF NotifyInv, TypeOK, Kinds
<1>b. /\ notifyRoutines' = [notifyRoutines EXCEPT ![kind] = list] /\ Keep({kind}, list)
      /\ UNCHANGED <<obCallbacks, cmCallbacks>>
  BY DEF SetPs
<1>c. /\ loop'.copied = loop.copied /\ loop'.copy = loop.copy /\ loop'.event = loop.event
  BY <1>a, <1>b DEF Keep, Loop
<1>1. Array' = Array \/ (loop.event = kind /\ kind # "process")
  <2>1. CASE loop.event = kind /\ kind = "process"
    <3>1. loop.copied
      BY <1>a, <2>1 DEF LoopInv
    <3> QED  BY <1>c, <3>1 DEF Array
  <2>2. CASE loop.event # kind
    <3>1. List(loop.event)' = List(loop.event)
      <4>1. \A k \in Kinds : k # kind => notifyRoutines'[k] = notifyRoutines[k]
        BY <1>a, <1>b
      <4> QED  BY <1>b, <1>c, <2>2, <4>1 DEF List
    <3> QED  BY <1>c, <3>1 DEF Array
  <2> QED  BY <2>1, <2>2
<1>2. loop' \in Loop /\ LoopInv'
  <2>1. CASE Array' = Array
    BY <2>1, KeepKeeps DEF SetPs
  <2>2. CASE loop.event = kind /\ kind # "process"
    <3>1. loop' = [loop EXCEPT !.stayed = loop.stayed \cap ToSet(list)] /\ loop \in Loop
      BY <2>2 DEF SetPs, Keep, NotifyInv, TypeOK
    <3>2. loop' \in Loop /\ loop'.event = kind /\ loop'.copied = loop.copied
      BY <2>2, <3>1 DEF Loop
    <3> QED  BY <2>2, <3>2 DEF NotifyInv, LoopInv, Kinds
  <2> QED  BY <1>1, <2>1, <2>2
<1> QED  BY <1>2 DEF SetPs, Others, NotifyInv, TypeOK

\* Each way to set a Ps routine.
LEMMA PsCallKeeps == ASSUME NotifyInv, PsCall PROVE NotifyInv'
<1>1. /\ notifyRoutines \in [Kinds -> Seq(Routines)] /\ processEx \subseteq Routines
      /\ "process" \in Kinds /\ Ps \subseteq Kinds
  BY CallbacksAssumption DEF NotifyInv, TypeOK, Kinds
<1>2. \A k \in Kinds, cb \in Routines :
        /\ Append(notifyRoutines[k], cb) \in Seq(Routines)
        /\ RemoveFirst(notifyRoutines[k], cb) \in Seq(Routines)
  BY <1>1, FirstTakenOut, AppendProperties
<1>3. ASSUME NEW cb \in Routines, NEW remove, NEW ex, TrackKind(cb, remove, ex)
      PROVE  processEx' \subseteq Routines
  BY <1>1, <1>3 DEF TrackKind
<1>4. ASSUME NEW cb \in Routines, NEW remove \in Removes,
             PsSetCreateProcessNotifyRoutine(cb, remove)
      PROVE  NotifyInv'
  <2>1. PICK list : list = CASE remove # 0 -> RemoveFirst(notifyRoutines["process"], cb)
                        [] remove = 0 /\ Contains(notifyRoutines["process"], cb) -> notifyRoutines["process"]
                        [] OTHER -> Append(notifyRoutines["process"], cb)
    OBVIOUS
  <2>2. SetPs("process", list)
    BY <1>4, <2>1 DEF PsSetCreateProcessNotifyRoutine
  <2>3. list \in Seq(Routines)
    BY <1>1, <1>2, <2>1
  <2>4. processEx' \subseteq Routines
    BY <1>3, <1>4 DEF PsSetCreateProcessNotifyRoutine
  <2> QED  BY <1>1, <2>2, <2>3, <2>4, SetPsKeeps
<1>5. ASSUME NEW cb \in Routines, NEW remove \in Removes,
             PsSetCreateProcessNotifyRoutineEx(cb, remove)
      PROVE  NotifyInv'
  <2>1. PICK list : list = IF remove # 0 THEN RemoveFirst(notifyRoutines["process"], cb)
                           ELSE Append(notifyRoutines["process"], cb)
    OBVIOUS
  <2>2. SetPs("process", list)
    BY <1>5, <2>1 DEF PsSetCreateProcessNotifyRoutineEx
  <2>3. list \in Seq(Routines)
    BY <1>1, <1>2, <2>1
  <2>4. processEx' \subseteq Routines
    BY <1>3, <1>5 DEF PsSetCreateProcessNotifyRoutineEx
  <2> QED  BY <1>1, <2>2, <2>3, <2>4, SetPsKeeps
<1>6. ASSUME NEW kind \in Ps, NEW cb \in Routines,
             PsSetNotifyRoutine(kind, cb) \/ PsRemoveNotifyRoutine(kind, cb)
      PROVE  NotifyInv'
  <2>1. PICK list \in Seq(Routines) : SetPs(kind, list)
    BY <1>1, <1>2, <1>6 DEF PsSetNotifyRoutine, PsRemoveNotifyRoutine
  <2>2. processEx' \subseteq Routines
    BY <1>1, <1>6 DEF PsSetNotifyRoutine, PsRemoveNotifyRoutine
  <2> QED  BY <1>1, <2>1, <2>2, SetPsKeeps
<1> QED  BY <1>4, <1>5, <1>6 DEF PsCall

\* Object callbacks: their loops go over the list itself.
LEMMA ObCallKeeps == ASSUME NotifyInv, ObCall PROVE NotifyInv'
<1>1. obCallbacks \in Seq(Registrations) /\ loop \in Loop /\ LoopInv
  BY DEF NotifyInv, TypeOK
<1>2. PICK list \in Seq(Registrations) : SetOb(list)
  BY <1>1, FirstTakenOut, AppendProperties DEF ObCall, ObRegisterCallbacks, ObUnRegisterCallbacks
<1>3. /\ obCallbacks' = list /\ Keep({"pre", "post"}, list)
      /\ UNCHANGED <<notifyRoutines, processEx, cmCallbacks, running, creationStatus, blocked>>
  BY <1>2 DEF SetOb, Others
<1>4. loop' \in Loop /\ LoopInv'
  <2>1. CASE loop.event \in {"pre", "post"}
    <3>1. loop' = [loop EXCEPT !.stayed = loop.stayed \cap ToSet(list)]
      BY <1>3, <2>1 DEF Keep
    <3>2. loop' \in Loop /\ loop'.event = loop.event /\ loop'.copied = loop.copied
      BY <1>1, <3>1 DEF Loop
    <3> QED  BY <1>1, <2>1, <3>2 DEF LoopInv
  <2>2. CASE loop.event \notin {"pre", "post"}
    <3>1. loop' = loop
      BY <1>3, <2>2 DEF Keep
    <3>2. List(loop.event)' = List(loop.event)
      BY <1>3, <2>2, <3>1 DEF List
    <3>3. Array' = Array
      BY <3>1, <3>2 DEF Array
    <3> QED  BY <1>3, <3>3, KeepKeeps
  <2> QED  BY <2>1, <2>2
<1> QED  BY <1>2, <1>3, <1>4 DEF NotifyInv, TypeOK

\* A new registry callback: the array grows, unless a removal replaced it.
LEMMA CmRegisterKeeps ==
  ASSUME NotifyInv, NEW fn \in Routines, CmRegisterCallback(fn)
  PROVE  NotifyInv'
<1>1. /\ notifyRoutines \in [Kinds -> Seq(Routines)] /\ obCallbacks \in Seq(Registrations)
      /\ cmCallbacks \in Seq(CmEntry) /\ loop \in Loop /\ LoopInv /\ MaxListed \in Nat
  BY CallbacksAssumption DEF NotifyInv, TypeOK
<1>2. PICK c : c = [fn |-> fn, cookie |-> Len(cmCallbacks) + 1]
  OBVIOUS
<1>3. /\ Room /\ cmCallbacks' = Append(cmCallbacks, c)
      /\ UNCHANGED <<notifyRoutines, processEx, obCallbacks, loop, running, creationStatus, blocked>>
  BY <1>2 DEF CmRegisterCallback, Others
<1>4. c \in CmEntry
  <2>1. /\ Len(notifyRoutines["process"]) \in Nat /\ Len(notifyRoutines["thread"]) \in Nat
        /\ Len(notifyRoutines["image"]) \in Nat /\ Len(obCallbacks) \in Nat
        /\ Len(cmCallbacks) \in Nat
    <3>1. \A k \in Kinds : Len(notifyRoutines[k]) \in Nat
      BY <1>1, LenProperties
    <3> QED  BY <1>1, <3>1, LenProperties DEF Kinds
  <2>2. PICK p \in Nat, t \in Nat, i \in Nat, o \in Nat, n \in Nat :
          /\ p = Len(notifyRoutines["process"]) /\ t = Len(notifyRoutines["thread"])
          /\ i = Len(notifyRoutines["image"]) /\ o = Len(obCallbacks) /\ n = Len(cmCallbacks)
    BY <2>1
  <2>3. p + t + i + o + n < MaxListed
    BY <1>3, <2>2 DEF Room
  <2>4. n + 1 \in 1..MaxListed
    BY <1>1, <2>3
  <2> QED  BY <1>2, <2>2, <2>4 DEF CmEntry
<1>5. /\ cmCallbacks' \in Seq(CmEntry) /\ Len(cmCallbacks) \in Nat
      /\ Len(cmCallbacks') = Len(cmCallbacks) + 1
      /\ \A i \in 1..Len(cmCallbacks) : cmCallbacks'[i] = cmCallbacks[i]
  BY <1>1, <1>3, <1>4, Appended
<1>6. TypeOK'
  BY <1>3, <1>5 DEF NotifyInv, TypeOK
<1>7. LoopInv'
  <2>1. CASE loop.event = "cm" /\ ~loop.copied
    <3>1. List("cm") = cmCallbacks /\ List("cm")' = cmCallbacks'
      BY DEF List, Kinds
    <3>2. Array = cmCallbacks /\ Array' = cmCallbacks'
      BY <1>3, <2>1, <3>1 DEF Array
    <3>3. /\ loop.next \in Nat \ {0} /\ loop.next <= Len(cmCallbacks) + 1
          /\ loop.reached = {cmCallbacks[i] : i \in 1..(loop.next - 1)}
          /\ loop.stayed \subseteq {cmCallbacks[i] : i \in 1..Len(cmCallbacks)}
      BY <1>1, <2>1, <3>2 DEF LoopInv, Loop
    <3>4. /\ 1..(loop.next - 1) \subseteq 1..Len(cmCallbacks)
          /\ 1..Len(cmCallbacks) \subseteq 1..Len(cmCallbacks')
      BY <1>5, <3>3
    <3>5. {cmCallbacks[i] : i \in 1..(loop.next - 1)} = {cmCallbacks'[i] : i \in 1..(loop.next - 1)}
      BY <1>5, <3>4
    <3>6. {cmCallbacks[i] : i \in 1..Len(cmCallbacks)}
            \subseteq {cmCallbacks'[i] : i \in 1..Len(cmCallbacks')}
      BY <1>5, <3>4
    <3>7. loop.next <= Len(cmCallbacks') + 1
      BY <1>5, <3>3
    <3>8. /\ loop.reached = {cmCallbacks'[i] : i \in 1..(loop.next - 1)}
          /\ loop.stayed \subseteq {cmCallbacks'[i] : i \in 1..Len(cmCallbacks')}
      BY <3>3, <3>5, <3>6
    <3> QED  BY <1>3, <2>1, <3>2, <3>7, <3>8 DEF LoopInv
  <2>2. CASE ~(loop.event = "cm" /\ ~loop.copied)
    <3>1. Array' = Array
      <4>1. CASE loop.copied
        BY <1>3, <4>1 DEF Array
      <4>2. CASE ~loop.copied
        <5>1. loop.event # "cm"
          BY <2>2, <4>2
        <5>2. List(loop.event)' = List(loop.event)
          BY <1>3, <5>1 DEF List
        <5> QED  BY <1>3, <4>2, <5>2 DEF Array
      <4> QED  BY <4>1, <4>2
    <3> QED  BY <1>1, <1>3, <3>1 DEF LoopInv
  <2> QED  BY <2>1, <2>2
<1> QED  BY <1>6, <1>7 DEF NotifyInv

\* A removal: the loop goes on over the array there was.
LEMMA CmUnRegisterKeeps ==
  ASSUME NotifyInv, NEW cookie, CmUnRegisterCallback(cookie)
  PROVE  NotifyInv'
<1>1. cmCallbacks \in Seq(CmEntry) /\ loop \in Loop /\ LoopInv
  BY DEF NotifyInv, TypeOK
<1>2. PICK list \in Seq(CmEntry) :
        list = Kept(cmCallbacks, {i \in DOMAIN cmCallbacks : cmCallbacks[i].cookie # cookie})
  BY <1>1, KeptProperties
<1>3. /\ cmCallbacks' = list
      /\ loop' = IF loop.event # "cm" THEN loop
                 ELSE [loop EXCEPT !.stayed = @ \cap ToSet(list),
                         !.copied = TRUE,
                         !.copy = IF loop.copied THEN @ ELSE cmCallbacks]
      /\ UNCHANGED <<notifyRoutines, processEx, obCallbacks, running, creationStatus, blocked>>
  BY <1>2 DEF CmUnRegisterCallback, Others
<1>4. loop' \in Loop /\ LoopInv'
  <2>1. CASE loop.event # "cm"
    <3>1. loop' = loop
      BY <1>3, <2>1
    <3>2. List(loop.event)' = List(loop.event)
      BY <1>3, <2>1, <3>1 DEF List
    <3>3. Array' = Array
      BY <3>1, <3>2 DEF Array
    <3> QED  BY <1>1, <2>1, <3>1, <3>3 DEF LoopInv
  <2>2. CASE loop.event = "cm"
    <3>1. List("cm") = cmCallbacks
      BY DEF List, Kinds
    <3>2. PICK a : a = Array
      OBVIOUS
    <3>3. a \in Seq(CmEntry) /\ a = (IF loop.copied THEN loop.copy ELSE cmCallbacks)
      BY <1>1, <2>2, <3>1, <3>2 DEF Array, LoopInv
    <3>4. PICK st \in SUBSET Element :
            /\ st \subseteq loop.stayed
            /\ loop' = [loop EXCEPT !.stayed = st, !.copied = TRUE, !.copy = a]
      <4>1. loop.stayed \cap ToSet(list) \in SUBSET Element
        BY <1>1 DEF Loop
      <4> QED  BY <1>3, <2>2, <3>3, <4>1
    <3>5. a \in Seq(Element)
      <4>1. CmEntry \subseteq Element
        BY DEF Element
      <4> QED  BY <3>3, <4>1, SeqMonotonic
    <3>6. /\ loop' \in Loop /\ loop'.event = "cm" /\ loop'.copied = TRUE /\ loop'.copy = a
          /\ loop'.next = loop.next /\ loop'.reached = loop.reached
          /\ loop'.stayed \subseteq loop.stayed
      BY <1>1, <2>2, <3>4, <3>5 DEF Loop
    <3>7. Array' = a
      BY <3>6 DEF Array
    <3>8. /\ loop.next <= Len(a) + 1 /\ loop.reached = {a[i] : i \in 1..(loop.next - 1)}
          /\ loop.stayed \subseteq {a[i] : i \in 1..Len(a)}
      BY <1>1, <2>2, <3>2 DEF LoopInv
    <3> QED  BY <3>3, <3>6, <3>7, <3>8 DEF LoopInv
  <2> QED  BY <2>1, <2>2
<1> QED  BY <1>2, <1>3, <1>4 DEF NotifyInv, TypeOK

-----------------------------------------------------------------------------
\* An event begins with nobody reached and everybody there.
LEMMA BeginElements ==
  ASSUME NotifyInv, NEW event \in Kinds \cup {"pre", "post", "cm"}
  PROVE  /\ List(event) \in Seq(Element) /\ Begin(event) \in Loop
         /\ event = "process" => List(event) \in Seq(Routines)
<1>1. /\ notifyRoutines \in [Kinds -> Seq(Routines)] /\ obCallbacks \in Seq(Registrations)
      /\ cmCallbacks \in Seq(CmEntry)
  BY DEF NotifyInv, TypeOK
<1>2. Routines \subseteq Element /\ Registrations \subseteq Element /\ CmEntry \subseteq Element
  BY DEF Element
<1>3. "pre" \notin Kinds /\ "post" \notin Kinds /\ "cm" \notin Kinds /\ "none" \notin Kinds
  BY DEF Kinds
<1>4. event \in Kinds => List(event) = notifyRoutines[event] /\ List(event) \in Seq(Routines)
  BY <1>1, <1>3 DEF List
<1>5. event \in {"pre", "post"} => List(event) = obCallbacks
  BY <1>3 DEF List
<1>6. event = "cm" => List(event) = cmCallbacks
  BY <1>3 DEF List
<1>7. List(event) \in Seq(Element)
  BY <1>1, <1>2, <1>4, <1>5, <1>6, SeqMonotonic
<1>8. ToSet(List(event)) \in SUBSET Element
  BY <1>7, Elements
<1>9. Begin(event) \in Loop
  <2>1. Begin(event) = [event |-> event, next |-> 1, todo |-> <<>>, copied |-> FALSE,
                        copy |-> <<>>, reached |-> {}, stayed |-> ToSet(List(event)),
                        unread |-> FALSE]
    <3>1. PICK l : l = ToSet(List(event))
      OBVIOUS
    <3>2. Begin(event) = [Idle EXCEPT !.event = event, !.stayed = l]
      BY <3>1 DEF Begin
    <3> QED  BY <3>1, <3>2 DEF Idle
  <2>2. <<>> \in Seq(Routines) /\ <<>> \in Seq(Element) /\ 1 \in Nat \ {0}
    OBVIOUS
  <2> QED  BY <1>8, <2>1, <2>2 DEF Loop
<1> QED  BY <1>4, <1>7, <1>9 DEF Kinds

\* A loop begins.
LEMMA FireKeeps ==
  ASSUME NotifyInv, NEW event \in Kinds \cup {"pre", "post", "cm"}, Fire(event)
  PROVE  NotifyInv'
<1>1. PICK l : l = List(event)
  OBVIOUS
<1>2. /\ l \in Seq(Element) /\ ToSet(l) \in SUBSET Element /\ Len(l) \in Nat
      /\ ToSet(l) = {l[i] : i \in 1..Len(l)}
      /\ event = "process" => l \in Seq(Routines)
  BY <1>1, BeginElements, Elements
<1>3. loop' = [event |-> event, next |-> 1, todo |-> <<>>, copied |-> (event = "process"),
               copy |-> IF event = "process" THEN l ELSE <<>>, reached |-> {},
               stayed |-> ToSet(l), unread |-> FALSE]
  BY <1>1 DEF Fire, Begin, Idle
<1>4. loop' \in Loop
  BY <1>2, <1>3 DEF Loop
<1>5. UNCHANGED <<lists, running, creationStatus, blocked>>
  BY DEF Fire
<1>6. Array' = l
  <2>1. List(event)' = l
    BY <1>1, <1>5 DEF List, lists
  <2> QED  BY <1>3, <2>1 DEF Array
<1>7. LoopInv'
  <2>1. {l[i] : i \in 1..(1 - 1)} = {}
    OBVIOUS
  <2>2. /\ loop'.event = event /\ loop'.next = 1 /\ loop'.reached = {} /\ loop'.stayed = ToSet(l)
        /\ event = "process" => loop'.copied /\ loop'.copy = l
        /\ event # "process" => ~loop'.copied
    BY <1>3
  <2>3. 1 <= Len(l) + 1
    BY <1>2
  <2> QED  BY <1>2, <1>6, <2>1, <2>2, <2>3 DEF LoopInv
<1> QED  BY <1>4, <1>5, <1>7 DEF NotifyInv, TypeOK, lists

\* The loop takes an element.
LEMMA TakeNextKeeps == ASSUME NotifyInv, TakeNext PROVE NotifyInv'
<1>1. loop \in Loop /\ LoopInv /\ loop.event # "none"
  BY DEF NotifyInv, TypeOK, TakeNext, Between
<1>2. PICK a : a = Array
  OBVIOUS
<1>3. loop.next \in 1..Len(a) /\ Len(a) \in Nat
  BY <1>1, <1>2, ArrayElements DEF TakeNext, Loop
<1>4. PICK x \in Element : x = a[loop.next] /\ RoutinesOf(x) \in Seq(Routines)
  BY <1>1, <1>2, <1>3, ArrayElements
<1>5. loop' = [loop EXCEPT !.next = @ + 1, !.todo = RoutinesOf(x), !.reached = @ \cup {x}]
  BY <1>2, <1>4 DEF TakeNext
<1>6. /\ loop' \in Loop /\ loop'.next = loop.next + 1 /\ loop'.reached = loop.reached \cup {x}
      /\ loop'.event = loop.event /\ loop'.copied = loop.copied /\ loop'.copy = loop.copy
      /\ loop'.stayed = loop.stayed
  <2>1. PICK t \in Seq(Routines) : t = RoutinesOf(x)
    BY <1>4
  <2>2. PICK r \in SUBSET Element : r = loop.reached \cup {x}
    BY <1>1, <1>4 DEF Loop
  <2>3. PICK n \in Nat \ {0} : n = loop.next + 1
    BY <1>3
  <2>4. loop' = [loop EXCEPT !.next = n, !.todo = t, !.reached = r]
    BY <1>5, <2>1, <2>2, <2>3
  <2>5. loop' \in Loop
    BY <1>1, <2>4 DEF Loop
  <2> QED  BY <1>1, <2>2, <2>3, <2>4, <2>5 DEF Loop
<1>7. UNCHANGED <<lists, running, creationStatus, blocked>>
  BY DEF TakeNext
<1>8. Array' = a
  <2>1. List(loop.event)' = List(loop.event)
    BY <1>6, <1>7 DEF List, lists
  <2> QED  BY <1>2, <1>6, <2>1 DEF Array
<1>9. LoopInv'
  <2>1. {a[i] : i \in 1..loop.next} = {a[i] : i \in 1..(loop.next - 1)} \cup {a[loop.next]}
    <3>1. \A i : i \in 1..loop.next <=> (i \in 1..(loop.next - 1) \/ i = loop.next)
      BY <1>3
    <3> QED  BY <3>1
  <2>2. (loop.next + 1) - 1 = loop.next /\ loop.next + 1 <= Len(a) + 1
    BY <1>3
  <2>3. loop.event \in {"process", "cm"} => loop'.reached = {a[i] : i \in 1..(loop'.next - 1)}
    <3> SUFFICES ASSUME loop.event \in {"process", "cm"}
                 PROVE  loop'.reached = {a[i] : i \in 1..(loop'.next - 1)}
      OBVIOUS
    <3>1. loop.reached = {a[i] : i \in 1..(loop.next - 1)}
      BY <1>1, <1>2 DEF LoopInv
    <3>2. loop'.next - 1 = loop.next
      BY <1>6, <2>2
    <3> QED  BY <1>4, <1>6, <2>1, <3>1, <3>2
  <2> QED  BY <1>1, <1>2, <1>6, <1>8, <2>2, <2>3 DEF LoopInv
<1> QED  BY <1>6, <1>7, <1>9 DEF NotifyInv, TypeOK, lists

\* Every step.
LEMMA NotifyNext == NotifyInv /\ [Next]_vars => NotifyInv'
<1> SUFFICES ASSUME NotifyInv, [Next]_vars
             PROVE  NotifyInv'
  OBVIOUS
<1>a. loop \in Loop /\ LoopInv
  BY DEF NotifyInv, TypeOK
<1>b. ASSUME UNCHANGED <<lists>>, loop'.event = loop.event, loop'.copied = loop.copied,
             loop'.copy = loop.copy
      PROVE  Array' = Array
  <2>1. List(loop.event)' = List(loop.event)
    BY <1>b DEF List, lists
  <2> QED  BY <1>b, <2>1 DEF Array
<1>1. CASE PsCall
  BY <1>1, PsCallKeeps
<1>2. CASE ObCall
  BY <1>2, ObCallKeeps
<1>3. CASE CmCall
  BY <1>3, CmRegisterKeeps, CmUnRegisterKeeps DEF CmCall
<1>4. ASSUME NEW event \in Events, Fire(event)
      PROVE  NotifyInv'
  <2>1. event \in Kinds \cup {"pre", "post", "cm"}
    BY CallbacksAssumption DEF Events
  <2> QED  BY <1>4, <2>1, FireKeeps
<1>5. CASE TakeNext
  BY <1>5, TakeNextKeeps
<1>6. CASE CallNext
  <2>1. loop.todo \in Seq(Routines) /\ loop.todo # <<>>
    BY <1>6, <1>a DEF CallNext, Loop
  <2>2. Head(loop.todo) \in Routines /\ Tail(loop.todo) \in Seq(Routines)
    BY <2>1, HeadTailProperties
  <2>3. /\ loop' \in Loop /\ loop'.event = loop.event /\ loop'.next = loop.next
        /\ loop'.copied = loop.copied /\ loop'.copy = loop.copy
        /\ loop'.reached = loop.reached /\ loop'.stayed = loop.stayed
    <3>1. loop' = [loop EXCEPT !.todo = Tail(loop.todo)]
      BY <1>6 DEF CallNext
    <3> QED  BY <1>a, <2>2, <3>1 DEF Loop
  <2>4. /\ running' \in [routine : Routines \cup {NoRoutine}, ex : BOOLEAN]
        /\ creationStatus' \in Statuses /\ UNCHANGED <<lists, blocked>>
    <3>1. creationStatus \in Statuses
      BY DEF NotifyInv, TypeOK
    <3> QED  BY <1>6, <2>2, <3>1 DEF CallNext, Statuses
  <2>5. Array' = Array
    BY <1>b, <2>3, <2>4
  <2>6. LoopInv'
    BY <1>a, <2>3, <2>5 DEF LoopInv
  <2> QED  BY <2>3, <2>4, <2>6 DEF NotifyInv, TypeOK, lists
<1>7. ASSUME NEW s \in {"success", "warning", "failure"}, WriteCreationStatus(s)
      PROVE  NotifyInv'
  <2>1. UNCHANGED <<lists, loop, running, blocked>> /\ creationStatus' \in Statuses
    BY <1>7 DEF WriteCreationStatus, Statuses
  <2>2. Array' = Array
    BY <1>b, <2>1
  <2> QED  BY <2>1, <2>2 DEF NotifyInv, TypeOK, LoopInv, lists
<1>c. loop.unread \in BOOLEAN /\ running.ex \in BOOLEAN
  BY <1>a DEF Loop, NotifyInv, TypeOK
<1>d. ASSUME NEW b \in BOOLEAN, loop' = [loop EXCEPT !.unread = b],
             UNCHANGED <<lists, creationStatus>>, blocked' \in BOOLEAN,
             running' \in [routine : Routines \cup {NoRoutine}, ex : BOOLEAN]
      PROVE  NotifyInv'
  <2>1. /\ loop' \in Loop /\ loop'.event = loop.event /\ loop'.next = loop.next
        /\ loop'.copied = loop.copied /\ loop'.copy = loop.copy
        /\ loop'.reached = loop.reached /\ loop'.stayed = loop.stayed
    BY <1>a, <1>d DEF Loop
  <2>2. Array' = Array
    BY <1>b, <1>d, <2>1
  <2>3. LoopInv'
    BY <1>a, <2>1, <2>2 DEF LoopInv
  <2> QED  BY <1>d, <2>1, <2>3 DEF NotifyInv, TypeOK, lists
<1>8. ASSUME NEW s, Returns(s)
      PROVE  NotifyInv'
  <2>1. /\ loop' = [loop EXCEPT !.unread = loop.unread /\ ~running.ex]
        /\ UNCHANGED <<lists, creationStatus>> /\ blocked' \in BOOLEAN
        /\ running' \in [routine : Routines \cup {NoRoutine}, ex : BOOLEAN]
    BY <1>8 DEF Returns, Nobody
  <2> QED  BY <1>c, <1>d, <2>1
<1>t. CASE Throws
  <2>1. /\ UNCHANGED <<lists, creationStatus>> /\ blocked' \in BOOLEAN
        /\ running' \in [routine : Routines \cup {NoRoutine}, ex : BOOLEAN]
    BY <1>t DEF Throws, Nobody, NotifyInv, TypeOK
  <2>2. CASE loop.event = "process"
    BY <1>c, <1>d, <1>t, <2>1, <2>2 DEF Throws
  <2>3. CASE loop.event # "process"
    <3>1. loop' = Idle /\ Idle \in Loop
      BY <1>t, <2>3 DEF Throws, Idle, Loop
    <3>2. LoopInv'
      BY <3>1 DEF LoopInv, Idle
    <3> QED  BY <2>1, <3>1, <3>2 DEF NotifyInv, TypeOK, lists
  <2> QED  BY <2>2, <2>3
<1>9. CASE Ends
  <2>1. UNCHANGED <<lists, running>> /\ creationStatus' \in Statuses /\ blocked' \in BOOLEAN
    BY <1>9 DEF Ends, Statuses
  <2>2. loop' \in Loop /\ ~loop'.copied /\ loop'.event \in {"none", "post"}
    <3>1. Begin("post") \in Loop /\ Idle \in Loop
      BY BeginElements DEF Idle, Loop
    <3> QED  BY <1>9, <3>1 DEF Ends, Begin, Idle
  <2>3. LoopInv'
    BY <2>2 DEF LoopInv
  <2> QED  BY <2>1, <2>2, <2>3 DEF NotifyInv, TypeOK, lists
<1>10. CASE UNCHANGED vars
  <2>1. UNCHANGED <<lists, loop, running, creationStatus, blocked>>
    BY <1>10 DEF vars
  <2>2. Array' = Array
    BY <1>b, <2>1
  <2> QED  BY <2>1, <2>2 DEF NotifyInv, TypeOK, LoopInv, lists
<1> QED
  BY <1>1, <1>2, <1>3, <1>4, <1>5, <1>6, <1>7, <1>8, <1>9, <1>10, <1>t DEF Next

\* Only Ends changes the event of a loop that has one, while no routine runs.
LEMMA LoopEnds ==
  ASSUME [Next]_vars, NotifyInv, loop.event # "none", loop'.event # loop.event,
         running = Nobody
  PROVE  Ends
<1>1. ASSUME NEW events, NEW list, Keep(events, list)
      PROVE  loop'.event = loop.event
  BY <1>1 DEF Keep, NotifyInv, TypeOK, Loop
<1>2. loop \in Loop
  BY DEF NotifyInv, TypeOK
<1>3. ~PsCall
  BY <1>1 DEF PsCall, PsSetCreateProcessNotifyRoutine,
     PsSetCreateProcessNotifyRoutineEx, PsSetNotifyRoutine, PsRemoveNotifyRoutine, SetPs
<1>4. ~ObCall
  BY <1>1 DEF ObCall, ObRegisterCallbacks, ObUnRegisterCallbacks, SetOb
<1>5. ~CmCall
  BY <1>2 DEF CmCall, CmRegisterCallback, CmUnRegisterCallback, Loop
<1>6. ~(\E event \in Events : Fire(event))
  BY DEF Fire
<1>7. ~TakeNext /\ ~CallNext
  BY <1>2 DEF TakeNext, CallNext, Loop
<1>8. ~(\E s \in {"success", "warning", "failure"} : WriteCreationStatus(s))
      /\ ~(\E s \in {"none", "success", "failure"} : Returns(s)) /\ ~Throws
  BY DEF WriteCreationStatus, Returns, Throws, Nobody
<1> QED  BY <1>3, <1>4, <1>5, <1>6, <1>7, <1>8 DEF Next, vars

\* Lists, loop, routine and verdict are well typed, whatever routines register and remove
\* while an event is delivered.
THEOREM CallbacksTyped == Spec => []TypeOK
<1>1. NotifyInv => TypeOK
  BY DEF NotifyInv
<1> QED  BY <1>1, NotifyInit, NotifyNext, PTL DEF Spec

\* fireProcessNotify and fireCmSetValueKey call every routine that was registered when
\* they began and still is, unless one of them refuses or throws, for any number of
\* routines that register and remove any others, and themselves, from inside.
THEOREM AllNotified == Spec => EveryRoutineNotified
<1>1. NotifyInv /\ [Next]_vars => ReachesAll({"process", "cm"})
  <2> SUFFICES ASSUME NotifyInv, [Next]_vars, loop.event \in {"process", "cm"},
                      loop'.event # loop.event, ~blocked, running = Nobody
               PROVE  loop.stayed \subseteq loop.reached
    BY DEF ReachesAll
  <2>1. Ends
    BY LoopEnds
  <2>2. loop.next > Len(Array) /\ Len(Array) \in Nat /\ loop.next \in Nat
    BY <2>1, ArrayElements DEF Ends, NotifyInv, TypeOK, Loop
  <2>3. /\ loop.next <= Len(Array) + 1
        /\ loop.reached = {Array[i] : i \in 1..(loop.next - 1)}
        /\ loop.stayed \subseteq {Array[i] : i \in 1..Len(Array)}
    BY DEF NotifyInv, LoopInv
  <2>4. loop.next - 1 = Len(Array)
    BY <2>2, <2>3
  <2> QED  BY <2>3, <2>4
<1> QED  BY <1>1, NotifyInit, NotifyNext, PTL DEF Spec, EveryRoutineNotified

-----------------------------------------------------------------------------
(* The list of processes.  The scan is followed round by round: after k of them *)
(* it has left its entries one behind the other, so a scan that is content has  *)
(* come by every seeded process, once each since the list is followed from one  *)
(* place to the next without a choice, and there are as many as it counted; and *)
(* round a ring it comes by them in the order of the ring.                      *)

\* What a link can be, and links that are of that kind.
PlLinks == PlNodes \cup {PlNull}
PlLinksTyped == plFlink \in [PlNodes -> PlLinks] /\ plBlink \in [PlNodes -> PlLinks]

\* What the constants are.
LEMMA PlConstants ==
  /\ PlProcs \in Seq(PlSeeded) /\ Len(PlProcs) \in Nat \ {0} /\ DOMAIN PlProcs = 1..Len(PlProcs)
  /\ Len(PlProcs) < PlMaxWalk /\ PlMaxWalk \in Nat /\ PlMaxPatches \in Nat
  /\ PlProcs \in Injection(1..Len(PlProcs), PlSeeded)
  /\ PlProcs \in Surjection(1..Len(PlProcs), PlSeeded)
  /\ PlHead \in PlNodes /\ PlNull \notin PlNodes /\ PlHead \notin PlSeeded /\ PlSeeded \subseteq PlNodes
  /\ PlHead # PlNull /\ PlNull \notin PlSeeded
<1>1. PlProcs \in Seq(PlSeeded) /\ PlProcs # <<>> /\ IsInjective(PlProcs)
  BY PlAssumption DEF PlSeeded
<1>2. Len(PlProcs) \in Nat /\ DOMAIN PlProcs = 1..Len(PlProcs) /\ PlProcs \in [1..Len(PlProcs) -> PlSeeded]
  BY <1>1, LenProperties
<1>3. Len(PlProcs) # 0
  BY <1>1, <1>2, EmptySeq
<1>4. PlProcs \in Injection(1..Len(PlProcs), PlSeeded)
  BY <1>1, <1>2 DEF Injection
<1>5. \A t \in PlSeeded : \E i \in 1..Len(PlProcs) : PlProcs[i] = t
  BY <1>2 DEF PlSeeded, ToSet
<1>6. PlProcs \in Surjection(1..Len(PlProcs), PlSeeded)
  BY <1>2, <1>5 DEF Surjection
<1>7. Len(PlProcs) < PlMaxWalk /\ PlMaxWalk \in Nat /\ PlMaxPatches \in Nat
  BY PlAssumption
<1>8. /\ PlHead \in PlNodes /\ PlNull \notin PlNodes /\ PlHead \notin PlSeeded /\ PlSeeded \subseteq PlNodes
      /\ PlHead # PlNull /\ PlNull \notin PlSeeded
  BY PlAssumption DEF PlSeeded, PlNodes, PlHead, PlNull
<1> QED  BY <1>1, <1>2, <1>3, <1>4, <1>6, <1>7, <1>8

\* A sequence of processes that has none twice has them all if and only if it has as
\* many as there are.
LEMMA PlCounted ==
  /\ IsFiniteSet(PlSeeded) /\ Cardinality(PlSeeded) = Len(PlProcs)
  /\ \A w \in Nat : \A s \in Injection(1..w, PlSeeded) :
       s \in Surjection(1..w, PlSeeded) <=> w = Len(PlProcs)
<1>1. \A w \in Nat : IsFiniteSet(1..w) /\ Cardinality(1..w) = w
  BY FS_Interval
<1>2. Len(PlProcs) \in Nat
  BY PlConstants
<1>3. IsFiniteSet(PlSeeded) /\ Cardinality(PlSeeded) = Len(PlProcs)
  BY <1>1, <1>2, PlConstants, FS_Surjection
<1>4. ASSUME NEW w \in Nat, NEW s \in Injection(1..w, PlSeeded)
      PROVE  s \in Surjection(1..w, PlSeeded) <=> w = Len(PlProcs)
  BY <1>1, <1>3, <1>4, FS_Injection
<1> QED  BY <1>3, <1>4

-----------------------------------------------------------------------------
(* The recursive functions.                                                 *)

\* The states of the scan, and the first.
PlScanStates == [at : PlLinks, reached : SUBSET PlNodes, walked : Nat, over : BOOLEAN]
PlScanStart == [at |-> plFlink[PlHead], reached |-> {}, walked |-> 0, over |-> FALSE]

\* A round of the scan stays in its states.
LEMMA PlRoundTyped ==
  ASSUME PlLinksTyped, NEW s \in PlScanStates
  PROVE  PlRound(s) \in PlScanStates
<1>1. CASE s.at \in {PlHead, PlNull} \/ s.over
  BY <1>1 DEF PlRound
<1>2. CASE ~(s.at \in {PlHead, PlNull} \/ s.over)
  <2>1. s.at \in PlNodes /\ s.reached \in SUBSET PlNodes /\ s.walked \in Nat
    BY <1>2 DEF PlScanStates, PlLinks
  <2>2. PlNext(s.at) \in PlLinks
    BY <2>1, PlConstants DEF PlNext, PlLinksTyped
  <2>3. s.reached \cup {s.at} \in SUBSET PlNodes /\ s.walked + 1 \in Nat /\ s.at \in PlLinks
    BY <2>1 DEF PlLinks
  <2> QED  BY <1>2, <2>1, <2>2, <2>3 DEF PlRound, PlScanStates
<1> QED  BY <1>1, <1>2

\* The scan is the iteration of its rounds.
LEMMA PlScanUnfolds ==
  ASSUME PlLinksTyped
  PROVE  /\ PlScan \in [0..PlMaxWalk -> PlScanStates]
         /\ PlScan[0] = PlScanStart
         /\ \A n \in 1..PlMaxWalk : PlScan[n] = PlRound(PlScan[n - 1])
<1> DEFINE step == [q \in PlScanStates \X (1..PlMaxWalk) |-> PlRound(q[1])]
           Is(f) == f = [k \in 0..PlMaxWalk |-> IF k = 0 THEN PlScanStart ELSE PlRound(f[k - 1])]
<1>1. step \in [PlScanStates \X (1..PlMaxWalk) -> PlScanStates]
  BY PlRoundTyped
<1>2. PlScanStart \in PlScanStates
  BY PlConstants DEF PlScanStart, PlScanStates, PlLinksTyped
<1>3. PlMaxWalk \in Nat
  BY PlConstants
<1>4. PICK f \in [0..PlMaxWalk -> PlScanStates] :
        /\ f[0] = PlScanStart
        /\ \A n \in 1..PlMaxWalk : f[n] = step[<<f[n - 1], n>>]
  <2>1. IsStep(step, PlScanStates, PlMaxWalk)
    BY <1>1 DEF IsStep
  <2> HIDE DEF step
  <2>2. PICK f : Iterates(f, PlScanStates, PlScanStart, PlMaxWalk, step)
    BY <1>2, <1>3, <2>1, Recursion
  <2> QED  BY <2>2 DEF Iterates
<1>5. \A n \in 1..PlMaxWalk : f[n] = PlRound(f[n - 1])
  <2>1. \A n \in 1..PlMaxWalk : f[n - 1] \in PlScanStates
    BY <1>3, <1>4
  <2> QED  BY <1>4, <2>1
<1>6. Is(f)
  BY <1>3, <1>4, <1>5
<1>7. Is(PlScan)
  <2>1. PlScan = CHOOSE g : Is(g)
    BY DEF PlScan, PlScanStart
  <2> HIDE DEF Is
  <2> QED  BY <1>6, <2>1
<1>8. /\ PlScan[0] = PlScanStart /\ DOMAIN PlScan = 0..PlMaxWalk
      /\ \A n \in 1..PlMaxWalk : PlScan[n] = PlRound(PlScan[n - 1])
  <2> HIDE DEF PlScan
  <2> QED  BY <1>3, <1>7
<1>9. \A k \in Nat : k \in {n \in Nat : n <= PlMaxWalk => PlScan[n] \in PlScanStates}
  <2> DEFINE N == {n \in Nat : n <= PlMaxWalk => PlScan[n] \in PlScanStates}
  <2> HIDE DEF PlScan
  <2>1. 0 \in N
    BY <1>2, <1>8
  <2>2. \A k \in Nat : k \in N => k + 1 \in N
    <3> SUFFICES ASSUME NEW k \in Nat, k \in N, k + 1 <= PlMaxWalk
                 PROVE  PlScan[k + 1] \in PlScanStates
      OBVIOUS
    <3>1. k + 1 \in 1..PlMaxWalk /\ (k + 1) - 1 = k /\ PlScan[k] \in PlScanStates
      BY <1>3
    <3> QED  BY <1>8, <3>1, PlRoundTyped
  <2>3. Nat \subseteq N
    <3> HIDE DEF N
    <3> QED  BY <2>1, <2>2, SetInduction
  <2> QED  BY <2>3
<1>10. PlScan \in [0..PlMaxWalk -> PlScanStates]
  <2> HIDE DEF PlScan
  <2>1. \A k \in 0..PlMaxWalk : PlScan[k] \in PlScanStates
    BY <1>9
  <2>2. PlScan = [k \in 0..PlMaxWalk |-> PlScan[k]]
    BY <1>7
  <2> QED  BY <2>1, <2>2
<1> HIDE DEF PlScan
<1> QED  BY <1>8, <1>10

\* Where the scan is after k rounds.
PlAt(k) == PlScan[k].at
PlStops(s) == s.at \in {PlHead, PlNull} \/ s.over

\* After k rounds the scan has left w entries, one after the other, and either goes
\* on or has stopped after w rounds.
PlTrail(k) ==
  LET s == PlScan[k]
  IN /\ s.walked <= k
     /\ \A j \in 0..(s.walked - 1) :
          /\ PlAt(j) \in PlNodes \ {PlHead}
          /\ PlAt(j + 1) = plFlink[PlAt(j)] /\ PlAt(j + 1) # PlNull /\ plBlink[PlAt(j)] # PlNull
     /\ ~s.over => /\ s.at = PlAt(s.walked) /\ s.reached = {PlAt(j) : j \in 0..(s.walked - 1)}
                   /\ s.walked < k => PlStops(s)

\* The scan leaves such a trail, whatever the links are.
LEMMA PlTrails ==
  ASSUME PlLinksTyped
  PROVE  \A k \in 0..PlMaxWalk : PlTrail(k)
<1> HIDE DEF PlScan
<1> DEFINE N == {k \in Nat : k <= PlMaxWalk => PlTrail(k)}
<1>1. 0 \in N
  BY PlScanUnfolds DEF PlTrail, PlScanStart, PlAt
<1>2. ASSUME NEW k \in Nat, PlTrail(k), k + 1 <= PlMaxWalk
      PROVE  PlTrail(k + 1)
  <2>1. /\ k \in 0..PlMaxWalk /\ k + 1 \in 1..PlMaxWalk /\ (k + 1) - 1 = k
        /\ PlScan[k] \in PlScanStates /\ PlScan[k + 1] = PlRound(PlScan[k])
    <3>1. k \in 0..PlMaxWalk /\ k + 1 \in 1..PlMaxWalk /\ (k + 1) - 1 = k
      BY <1>2, PlConstants
    <3> QED  BY <3>1, PlScanUnfolds
  <2>2. PICK s : s = PlScan[k]
    OBVIOUS
  <2>3. PICK t : t = PlScan[k + 1]
    OBVIOUS
  <2>4. /\ s.walked \in Nat /\ s.walked <= k /\ s.at \in PlLinks /\ s.over \in BOOLEAN
        /\ s.reached \in SUBSET PlNodes
    BY <1>2, <2>1, <2>2 DEF PlTrail, PlScanStates
  <2>5. CASE PlStops(s)
    <3>1. t = s
      BY <2>1, <2>2, <2>3, <2>5 DEF PlRound, PlStops
    <3> QED  BY <1>2, <2>2, <2>3, <2>4, <2>5, <3>1 DEF PlTrail
  <2>6. CASE ~PlStops(s)
    <3>1. s.walked = k /\ s.at = PlAt(k) /\ ~s.over /\ s.at \in PlNodes \ {PlHead}
          /\ s.reached = {PlAt(j) : j \in 0..(k - 1)}
      BY <1>2, <2>2, <2>4, <2>6 DEF PlTrail, PlStops, PlLinks
    <3>2. PlNext(s.at) = plFlink[s.at] /\ PlPrev(s.at) = plBlink[s.at]
      BY <3>1, PlConstants DEF PlNext, PlPrev
    <3>3. \A j \in 0..(k - 1) :
            /\ PlAt(j) \in PlNodes \ {PlHead}
            /\ PlAt(j + 1) = plFlink[PlAt(j)] /\ PlAt(j + 1) # PlNull /\ plBlink[PlAt(j)] # PlNull
      BY <1>2, <2>2, <3>1 DEF PlTrail
    <3> DEFINE null == PlNull \in {PlNext(s.at), PlPrev(s.at)}
    <3>r. /\ t.at = (IF null THEN s.at ELSE PlNext(s.at)) /\ t.over = null
          /\ t.walked = (IF null THEN s.walked ELSE s.walked + 1)
          /\ t.reached = s.reached \cup {s.at}
      <4>1. t = [at |-> IF null THEN s.at ELSE PlNext(s.at), reached |-> s.reached \cup {s.at},
                 walked |-> IF null THEN s.walked ELSE s.walked + 1, over |-> null]
        BY <2>1, <2>2, <2>3, <2>6, Zenon DEF PlRound, PlStops
      <4> QED  BY <4>1, Zenon
    <3>4. CASE null
      <4>1. t.over /\ t.walked = k
        BY <3>1, <3>4, <3>r, Zenon
      <4>2. t.walked <= k + 1 /\ t.walked - 1 = k - 1
        BY <4>1
      <4>3. /\ t.walked <= k + 1
            /\ \A j \in 0..(t.walked - 1) :
                 /\ PlAt(j) \in PlNodes \ {PlHead}
                 /\ PlAt(j + 1) = plFlink[PlAt(j)] /\ PlAt(j + 1) # PlNull
                 /\ plBlink[PlAt(j)] # PlNull
        BY <3>3, <4>2, Zenon
      <4> QED  BY <2>3, <4>1, <4>3, Zenon DEF PlTrail
    <3>5. CASE ~null
      <4>1. /\ ~t.over /\ t.walked = k + 1 /\ t.at = PlNext(s.at)
            /\ t.reached = s.reached \cup {s.at}
        BY <3>1, <3>5, <3>r, Zenon
      <4>2. PlAt(k + 1) = plFlink[PlAt(k)] /\ PlAt(k + 1) # PlNull /\ plBlink[PlAt(k)] # PlNull
        BY <2>3, <3>1, <3>2, <3>5, <4>1 DEF PlAt
      <4>3. \A j \in 0..k : j = k \/ j \in 0..(k - 1)
        OBVIOUS
      <4>4. {PlAt(j) : j \in 0..k} = {PlAt(j) : j \in 0..(k - 1)} \cup {PlAt(k)}
        BY <4>3
      <4>5. t.reached = {PlAt(j) : j \in 0..k}
        BY <3>1, <4>1, <4>4
      <4>6. t.at = PlAt(k + 1) /\ (k + 1) - 1 = k
        BY <2>3 DEF PlAt
      <4>7. \A j \in 0..k :
              /\ PlAt(j) \in PlNodes \ {PlHead}
              /\ PlAt(j + 1) = plFlink[PlAt(j)] /\ PlAt(j + 1) # PlNull /\ plBlink[PlAt(j)] # PlNull
        BY <3>1, <3>3, <4>2, <4>3
      <4>8. t.walked <= k + 1 /\ t.walked - 1 = k /\ ~(t.walked < k + 1)
        BY <4>1
      <4>9. t.at = PlAt(t.walked)
        BY <4>1, <4>6, Zenon
      <4> QED  BY <2>3, <4>5, <4>7, <4>8, <4>9, Zenon DEF PlTrail
    <3> QED  BY <3>4, <3>5
  <2> QED  BY <2>5, <2>6
<1>3. Nat \subseteq N
  <2>1. \A k \in Nat : k \in N => k + 1 \in N
    <3> SUFFICES ASSUME NEW k \in Nat, k \in N, k + 1 <= PlMaxWalk
                 PROVE  PlTrail(k + 1)
      OBVIOUS
    <3>1. PlTrail(k)
      BY PlConstants
    <3> QED  BY <1>2, <3>1
  <2> HIDE DEF N
  <2> QED  BY <1>1, <2>1, SetInduction
<1> QED  BY <1>3, PlConstants

-----------------------------------------------------------------------------
(* What the scan accepts is a ring.                                         *)

\* The processes the scan comes by, when it is content.
LEMMA PlOkTrail ==
  ASSUME PlLinksTyped, PlScanOk
  PROVE  LET n == Len(PlProcs)
         IN /\ PlAt(0) = plFlink[PlHead]
            /\ \A j \in 0..(n - 1) :
                 /\ PlAt(j) \in PlSeeded /\ PlAt(j + 1) = plFlink[PlAt(j)]
                 /\ plBlink[PlAt(j)] # PlNull /\ PlBack(PlAt(j)) = PlAt(j)
            /\ PlAt(n) = PlHead
            /\ \A i, j \in 0..(n - 1) : PlAt(i) = PlAt(j) => i = j
            /\ \A k \in n..PlMaxWalk : PlAt(k) = PlHead
<1> HIDE DEF PlScan
<1>1. PICK s : s = PlScan[PlMaxWalk]
  OBVIOUS
<1>2. PICK w \in Nat : w = s.walked
  BY <1>1, PlScanUnfolds, PlConstants DEF PlScanStates
<1>3. /\ s.reached = PlSeeded /\ ~s.over /\ w < PlMaxWalk
      /\ \A x \in PlSeeded : PlBack(x) = x
  BY <1>1, <1>2 DEF PlScanOk
<1>4. PlTrail(PlMaxWalk)
  BY PlTrails, PlConstants
<1>5. /\ \A j \in 0..(w - 1) :
           /\ PlAt(j) \in PlNodes \ {PlHead}
           /\ PlAt(j + 1) = plFlink[PlAt(j)] /\ PlAt(j + 1) # PlNull /\ plBlink[PlAt(j)] # PlNull
      /\ s.at = PlAt(w) /\ s.reached = {PlAt(j) : j \in 0..(w - 1)}
      /\ s.at \in {PlHead, PlNull}
  BY <1>1, <1>2, <1>3, <1>4 DEF PlTrail, PlStops
<1>6. w # 0
  <2>1. PlProcs[1] \in PlSeeded
    <3>1. 1 \in 1..Len(PlProcs) /\ PlProcs \in [1..Len(PlProcs) -> PlSeeded]
      BY PlConstants DEF Injection
    <3> QED  BY <3>1
  <2>2. w = 0 => s.reached = {}
    BY <1>5
  <2> QED  BY <1>3, <2>1, <2>2
<1>7. PlAt(w) = PlHead
  <2>1. w - 1 \in 0..(w - 1) /\ (w - 1) + 1 = w
    BY <1>6
  <2>2. PlAt(w) # PlNull
    BY <1>5, <2>1
  <2> QED  BY <1>5, <2>2
<1>8. \A j \in 0..(w - 1) : PlAt(j) \in PlSeeded
  BY <1>3, <1>5
<1>9. ASSUME NEW i \in 0..(w - 1), NEW j \in 0..(w - 1), PlAt(i) = PlAt(j), i < j
      PROVE  FALSE
  <2> DEFINE N == {d \in Nat : j + d <= w => PlAt(i + d) = PlAt(j + d)}
  <2>1. 0 \in N
    BY <1>9
  <2>2. ASSUME NEW d \in Nat, d \in N, j + (d + 1) <= w
        PROVE  PlAt(i + (d + 1)) = PlAt(j + (d + 1))
    <3>1. /\ i + d \in 0..(w - 1) /\ j + d \in 0..(w - 1)
          /\ (i + d) + 1 = i + (d + 1) /\ (j + d) + 1 = j + (d + 1)
      BY <1>9, <2>2
    <3>2. PlAt(i + d) = PlAt(j + d)
      BY <2>2, <3>1
    <3> QED  BY <1>5, <3>1, <3>2
  <2>3. Nat \subseteq N
    <3>1. \A d \in Nat : d \in N => d + 1 \in N
      BY <2>2
    <3> HIDE DEF N
    <3> QED  BY <2>1, <3>1, SetInduction
  <2>4. w - j \in Nat /\ j + (w - j) = w /\ i + (w - j) \in 0..(w - 1)
    BY <1>9
  <2>5. PlAt(i + (w - j)) = PlAt(w)
    BY <2>3, <2>4
  <2> QED  BY <1>5, <1>7, <2>4, <2>5
<1>10. \A i, j \in 0..(w - 1) : PlAt(i) = PlAt(j) => i = j
  <2> SUFFICES ASSUME NEW i \in 0..(w - 1), NEW j \in 0..(w - 1), PlAt(i) = PlAt(j), i # j
               PROVE  FALSE
    OBVIOUS
  <2>1. i < j \/ j < i
    OBVIOUS
  <2> QED  BY <1>9, <2>1
<1>11. w = Len(PlProcs)
  <2> DEFINE q == [i \in 1..w |-> PlAt(i - 1)]
  <2>1. \A i \in 1..w : i - 1 \in 0..(w - 1)
    OBVIOUS
  <2>2. q \in [1..w -> PlSeeded]
    BY <1>8, <2>1
  <2>3. \A a, b \in 1..w : q[a] = q[b] => a = b
    BY <1>10, <2>1
  <2>4. \A x \in PlSeeded : \E a \in 1..w : q[a] = x
    <3> SUFFICES ASSUME NEW x \in PlSeeded
                 PROVE  \E a \in 1..w : q[a] = x
      OBVIOUS
    <3>1. PICK j \in 0..(w - 1) : x = PlAt(j)
      BY <1>3, <1>5
    <3>2. j + 1 \in 1..w /\ (j + 1) - 1 = j
      OBVIOUS
    <3>3. q[j + 1] = x
      BY <3>1, <3>2
    <3> QED  BY <3>2, <3>3
  <2> HIDE DEF q
  <2>5. q \in Injection(1..w, PlSeeded)
    BY <2>2, <2>3 DEF Injection, IsInjective
  <2>6. q \in Surjection(1..w, PlSeeded)
    BY <2>2, <2>4 DEF Surjection
  <2> QED  BY <2>5, <2>6, PlCounted
<1>12. \A k \in w..PlMaxWalk : PlAt(k) = PlHead
  <2> DEFINE N == {k \in Nat : w <= k /\ k <= PlMaxWalk => PlAt(k) = PlHead}
  <2>1. 0 \in N
    BY <1>6
  <2>2. ASSUME NEW k \in Nat, k \in N, w <= k + 1, k + 1 <= PlMaxWalk
        PROVE  PlAt(k + 1) = PlHead
    <3>1. CASE k + 1 = w
      BY <1>7, <3>1
    <3>2. CASE k + 1 # w
      <4>1. PlAt(k) = PlHead
        BY <2>2, <3>2, PlConstants
      <4>2. k + 1 \in 1..PlMaxWalk /\ (k + 1) - 1 = k
        BY <2>2, PlConstants
      <4>3. PlScan[k + 1] = PlRound(PlScan[k])
        BY <4>2, PlScanUnfolds
      <4>4. PlScan[k].at = PlHead
        BY <4>1 DEF PlAt
      <4> QED  BY <4>3, <4>4 DEF PlRound, PlAt
    <3> QED  BY <3>1, <3>2
  <2>3. Nat \subseteq N
    <3>1. \A k \in Nat : k \in N => k + 1 \in N
      BY <2>2
    <3> HIDE DEF N
    <3> QED  BY <2>1, <3>1, SetInduction
  <2> QED  BY <2>3, PlConstants
<1>13. PlAt(0) = plFlink[PlHead]
  BY PlScanUnfolds DEF PlAt, PlScanStart
<1>14. \A j \in 0..(w - 1) : PlBack(PlAt(j)) = PlAt(j)
  BY <1>3, <1>8
<1> QED  BY <1>5, <1>7, <1>8, <1>10, <1>11, <1>12, <1>13, <1>14

\* The i-th node of the ring of an order.
LEMMA PlRingNodes ==
  ASSUME NEW q \in [1..Len(PlProcs) -> PlSeeded]
  PROVE  LET n == Len(PlProcs)
             ring == <<PlHead>> \o q \o <<PlHead>>
         IN /\ q \in Seq(PlSeeded) /\ Len(q) = n
            /\ ring[1] = PlHead /\ ring[n + 2] = PlHead
            /\ \A i \in 1..n : ring[i + 1] = q[i]
<1>1. Len(PlProcs) \in Nat
  BY PlConstants
<1>2. q \in Seq(PlSeeded) /\ Len(q) = Len(PlProcs)
  BY <1>1
<1>3. PICK n \in Nat : n = Len(PlProcs)
  BY <1>1
<1>4. PICK T : PlSeeded \subseteq T /\ PlHead \in T
  BY PlConstants
<1>5. q \in Seq(T) /\ <<PlHead>> \in Seq(T) /\ Len(<<PlHead>>) = 1 /\ <<PlHead>>[1] = PlHead
  BY <1>2, <1>4
<1>6. PICK r \in Seq(T) : r = <<PlHead>> \o q
  BY <1>5, ConcatProperties
<1>7. Len(r) = 1 + n /\ r[1] = PlHead /\ \A i \in 1..n : r[i + 1] = q[i]
  <2>1. Len(r) = 1 + n
    BY <1>2, <1>3, <1>5, <1>6, ConcatProperties
  <2>2. \A i \in 1..Len(r) : r[i] = IF i <= 1 THEN <<PlHead>>[i] ELSE q[i - 1]
    BY <1>5, <1>6, <2>1, ConcatProperties
  <2>3. \A i \in 1..n : i + 1 \in 1..Len(r) /\ ~(i + 1 <= 1) /\ (i + 1) - 1 = i
    BY <2>1
  <2>4. 1 \in 1..Len(r)
    BY <2>1
  <2> QED  BY <1>5, <2>1, <2>2, <2>3, <2>4
<1>8. PICK ring : ring = r \o <<PlHead>>
  OBVIOUS
<1>9. /\ Len(ring) = n + 2
      /\ \A i \in 1..Len(ring) : ring[i] = IF i <= n + 1 THEN r[i] ELSE <<PlHead>>[i - (n + 1)]
  BY <1>5, <1>7, <1>8, ConcatProperties
<1>10. ring[1] = PlHead /\ ring[n + 2] = PlHead /\ \A i \in 1..n : ring[i + 1] = q[i]
  <2>1. ring[1] = r[1]
    BY <1>9
  <2>2. n + 2 \in 1..Len(ring) /\ ~(n + 2 <= n + 1) /\ (n + 2) - (n + 1) = 1
    BY <1>9
  <2>3. ring[n + 2] = PlHead
    BY <1>5, <1>9, <2>2
  <2>4. ASSUME NEW i \in 1..n
        PROVE  ring[i + 1] = q[i]
    <3>1. i + 1 \in 1..Len(ring) /\ i + 1 <= n + 1
      BY <1>9
    <3> QED  BY <1>7, <1>9, <3>1
  <2> QED  BY <1>7, <2>1, <2>3, <2>4
<1> QED  BY <1>2, <1>3, <1>6, <1>8, <1>10

\* A ring, read from the head: the links of the head, of the processes, of the last.
LEMMA PlRingLinks ==
  ASSUME NEW q \in [1..Len(PlProcs) -> PlSeeded]
  PROVE  LET n == Len(PlProcs)
         IN PlIsRing(q, FALSE) <=>
              /\ plFlink[PlHead] = q[1] /\ plFlink[q[n]] = PlHead /\ plBlink[PlHead] = q[n]
              /\ \A i \in 1..(n - 1) : plFlink[q[i]] = q[i + 1] /\ plBlink[q[i + 1]] = q[i]
<1> DEFINE ring == <<PlHead>> \o q \o <<PlHead>>
           Links(i) == /\ plFlink[ring[i]] = ring[i + 1]
                       /\ (i = 1 => FALSE) => plBlink[ring[i + 1]] = ring[i]
<1>1. PICK n \in Nat \ {0} : n = Len(PlProcs)
  BY PlConstants
<1>2. /\ Len(q) = n /\ ring[1] = PlHead /\ ring[n + 2] = PlHead
      /\ \A i \in 1..n : ring[i + 1] = q[i]
  BY <1>1, PlRingNodes
<1>3. PlIsRing(q, FALSE) <=> \A i \in 1..(n + 1) : Links(i)
  BY <1>2 DEF PlIsRing
<1> HIDE DEF ring
<1>4. ring[2] = q[1] /\ ring[n + 1] = q[n]
  <2>1. 1 \in 1..n /\ n \in 1..n /\ 1 + 1 = 2
    OBVIOUS
  <2> QED  BY <1>2, <2>1
<1>5. Links(1) <=> plFlink[PlHead] = q[1]
  BY <1>2, <1>4
<1>6. Links(n + 1) <=> plFlink[q[n]] = PlHead /\ plBlink[PlHead] = q[n]
  <2>1. (n + 1) + 1 = n + 2 /\ n + 1 # 1
    OBVIOUS
  <2> QED  BY <1>2, <1>4, <2>1
<1>7. ASSUME NEW i \in 1..(n - 1)
      PROVE  Links(i + 1) <=> plFlink[q[i]] = q[i + 1] /\ plBlink[q[i + 1]] = q[i]
  <2>1. i \in 1..n /\ i + 1 \in 1..n /\ i + 1 # 1
    OBVIOUS
  <2>2. ring[i + 1] = q[i] /\ ring[(i + 1) + 1] = q[i + 1]
    BY <1>2, <2>1
  <2> QED  BY <2>1, <2>2
<1> HIDE DEF Links
<1>8. (\A i \in 1..(n + 1) : Links(i)) <=>
        Links(1) /\ Links(n + 1) /\ \A i \in 1..(n - 1) : Links(i + 1)
  <2>1. ASSUME \A i \in 1..(n + 1) : Links(i)
        PROVE  Links(1) /\ Links(n + 1) /\ \A i \in 1..(n - 1) : Links(i + 1)
    <3>1. 1 \in 1..(n + 1) /\ n + 1 \in 1..(n + 1) /\ \A i \in 1..(n - 1) : i + 1 \in 1..(n + 1)
      OBVIOUS
    <3> QED  BY <2>1, <3>1
  <2>2. ASSUME Links(1), Links(n + 1), \A i \in 1..(n - 1) : Links(i + 1), NEW k \in 1..(n + 1)
        PROVE  Links(k)
    <3>1. k = 1 \/ k = n + 1 \/ (k - 1 \in 1..(n - 1) /\ (k - 1) + 1 = k)
      OBVIOUS
    <3> QED  BY <2>2, <3>1
  <2> QED  BY <2>1, <2>2
<1> QED  BY <1>1, <1>3, <1>5, <1>6, <1>7, <1>8

\* What the scan accepts is a ring.
LEMMA PlAcceptsRings ==
  ASSUME PlLinksTyped, PlScanOk
  PROVE  \E q \in PlOrders : PlIsRing(q, FALSE) /\ plBlink[q[1]] # PlNull
<1>1. PICK n \in Nat \ {0} : n = Len(PlProcs)
  BY PlConstants
<1>2. /\ PlAt(0) = plFlink[PlHead] /\ PlAt(n) = PlHead
      /\ \A j \in 0..(n - 1) :
           /\ PlAt(j) \in PlSeeded /\ PlAt(j + 1) = plFlink[PlAt(j)]
           /\ plBlink[PlAt(j)] # PlNull /\ PlBack(PlAt(j)) = PlAt(j)
      /\ \A i, j \in 0..(n - 1) : PlAt(i) = PlAt(j) => i = j
  BY <1>1, PlOkTrail
<1> DEFINE q == [i \in 1..n |-> PlAt(i - 1)]
<1>3. \A i \in 1..n : i - 1 \in 0..(n - 1) /\ q[i] = PlAt(i - 1)
  OBVIOUS
<1>4. q \in [1..n -> PlSeeded]
  BY <1>2
<1>5. q \in PlOrders
  <2>1. \A a, b \in 1..n : q[a] = q[b] => a = b
    BY <1>2, <1>3
  <2> QED  BY <1>1, <1>4, <2>1 DEF PlOrders, IsInjective
<1>6. plFlink[PlHead] = q[1] /\ plBlink[q[1]] # PlNull
  <2>1. 1 \in 1..n /\ 1 - 1 = 0 /\ 0 \in 0..(n - 1)
    OBVIOUS
  <2> QED  BY <1>2, <1>3, <2>1
<1> HIDE DEF q
<1>7. ASSUME NEW i \in 1..n
      PROVE  plFlink[q[i]] = PlAt(i) /\ PlBack(q[i]) = q[i]
  <2>1. i - 1 \in 0..(n - 1) /\ (i - 1) + 1 = i /\ q[i] = PlAt(i - 1)
    BY <1>3
  <2> QED  BY <1>2, <2>1
<1>8. \A x \in PlSeeded : PlNext(x) = plFlink[x]
  BY PlConstants DEF PlNext
<1>9. plFlink[q[n]] = PlHead /\ plBlink[PlHead] = q[n]
  <2>1. n \in 1..n
    OBVIOUS
  <2> QED  BY <1>2, <1>4, <1>7, <1>8, <2>1 DEF PlBack
<1>10. ASSUME NEW i \in 1..(n - 1)
       PROVE  plFlink[q[i]] = q[i + 1] /\ plBlink[q[i + 1]] = q[i]
  <2>1. i \in 1..n /\ i + 1 \in 1..n /\ (i + 1) - 1 = i
    OBVIOUS
  <2>2. plFlink[q[i]] = q[i + 1]
    BY <1>3, <1>7, <2>1
  <2>3. q[i + 1] \in PlSeeded /\ q[i] \in PlSeeded
    BY <1>4, <2>1
  <2>4. q[i + 1] # PlHead /\ q[i + 1] # PlNull
    BY <2>3, PlConstants
  <2>5. PlBack(q[i]) = plBlink[q[i + 1]]
    BY <1>8, <2>2, <2>3, <2>4 DEF PlBack, PlPrev
  <2> QED  BY <1>7, <2>1, <2>2, <2>5
<1>11. PlIsRing(q, FALSE)
  BY <1>1, <1>4, <1>6, <1>9, <1>10, PlRingLinks
<1> QED  BY <1>5, <1>6, <1>11

\* A ring is accepted.
LEMMA PlRingsAccepted ==
  ASSUME PlLinksTyped, NEW q \in PlOrders, PlIsRing(q, FALSE), plBlink[q[1]] # PlNull
  PROVE  PlScanOk
<1> HIDE DEF PlScan
<1>1. PICK n \in Nat \ {0} : n = Len(PlProcs) /\ n < PlMaxWalk
  BY PlConstants
<1>2. q \in [1..n -> PlSeeded] /\ IsInjective(q)
  BY <1>1 DEF PlOrders
<1>3. /\ plFlink[PlHead] = q[1] /\ plFlink[q[n]] = PlHead /\ plBlink[PlHead] = q[n]
      /\ \A i \in 1..(n - 1) : plFlink[q[i]] = q[i + 1] /\ plBlink[q[i + 1]] = q[i]
  BY <1>1, <1>2, PlRingLinks
<1>4. \A i \in 1..n : /\ q[i] \in PlSeeded /\ q[i] \in PlNodes /\ q[i] # PlHead /\ q[i] # PlNull
                      /\ PlNext(q[i]) = plFlink[q[i]] /\ PlPrev(q[i]) = plBlink[q[i]]
  BY <1>2, PlConstants DEF PlNext, PlPrev
<1>5. \A i \in 1..n : PlNext(q[i]) = IF i = n THEN PlHead ELSE q[i + 1]
  BY <1>3, <1>4
<1>6. \A i \in 1..n : PlPrev(q[i]) # PlNull
  <2> SUFFICES ASSUME NEW i \in 1..n
               PROVE  plBlink[q[i]] # PlNull
    BY <1>4
  <2>1. CASE i = 1
    BY <2>1
  <2>2. CASE i # 1
    <3>1. i - 1 \in 1..(n - 1) /\ (i - 1) + 1 = i /\ i - 1 \in 1..n
      BY <2>2
    <3> QED  BY <1>3, <1>4, <3>1
  <2> QED  BY <2>1, <2>2
<1> DEFINE Expected(k) == [at |-> IF k = n THEN PlHead ELSE q[k + 1],
                           reached |-> {q[i] : i \in 1..k}, walked |-> k, over |-> FALSE]
           N == {k \in Nat : k <= n => PlScan[k] = Expected(k)}
<1>7. 0 \in N
  <2>1. PlScan[0] = PlScanStart
    BY PlScanUnfolds
  <2>2. {q[i] : i \in 1..0} = {} /\ 0 # n /\ 0 + 1 = 1
    OBVIOUS
  <2> QED  BY <1>3, <2>1, <2>2 DEF PlScanStart
<1>8. ASSUME NEW k \in Nat, k \in N, k + 1 <= n
      PROVE  PlScan[k + 1] = Expected(k + 1)
  <2>1. k # n /\ k + 1 \in 1..n /\ k + 1 \in 1..PlMaxWalk /\ (k + 1) - 1 = k /\ k <= n
    BY <1>1, <1>8, PlConstants
  <2>2. PICK s : s = PlScan[k]
    OBVIOUS
  <2>3. s.at = q[k + 1] /\ s.reached = {q[i] : i \in 1..k} /\ s.walked = k /\ ~s.over
    BY <1>8, <2>1, <2>2
  <2>4. s.at \notin {PlHead, PlNull} /\ PlNull # PlNext(s.at) /\ PlNull # PlPrev(s.at)
    <3>1. PlNext(s.at) # PlNull
      <4>1. k + 1 = n \/ k + 2 \in 1..n
        BY <2>1
      <4>2. PlNext(q[k + 1]) = PlHead \/ (k + 2 \in 1..n /\ PlNext(q[k + 1]) = q[k + 2])
        BY <1>5, <2>1, <4>1
      <4> QED  BY <1>4, <2>3, <4>2, PlConstants
    <3> QED  BY <1>4, <1>6, <2>1, <2>3, <3>1
  <2> DEFINE null == PlNull \in {PlNext(s.at), PlPrev(s.at)}
  <2>5. ~null
    BY <2>4
  <2>6. PlRound(s) = [at |-> IF null THEN s.at ELSE PlNext(s.at), reached |-> s.reached \cup {s.at},
                      walked |-> IF null THEN s.walked ELSE s.walked + 1, over |-> null]
    BY <2>3, <2>4, Zenon DEF PlRound
  <2>7. null = FALSE
    BY <2>5
  <2> HIDE DEF null
  <2>8. PlRound(s) = [at |-> PlNext(s.at), reached |-> s.reached \cup {s.at}, walked |-> s.walked + 1,
                      over |-> FALSE]
    BY <2>6, <2>7, Zenon
  <2>9. PlNext(s.at) = IF k + 1 = n THEN PlHead ELSE q[(k + 1) + 1]
    BY <1>5, <2>1, <2>3
  <2>10. {q[i] : i \in 1..(k + 1)} = {q[i] : i \in 1..k} \cup {q[k + 1]}
    <3>1. \A i : i \in 1..(k + 1) <=> i \in 1..k \/ i = k + 1
      OBVIOUS
    <3> QED  BY <3>1
  <2>11. PlScan[k + 1] = PlRound(s)
    BY <2>1, <2>2, PlScanUnfolds
  <2> QED  BY <2>3, <2>8, <2>9, <2>10, <2>11
<1>9. PlScan[n] = Expected(n)
  <2>1. \A k \in Nat : k \in N => k + 1 \in N
    BY <1>8
  <2>2. Nat \subseteq N
    <3> HIDE DEF N
    <3> QED  BY <1>7, <2>1, SetInduction
  <2> QED  BY <2>2
<1>10. PlScan[n].at = PlHead
  BY <1>9
<1>11. PlScan[PlMaxWalk] = PlScan[n]
  <2> DEFINE M == {k \in Nat : n <= k /\ k <= PlMaxWalk => PlScan[k] = PlScan[n]}
  <2>1. 0 \in M
    OBVIOUS
  <2>2. ASSUME NEW k \in Nat, k \in M, n <= k + 1, k + 1 <= PlMaxWalk
        PROVE  PlScan[k + 1] = PlScan[n]
    <3>1. CASE k + 1 = n
      BY <3>1
    <3>2. CASE k + 1 # n
      <4>1. PlScan[k] = PlScan[n]
        BY <2>2, <3>2, PlConstants
      <4>2. k + 1 \in 1..PlMaxWalk /\ (k + 1) - 1 = k
        BY <2>2, PlConstants
      <4>3. PlScan[k + 1] = PlRound(PlScan[k])
        BY <4>2, PlScanUnfolds
      <4> QED  BY <1>10, <4>1, <4>3 DEF PlRound
    <3> QED  BY <3>1, <3>2
  <2>3. Nat \subseteq M
    <3>1. \A k \in Nat : k \in M => k + 1 \in M
      BY <2>2
    <3> HIDE DEF M
    <3> QED  BY <2>1, <3>1, SetInduction
  <2> QED  BY <1>1, <2>3, PlConstants
<1>12. {q[i] : i \in 1..n} = PlSeeded
  <2>1. q \in Injection(1..n, PlSeeded)
    BY <1>2 DEF Injection
  <2>2. q \in Surjection(1..n, PlSeeded)
    BY <1>1, <2>1, PlCounted
  <2> QED  BY <1>2, <2>2 DEF Surjection
<1>13. \A x \in PlSeeded : PlBack(x) = x
  <2> SUFFICES ASSUME NEW x \in PlSeeded
               PROVE  PlBack(x) = x
    OBVIOUS
  <2>1. PICK i \in 1..n : x = q[i]
    BY <1>12
  <2>2. CASE i = n
    BY <1>3, <1>5, <2>1, <2>2 DEF PlBack
  <2>3. CASE i # n
    <3>1. i \in 1..(n - 1) /\ i + 1 \in 1..n
      BY <2>3
    <3>2. PlNext(x) = q[i + 1]
      BY <1>5, <2>1, <2>3
    <3> QED  BY <1>3, <1>4, <2>1, <3>1, <3>2 DEF PlBack
  <2> QED  BY <2>2, <2>3
<1>14. PICK s : s = PlScan[PlMaxWalk] /\ s = Expected(n)
  BY <1>9, <1>11
<1>15. s.reached = PlSeeded /\ ~s.over /\ s.walked = n
  BY <1>12, <1>14
<1> QED  BY <1>1, <1>13, <1>14, <1>15 DEF PlScanOk

\* The walk without a limit is the iteration of its steps.
LEMMA PlWalkUnfolds ==
  ASSUME PlLinksTyped
  PROVE  LET m == Cardinality(PlNodes) + 1
         IN /\ m \in Nat /\ Len(PlProcs) < m
            /\ PlWalked[0] = plFlink[PlHead]
            /\ \A k \in 1..m : PlWalked[k] = IF PlWalked[k - 1] \in {PlHead, PlNull}
                                             THEN PlWalked[k - 1] ELSE PlNext(PlWalked[k - 1])
<1>1. IsFiniteSet(PlNodes) /\ Cardinality(PlNodes) \in Nat
      /\ Cardinality(PlSeeded) <= Cardinality(PlNodes)
  <2>1. IsFiniteSet({PlHead} \cup PlSeeded)
    BY PlCounted, FS_Singleton, FS_Union
  <2>2. IsFiniteSet(PlNodes)
    BY <2>1, PlAssumption, FS_Union DEF PlNodes
  <2> QED  BY <2>2, PlConstants, FS_CardinalityType, FS_Subset
<1>2. PICK m \in Nat : m = Cardinality(PlNodes) + 1 /\ Len(PlProcs) < m
  BY <1>1, PlCounted, PlConstants
<1>3. PICK base \in PlLinks : base = plFlink[PlHead]
  BY PlConstants DEF PlLinksTyped
<1> DEFINE go(n) == IF n \in {PlHead, PlNull} THEN n ELSE PlNext(n)
           Is(f) == f = [k \in 0..m |-> IF k = 0 THEN base ELSE go(f[k - 1])]
<1>4. PICK step \in [PlLinks \X (1..m) -> PlLinks] :
        \A x \in PlLinks, k \in 1..m : step[<<x, k>>] = go(x)
  <2>1. \A n \in PlLinks : go(n) \in PlLinks
    BY PlConstants DEF PlLinksTyped, PlLinks, PlNext
  <2> DEFINE h == [q \in PlLinks \X (1..m) |-> go(q[1])]
  <2> HIDE DEF go
  <2>2. h \in [PlLinks \X (1..m) -> PlLinks]
    BY <2>1
  <2>3. \A x \in PlLinks, k \in 1..m : h[<<x, k>>] = go(x)
    OBVIOUS
  <2> HIDE DEF h
  <2> QED  BY <2>2, <2>3
<1> HIDE DEF go
<1>5. PICK f \in [0..m -> PlLinks] :
        /\ f[0] = base
        /\ \A n \in 1..m : f[n] = step[<<f[n - 1], n>>]
  <2>1. IsStep(step, PlLinks, m)
    BY <1>4 DEF IsStep
  <2>2. PICK f : Iterates(f, PlLinks, base, m, step)
    BY <1>2, <1>3, <2>1, Recursion
  <2> QED  BY <2>2 DEF Iterates
<1>6. Is(f)
  <2>1. \A n \in 1..m : f[n - 1] \in PlLinks /\ n \in 0..m
    BY <1>5
  <2>2. \A n \in 1..m : f[n] = go(f[n - 1])
    BY <1>4, <1>5, <2>1
  <2>3. \A k \in 0..m : f[k] = IF k = 0 THEN base ELSE go(f[k - 1])
    BY <1>5, <2>2
  <2> QED  BY <2>3
<1>7. Is(PlWalked)
  <2>1. PlWalked = CHOOSE g : Is(g)
    BY <1>2, <1>3 DEF PlWalked, go
  <2> HIDE DEF Is
  <2> QED  BY <1>6, <2>1
<1> HIDE DEF PlWalked
<1>8. PlWalked[0] = base /\ \A k \in 1..m : PlWalked[k] = go(PlWalked[k - 1])
  BY <1>7
<1> QED  BY <1>2, <1>3, <1>8 DEF go

\* The walks come to an end on every list the scan accepts.
LEMMA PlAcceptedEnds ==
  ASSUME PlLinksTyped, PlScanOk
  PROVE  ~PlHangs
<1> HIDE DEF PlScan, PlWalked
<1>1. PICK n \in Nat \ {0} : n = Len(PlProcs)
  BY PlConstants
<1>2. PICK m \in Nat : m = Cardinality(PlNodes) + 1 /\ n < m
  BY <1>1, PlWalkUnfolds
<1>3. /\ PlAt(0) = plFlink[PlHead] /\ PlAt(n) = PlHead
      /\ \A j \in 0..(n - 1) : PlAt(j) \in PlSeeded /\ PlAt(j + 1) = plFlink[PlAt(j)]
  BY <1>1, PlOkTrail
<1>4. /\ PlWalked[0] = plFlink[PlHead]
      /\ \A k \in 1..m : PlWalked[k] = IF PlWalked[k - 1] \in {PlHead, PlNull}
                                       THEN PlWalked[k - 1] ELSE PlNext(PlWalked[k - 1])
  BY <1>2, PlWalkUnfolds
<1> DEFINE N == {k \in Nat : k <= m => PlWalked[k] = IF k <= n THEN PlAt(k) ELSE PlHead}
<1>5. 0 \in N
  BY <1>3, <1>4
<1>6. ASSUME NEW k \in Nat, k \in N, k + 1 <= m
      PROVE  PlWalked[k + 1] = IF k + 1 <= n THEN PlAt(k + 1) ELSE PlHead
  <2>1. k + 1 \in 1..m /\ (k + 1) - 1 = k
    BY <1>6
  <2>2. CASE k < n
    <3>1. k \in 0..(n - 1) /\ PlWalked[k] = PlAt(k)
      BY <1>6, <2>2
    <3>2. PlAt(k) \in PlSeeded /\ PlAt(k) \notin {PlHead, PlNull}
      BY <1>3, <3>1, PlConstants
    <3>3. PlWalked[k + 1] = plFlink[PlAt(k)]
      BY <1>4, <2>1, <3>1, <3>2 DEF PlNext
    <3>4. PlAt(k + 1) = plFlink[PlAt(k)] /\ k + 1 <= n
      BY <1>3, <2>2, <3>1
    <3> QED  BY <3>3, <3>4
  <2>3. CASE ~(k < n)
    <3>1. PlWalked[k] = PlHead /\ ~(k + 1 <= n)
      BY <1>3, <1>6, <2>3
    <3>2. PlWalked[k + 1] = PlHead
      BY <1>4, <2>1, <3>1
    <3> QED  BY <3>1, <3>2
  <2> QED  BY <2>2, <2>3
<1>7. PlWalked[m] = PlHead
  <2>1. \A k \in Nat : k \in N => k + 1 \in N
    BY <1>6
  <2>2. Nat \subseteq N
    <3> HIDE DEF N
    <3> QED  BY <1>5, <2>1, SetInduction
  <2> QED  BY <1>2, <2>2
<1> QED  BY <1>2, <1>7 DEF PlHangs

-----------------------------------------------------------------------------
\* The scan is exact on every list.
LEMMA PlScanExactly ==
  ASSUME PlLinksTyped
  PROVE  PlScanExact
<1>1. PlScanOk => \E q \in PlOrders : PlIsRing(q, FALSE) /\ plBlink[q[1]] # PlNull
  BY PlAcceptsRings
<1>2. (\E q \in PlOrders : PlIsRing(q, FALSE) /\ plBlink[q[1]] # PlNull) => PlScanOk
  BY PlRingsAccepted
<1>3. PlHangs => ~PlScanOk
  BY PlAcceptedEnds
<1> QED  BY <1>1, <1>2, <1>3, Zenon DEF PlScanExact

\* The ring of bootstrap is well typed.
LEMMA PlTypeInit == PlInit => PlTypeOK
<1> SUFFICES ASSUME PlInit
             PROVE  PlTypeOK
  OBVIOUS
<1> DEFINE ring == <<PlHead>> \o PlProcs \o <<PlHead>>
           at(n) == CHOOSE i \in 1..Len(PlProcs) + 1 : ring[i] = n
           before(n) == IF n = PlHead THEN Last(PlProcs) ELSE ring[at(n) - 1]
           own == PlNodes \ PlOther
<1>1. /\ plFlink = [n \in PlNodes |-> IF n \in own THEN ring[at(n) + 1] ELSE PlNull]
      /\ plBlink = [n \in PlNodes |-> IF n \in own THEN before(n) ELSE PlNull]
      /\ plCid = <<>> /\ plPatches = 0
  BY DEF PlInit
<1>2. PICK c \in Nat \ {0} : c = Len(PlProcs)
  BY PlConstants
<1>3. PlProcs \in [1..c -> PlSeeded]
  BY <1>2, PlConstants DEF Injection
<1>4. ring[1] = PlHead /\ ring[c + 2] = PlHead /\ \A i \in 1..c : ring[i + 1] = PlProcs[i]
  BY <1>2, <1>3, PlRingNodes
<1> HIDE DEF ring
<1>5. \A i \in 1..(c + 2) : ring[i] \in PlNodes
  <2> SUFFICES ASSUME NEW i \in 1..(c + 2)
               PROVE  ring[i] \in PlNodes
    OBVIOUS
  <2>1. i = 1 \/ i = c + 2 \/ (i - 1 \in 1..c /\ (i - 1) + 1 = i)
    OBVIOUS
  <2> QED  BY <1>3, <1>4, <2>1, PlConstants
<1>6. ASSUME NEW n \in own
      PROVE  at(n) \in 1..(c + 1) /\ ring[at(n)] = n
  <2>1. n = PlHead \/ n \in PlSeeded
    BY <1>6 DEF PlNodes
  <2>2. \E i \in 1..(c + 1) : ring[i] = n
    <3>1. CASE n = PlHead
      BY <1>4, <3>1
    <3>2. CASE n \in PlSeeded
      <4>1. PICK i \in 1..c : PlProcs[i] = n
        BY <1>2, <3>2, PlConstants DEF Surjection
      <4>2. i + 1 \in 1..(c + 1) /\ ring[i + 1] = n
        BY <1>4, <4>1
      <4> QED  BY <4>2
    <3> QED  BY <2>1, <3>1, <3>2
  <2>3. at(n) = CHOOSE i \in 1..(c + 1) : ring[i] = n
    BY <1>2
  <2> QED  BY <2>2, <2>3
<1>7. ASSUME NEW n \in own
      PROVE  ring[at(n) + 1] \in PlNodes /\ before(n) \in PlNodes
  <2>1. PICK i \in 1..(c + 1) : i = at(n) /\ ring[i] = n
    BY <1>6
  <2>2. i + 1 \in 1..(c + 2)
    OBVIOUS
  <2>3. CASE n = PlHead
    <3>1. Last(PlProcs) = PlProcs[c] /\ c \in 1..c
      BY <1>2 DEF Last
    <3> QED  BY <1>3, <1>5, <2>1, <2>2, <2>3, <3>1, PlConstants
  <2>4. CASE n # PlHead
    <3>1. i - 1 \in 1..(c + 2)
      BY <1>4, <2>1, <2>4
    <3> QED  BY <1>5, <2>1, <2>2, <2>4, <3>1
  <2> QED  BY <2>3, <2>4
<1> HIDE DEF at, before, own
<1>8. plFlink \in [PlNodes -> PlLinks] /\ plBlink \in [PlNodes -> PlLinks]
  BY <1>1, <1>7 DEF PlLinks
<1>9. DOMAIN plCid = {}
  BY <1>1
<1>10. plPatches \in 0..PlMaxPatches
  BY <1>1, PlConstants
<1> QED  BY <1>8, <1>9, <1>10 DEF PlTypeOK, PlLinks

\* Each write of a driver keeps the types, and so does the table of ids.
LEMMA PlTypeStep == PlTypeOK /\ [PlStep]_plVars => PlTypeOK'
<1> SUFFICES ASSUME PlTypeOK, [PlStep]_plVars
             PROVE  PlTypeOK'
  OBVIOUS
<1> USE DEF PlTypeOK
<1>1. ASSUME NEW n \in PlNodes, NEW v \in PlNodes \cup {PlNull}, PlPatchFlink(n, v)
      PROVE  PlTypeOK'
  BY <1>1, PlConstants DEF PlPatchFlink, PlPatched
<1>2. ASSUME NEW n \in PlNodes, NEW v \in PlNodes \cup {PlNull}, PlPatchBlink(n, v)
      PROVE  PlTypeOK'
  BY <1>2, PlConstants DEF PlPatchBlink, PlPatched
<1>3. ASSUME NEW p \in PlSeeded, PlUnlink(p)
      PROVE  PlTypeOK'
  <2>1. p \in PlNodes /\ p # PlNull
    BY PlConstants
  <2>2. plFlink[p] \in PlNodes \cup {PlNull} /\ plBlink[p] \in PlNodes \cup {PlNull}
    BY <2>1
  <2>3. plFlink' \in [PlNodes -> PlNodes \cup {PlNull}]
    BY <1>3, <2>2 DEF PlUnlink
  <2>4. plBlink' \in [PlNodes -> PlNodes \cup {PlNull}]
    BY <1>3, <2>2 DEF PlUnlink
  <2>5. plPatches' \in 0..PlMaxPatches /\ plCid' = plCid
    BY <1>3, PlConstants DEF PlUnlink, PlPatched
  <2> QED  BY <2>3, <2>4, <2>5
<1>4. CASE PlCreateCidTable
  <2> DEFINE K == {PlPid[p] : p \in {r \in PlSeeded : PlPid[r] < PlCidLimit}}
  <2>1. plCid' = [k \in K |-> CHOOSE p \in PlSeeded : PlPid[p] = k]
    BY <1>4 DEF PlCreateCidTable
  <2>2. \A k \in K : k < PlCidLimit /\ \E p \in PlSeeded : PlPid[p] = k
    OBVIOUS
  <2> HIDE DEF K
  <2>3. \A k \in DOMAIN plCid' : k < PlCidLimit /\ plCid'[k] \in PlSeeded
    BY <2>1, <2>2
  <2> QED  BY <1>4, <2>3 DEF PlCreateCidTable
<1>5. CASE UNCHANGED plVars
  BY <1>5 DEF plVars
<1> QED  BY <1>1, <1>2, <1>3, <1>4, <1>5 DEF PlStep

\* The list's links, the table of ids and the patches keep their types.
THEOREM ListTypeCorrect == PlSpec => []PlTypeOK
<1>1. PlInit => PlTypeOK
  BY PlTypeInit
<1>2. PlTypeOK /\ [PlStep]_plVars => PlTypeOK'
  BY PlTypeStep
<1> QED  BY <1>1, <1>2, PTL DEF PlSpec

\* Whatever a driver writes into the links, the scan accepts the list exactly when it is
\* a ring of the seeded processes, and no list it accepts keeps a walk from ending.
THEOREM ScanExact == PlSpec => []PlScanExact
<1>1. PlTypeOK => PlScanExact
  BY PlScanExactly DEF PlTypeOK, PlLinksTyped, PlLinks
<1> QED  BY <1>1, ListTypeCorrect, PTL

-----------------------------------------------------------------------------
(***************************************************************************)
(* Exceptions (Seh).  For every call in progress there is a row of registers,   *)
(* what they are as its prologue is undone from where it has got to, down to    *)
(* its return address; the rows meet, the end of one being the beginning of     *)
(* its caller's.  Every instruction of a prologue, every call and every move of *)
(* rsp below a frame register makes new rows of old ones, and the search only   *)
(* follows them.                                                           *)
(***************************************************************************)

SehRegs == [rsp : Int, rbp : Int]
SehCodesOf(i) == sehImage[sehCalls[i].fn].codes
SehLeft(i) == Len(SehCodesOf(i)) - sehCalls[i].done

\* u is what the registers are as the prologue of call i is undone, from where it has
\* got to down to the return address.
SehUndoes(i, u) ==
  LET codes == SehCodesOf(i)
      n == Len(codes)
  IN /\ SehLeft(i) \in 0..n
     /\ u \in [0..n -> SehRegs]
     /\ 1 <= u[n].rsp
     /\ \A j \in SehLeft(i)..n : u[n].rsp <= u[j].rsp /\ u[j].rsp <= Len(sehCells)
     /\ \A j \in (SehLeft(i) + 1)..n : u[j] = SehUndo(u[j - 1], codes[j])

\* Where the return address of call i is, and the registers of its caller there.
SehReturns(i, u) == u[Len(SehCodesOf(i))]

\* tr undoes all calls: each ends where its caller was.
SehStack(tr) ==
  LET last == Len(sehCalls)
  IN /\ \A i \in 1..last : SehUndoes(i, tr[i]) /\ (i < last => SehLeft(i) = 0)
     /\ SehReturns(1, tr[1]).rsp = 1 /\ sehCells[1] = SehMarker
     /\ \A i \in 2..last :
          LET at == SehReturns(i, tr[i])
          IN sehCells[at.rsp] = sehCalls[i - 1].rip
             /\ tr[i - 1][0] = [rsp |-> at.rsp - 1, rbp |-> at.rbp]
     /\ tr[last][SehLeft(last)] = [rsp |-> Len(sehCells), rbp |-> sehRbp]

\* Calls are of functions, at one of their instructions.
SehCallsInv ==
  \A i \in 1..Len(sehCalls) :
    /\ sehImage[sehCalls[i].fn].chain = 0
    /\ sehCalls[i].rip \in SehBody(sehCalls[i].fn)

\* Nothing has been searched before the fault, and filters are asked from the inside out.
SehAskedInv ==
  /\ sehFault = "none" => sehWalked = 0 /\ sehAsked = <<>> /\ sehOutcome = "none"
  /\ \A j \in DOMAIN sehAsked :
       /\ sehAsked[j].frame <= sehWalked
       /\ sehOutcome = "none" => sehAsked[j].frame < sehWalked
       /\ \A k \in 1..j - 1 : sehAsked[k].frame < sehAsked[j].frame

\* The search is at the call it has come to.
SehAt(tr) ==
  sehFault = "opcode" =>
    /\ sehWalked < Len(sehCalls) /\ SehSound(sehWalked) =>
         LET i == Len(sehCalls) - sehWalked
         IN sehCtx = [rip |-> sehCalls[i].rip, rsp |-> tr[i][0].rsp, rbp |-> tr[i][0].rbp]
    /\ SehSound(Len(sehCalls) - 1) =>
         /\ sehWalked <= Len(sehCalls)
         /\ sehWalked = Len(sehCalls) => sehCtx.rip = SehMarker
         /\ sehOutcome = "unhandled" =>
              \/ sehWalked \in {Len(sehCalls), SehMaxWalk}
              \/ sehAsked # <<>> /\ Last(sehAsked).verdict \in {"other", "execute", "fault"}

SehInv ==
  /\ SehTypeOK /\ SehCallsInv /\ SehAskedInv
  /\ \E tr : SehStack(tr) /\ SehAt(tr)

-----------------------------------------------------------------------------
\* What the assumption and the types say of the table at hand.
LEMMA SehTable ==
  ASSUME SehTypeOK
  PROVE  /\ SehMaxDepth \in Nat \ {0} /\ SehMaxWalk \in Nat \ {0} /\ SehData \in Int
         /\ 0 \notin DOMAIN sehImage /\ SehImage(sehImage)
BY SehAssumption DEF SehTypeOK

LEMMA SehEntry ==
  ASSUME SehTypeOK, NEW n \in DOMAIN sehImage
  PROVE  /\ sehImage[n].begin \in Nat \ {0} /\ sehImage[n].end \in Nat
         /\ sehImage[n].begin < sehImage[n].end
         /\ sehImage[n].chain # 0 =>
              /\ sehImage[n].chain \in DOMAIN sehImage /\ sehImage[n].listed
              /\ sehImage[sehImage[n].chain].chain = 0
         /\ \A m \in DOMAIN sehImage \ {n} : sehImage[n].listed /\ sehImage[m].listed =>
              sehImage[n].end <= sehImage[m].begin \/ sehImage[m].end <= sehImage[n].begin
         /\ sehImage[n].codes \in Seq({"push", "alloc", "fpreg"})
         /\ Len(sehImage[n].codes) \in Nat
         /\ DOMAIN sehImage[n].codes = 1..Len(sehImage[n].codes)
         /\ \A k \in DOMAIN sehImage[n].codes : sehImage[n].codes[k] \in {"push", "alloc", "fpreg"}
<1>1. /\ sehImage[n].begin \in Nat \ {0} /\ sehImage[n].end \in Nat
      /\ sehImage[n].begin < sehImage[n].end
      /\ sehImage[n].chain # 0 =>
              /\ sehImage[n].chain \in DOMAIN sehImage /\ sehImage[n].listed
              /\ sehImage[sehImage[n].chain].chain = 0
      /\ \A m \in DOMAIN sehImage \ {n} : sehImage[n].listed /\ sehImage[m].listed =>
              sehImage[n].end <= sehImage[m].begin \/ sehImage[m].end <= sehImage[n].begin
      /\ sehImage[n].codes \in Seq({"push", "alloc", "fpreg"})
  BY SehTable DEF SehImage
<1>2. /\ Len(sehImage[n].codes) \in Nat
      /\ DOMAIN sehImage[n].codes = 1..Len(sehImage[n].codes)
      /\ \A k \in DOMAIN sehImage[n].codes : sehImage[n].codes[k] \in {"push", "alloc", "fpreg"}
  BY <1>1, LenProperties, ElementOfSeq
<1> QED  BY <1>1, <1>2

\* A frame register is set at one place, the registers it is made from pushed before.
LEMMA SehFrameRegister ==
  ASSUME SehTypeOK, NEW n \in DOMAIN sehImage, NEW k \in DOMAIN sehImage[n].codes,
         sehImage[n].codes[k] = "fpreg"
  PROVE  SehFramed(sehImage[n].codes, k)
<1> DEFINE codes == sehImage[n].codes
<1>1. codes \in Seq({"push", "alloc", "fpreg"}) /\ DOMAIN codes = 1..Len(codes) /\ Len(codes) \in Nat
  BY SehEntry
<1>2. "fpreg" \in ToSet(codes)
  BY DEF ToSet
<1>3. PICK q \in DOMAIN codes : SehFramed(codes, q)
  BY <1>2, SehTable DEF SehImage
<1>4. PICK p \in DOMAIN codes :
        /\ q < p /\ codes[p] = "push"
        /\ \A j \in DOMAIN codes \ {q} :
            (j < p => codes[j] = "alloc") /\ (p < j => codes[j] # "fpreg")
  BY <1>3 DEF SehFramed
<1>5. q = k
  <2> SUFFICES ASSUME q # k PROVE FALSE
    OBVIOUS
  <2>1. k \in DOMAIN codes \ {q}
    OBVIOUS
  <2>2. k < p \/ k = p \/ p < k
    BY <1>1, <1>4
  <2> QED  BY <1>4, <2>1, <2>2
<1> QED  BY <1>3, <1>5

\* An instruction is in one entry, and that belongs to its function.
LEMMA SehLookupFinds ==
  ASSUME SehTypeOK, NEW f \in DOMAIN sehImage, NEW rip, rip \in SehBody(f),
         sehImage[f].chain = 0, sehImage[f].listed
  PROVE  /\ SehLookup(rip) # {}
         /\ \A n \in SehLookup(rip) : SehResolve(n) = sehImage[f]
<1>1. PICK k \in DOMAIN sehImage : (k = f \/ sehImage[k].chain = f)
                                   /\ rip \in sehImage[k].begin..sehImage[k].end - 1
  BY DEF SehBody
<1>2. f # 0
  BY SehTable
<1>3. sehImage[k].listed
  BY <1>1, <1>2, SehEntry
<1>4. k \in SehLookup(rip)
  BY <1>1, <1>3 DEF SehLookup
<1>5. ASSUME NEW n \in SehLookup(rip) PROVE n = k
  <2>1. n \in DOMAIN sehImage /\ sehImage[n].listed /\ rip \in sehImage[n].begin..sehImage[n].end - 1
    BY DEF SehLookup
  <2>2. /\ sehImage[n].begin \in Nat /\ sehImage[n].end \in Nat
        /\ sehImage[k].begin \in Nat /\ sehImage[k].end \in Nat
    BY <2>1, SehEntry
  <2>3. n # k => sehImage[n].end <= sehImage[k].begin \/ sehImage[k].end <= sehImage[n].begin
    BY <1>3, <2>1, SehEntry
  <2> QED  BY <1>1, <2>1, <2>2, <2>3
<1>6. SehResolve(k) = sehImage[f]
  BY <1>1, <1>2 DEF SehResolve
<1> QED  BY <1>4, <1>5, <1>6

\* An instruction of a function is a positive number.
LEMMA SehBodyNumbers ==
  ASSUME SehTypeOK, NEW f, NEW rip, rip \in SehBody(f)
  PROVE  rip \in Nat \ {0}
<1>1. PICK k \in DOMAIN sehImage : rip \in sehImage[k].begin..sehImage[k].end - 1
  BY DEF SehBody
<1>2. sehImage[k].begin \in Nat \ {0} /\ sehImage[k].end \in Nat
  BY SehEntry
<1> QED  BY <1>1, <1>2

\* The beginning of a function is an instruction of it.
LEMMA SehBegins ==
  ASSUME SehTypeOK, NEW f \in DOMAIN sehImage
  PROVE  sehImage[f].begin \in SehBody(f)
<1>1. sehImage[f].begin \in sehImage[f].begin..sehImage[f].end - 1
  BY SehEntry
<1> QED  BY <1>1 DEF SehBody

\* The marker is in no entry.
LEMMA SehMarkerApart ==
  ASSUME SehTypeOK
  PROVE  SehLookup(SehMarker) = {}
<1> SUFFICES ASSUME NEW n \in DOMAIN sehImage, SehMarker \in sehImage[n].begin..sehImage[n].end - 1
             PROVE  FALSE
  BY DEF SehLookup
<1> QED  BY SehEntry DEF SehMarker

\* A call in progress is a record of a function.
LEMMA SehCallTyped ==
  ASSUME SehTypeOK
  PROVE  /\ Len(sehCalls) \in Nat \ {0}
         /\ \A i \in 1..Len(sehCalls) :
              /\ sehCalls[i] \in [fn : DOMAIN sehImage, rip : Nat, done : Nat]
              /\ sehCalls[i].fn \in DOMAIN sehImage /\ sehCalls[i].done \in Nat
              /\ SehCodesOf(i) \in Seq({"push", "alloc", "fpreg"})
              /\ Len(SehCodesOf(i)) \in Nat /\ DOMAIN SehCodesOf(i) = 1..Len(SehCodesOf(i))
<1>1. sehCalls \in Seq([fn : DOMAIN sehImage, rip : Nat, done : Nat])
      /\ Len(sehCalls) \in 1..SehMaxDepth
  BY DEF SehTypeOK
<1>2. Len(sehCalls) \in Nat \ {0}
  BY <1>1, LenProperties
<1>3. ASSUME NEW i \in 1..Len(sehCalls)
      PROVE  sehCalls[i] \in [fn : DOMAIN sehImage, rip : Nat, done : Nat]
  BY <1>1, <1>3, ElementOfSeq
<1>4. \A i \in 1..Len(sehCalls) :
        sehCalls[i].fn \in DOMAIN sehImage /\ sehCalls[i].done \in Nat
  BY <1>3
<1> QED  BY <1>2, <1>3, <1>4, SehEntry DEF SehCodesOf

-----------------------------------------------------------------------------
LEMMA SehCellTyped ==
  ASSUME sehCells \in Seq(Int), NEW rsp \in Int
  PROVE  SehCell(rsp) \in Int
BY DEF SehCell, SehNothing

LEMMA SehUndoTyped ==
  ASSUME sehCells \in Seq(Int), NEW regs \in SehRegs, NEW code \in {"push", "alloc", "fpreg"}
  PROVE  SehUndo(regs, code) \in SehRegs
<1>1. regs.rsp \in Int /\ regs.rbp \in Int /\ regs.rsp - 1 \in Int
  BY DEF SehRegs
<1>2. SehCell(regs.rsp) \in Int
  BY <1>1, SehCellTyped
<1>3. CASE code = "push"
  BY <1>1, <1>2, <1>3 DEF SehUndo, SehRegs
<1>4. CASE code = "alloc"
  BY <1>1, <1>4 DEF SehUndo, SehRegs
<1>5. CASE code = "fpreg"
  BY <1>1, <1>5 DEF SehUndo, SehRegs
<1> QED  BY <1>3, <1>4, <1>5

\* The codes of an entry are undone one after the other.
LEMMA SehUnwindUnfolds ==
  ASSUME SehTypeOK, NEW ctx, ctx.rsp \in Int, ctx.rbp \in Int, NEW n \in DOMAIN sehImage
  PROVE  \E undone :
           LET codes == sehImage[n].codes
               regs == undone[Len(codes)]
           IN /\ undone \in [0..Len(codes) -> SehRegs]
              /\ undone[0] = [rsp |-> ctx.rsp, rbp |-> ctx.rbp]
              /\ \A k \in 1..Len(codes) : undone[k] = SehUndo(undone[k - 1], codes[k])
              /\ SehUnwind(ctx, sehImage[n])
                   = [rip |-> SehCell(regs.rsp), rsp |-> regs.rsp - 1, rbp |-> regs.rbp]
<1> DEFINE codes == sehImage[n].codes
           m == Len(codes)
           start == [rsp |-> ctx.rsp, rbp |-> ctx.rbp]
           step == [q \in SehRegs \X (1..m) |-> SehUndo(q[1], codes[q[2]])]
           Is(f) == f = [k \in 0..m |-> IF k = 0 THEN start ELSE SehUndo(f[k - 1], codes[k])]
           Unwound(f) == [rip |-> SehCell(f[m].rsp), rsp |-> f[m].rsp - 1, rbp |-> f[m].rbp]
<1>1. m \in Nat /\ \A k \in 1..m : codes[k] \in {"push", "alloc", "fpreg"}
  BY SehEntry
<1>2. sehCells \in Seq(Int)
  BY DEF SehTypeOK
<1>3. start \in SehRegs
  BY DEF SehRegs
<1>4. IsStep(step, SehRegs, m)
  <2> SUFFICES ASSUME NEW v \in SehRegs, NEW k \in 1..m
               PROVE  SehUndo(v, codes[k]) \in SehRegs
    BY DEF IsStep
  <2> HIDE DEF codes
  <2> QED  BY <1>1, <1>2, SehUndoTyped
<1>5. PICK f : Iterates(f, SehRegs, start, m, step)
  <2> HIDE DEF m, start, step
  <2> QED  BY <1>1, <1>3, <1>4, Recursion
<1>6. f \in [0..m -> SehRegs] /\ f[0] = start
  BY <1>5 DEF Iterates
<1>7. \A k \in 1..m : f[k] = SehUndo(f[k - 1], codes[k])
  <2> SUFFICES ASSUME NEW k \in 1..m
               PROVE  f[k] = SehUndo(f[k - 1], codes[k])
    OBVIOUS
  <2>1. f[k - 1] \in SehRegs
    <3>1. k - 1 \in 0..m
      BY <1>1
    <3> QED  BY <1>6, <3>1
  <2>2. f[k] = step[<<f[k - 1], k>>]
    BY <1>5 DEF Iterates
  <2> QED  BY <2>1, <2>2
<1>8. Is(f)
  <2> HIDE DEF codes, start, step
  <2>1. \A k \in 0..m : f[k] = IF k = 0 THEN start ELSE SehUndo(f[k - 1], codes[k])
    <3> SUFFICES ASSUME NEW k \in 0..m, k # 0
                 PROVE  f[k] = SehUndo(f[k - 1], codes[k])
      BY <1>6
    <3>1. k \in 1..m
      BY <1>1
    <3> QED  BY <1>7, <3>1
  <2>2. f = [k \in 0..m |-> f[k]]
    BY <1>6
  <2> QED  BY <2>1, <2>2
<1> DEFINE g == CHOOSE h : Is(h)
<1>9. SehUnwind(ctx, sehImage[n]) = Unwound(g)
  BY DEF SehUnwind, SehCodes
<1>10. Is(g)
  <2> HIDE DEF Is
  <2> QED  BY <1>8
<1>11. /\ g[0] = start /\ DOMAIN g = 0..m
       /\ \A k \in 1..m : g[k] = SehUndo(g[k - 1], codes[k])
  <2> HIDE DEF g, codes, start
  <2> QED  BY <1>1, <1>10
<1> HIDE DEF g, Is
<1>12. \A k \in Nat : k \in {i \in Nat : i <= m => g[i] = f[i]}
  <2> DEFINE N == {i \in Nat : i <= m => g[i] = f[i]}
  <2> HIDE DEF m, start, step, codes
  <2>1. 0 \in N
    BY <1>6, <1>11
  <2>2. \A k \in Nat : k \in N => k + 1 \in N
    <3> SUFFICES ASSUME NEW k \in Nat, k \in N, k + 1 <= m
                 PROVE  g[k + 1] = f[k + 1]
      OBVIOUS
    <3>1. k + 1 \in 1..m /\ (k + 1) - 1 = k /\ g[k] = f[k]
      BY <1>1
    <3> QED  BY <1>7, <1>11, <3>1
  <2>3. Nat \subseteq N
    <3> HIDE DEF N
    <3> QED  BY <2>1, <2>2, SetInduction
  <2> QED  BY <2>3
<1>13. Unwound(g) = Unwound(f)
  <2> HIDE DEF codes
  <2> QED  BY <1>1, <1>12
<1> HIDE DEF step
<1> QED  BY <1>6, <1>7, <1>9, <1>13

\* Undoing a call's codes gives what its registers were, and with them the caller.
LEMMA SehUndone ==
  ASSUME SehTypeOK, NEW i \in 1..Len(sehCalls), NEW u, SehUndoes(i, u), SehLeft(i) = 0,
         NEW ctx, ctx.rsp = u[0].rsp, ctx.rbp = u[0].rbp
  PROVE  LET at == SehReturns(i, u)
         IN SehUnwind(ctx, sehImage[sehCalls[i].fn])
              = [rip |-> SehCell(at.rsp), rsp |-> at.rsp - 1, rbp |-> at.rbp]
<1> DEFINE n == sehCalls[i].fn
           codes == sehImage[n].codes
           m == Len(codes)
<1>1. n \in DOMAIN sehImage
  BY SehCallTyped
<1>2. m \in Nat
  BY <1>1, SehEntry
<1>3. /\ u \in [0..m -> SehRegs] /\ SehReturns(i, u) = u[m]
      /\ \A k \in 1..m : u[k] = SehUndo(u[k - 1], codes[k])
  BY <1>2 DEF SehUndoes, SehCodesOf, SehReturns
<1>4. u[0] \in SehRegs
  BY <1>2, <1>3
<1>5. ctx.rsp \in Int /\ ctx.rbp \in Int /\ u[0] = [rsp |-> ctx.rsp, rbp |-> ctx.rbp]
  BY <1>4 DEF SehRegs
<1>6. PICK undone :
        /\ undone \in [0..m -> SehRegs]
        /\ undone[0] = [rsp |-> ctx.rsp, rbp |-> ctx.rbp]
        /\ \A k \in 1..m : undone[k] = SehUndo(undone[k - 1], codes[k])
        /\ SehUnwind(ctx, sehImage[n])
              = [rip |-> SehCell(undone[m].rsp), rsp |-> undone[m].rsp - 1, rbp |-> undone[m].rbp]
  <2> HIDE DEF n
  <2> QED  BY <1>1, <1>5, SehUnwindUnfolds
<1>7. \A k \in Nat : k \in {j \in Nat : j <= m => undone[j] = u[j]}
  <2> DEFINE N == {j \in Nat : j <= m => undone[j] = u[j]}
  <2> HIDE DEF m, codes
  <2>1. 0 \in N
    BY <1>5, <1>6
  <2>2. ASSUME NEW k \in Nat, k \in N
        PROVE  k + 1 \in N
    <3>1. ASSUME k + 1 <= m
          PROVE  undone[k + 1] = u[k + 1]
      <4>1. k + 1 \in 1..m /\ (k + 1) - 1 = k /\ undone[k] = u[k]
        BY <1>2, <2>2, <3>1
      <4> QED  BY <1>3, <1>6, <4>1
    <3>2. k + 1 \in Nat
      OBVIOUS
    <3> QED  BY <3>1, <3>2
  <2>3. Nat \subseteq N
    <3> HIDE DEF N
    <3> QED  BY <2>1, <2>2, SetInduction
  <2> QED  BY <2>3
<1>8. undone[m] = u[m]
  BY <1>2, <1>7
<1> HIDE DEF m
<1> QED  BY <1>3, <1>6, <1>8

\* A caller the search goes on in has a stack of its own.
LEMMA SehUnwindTyped ==
  ASSUME SehTypeOK, NEW n \in SehLookup(sehCtx.rip),
         SehUnwind(sehCtx, SehResolve(n)).rip # SehNothing
  PROVE  SehUnwind(sehCtx, SehResolve(n)) \in [rip : Int, rsp : Nat, rbp : Int]
<1>1. PICK m \in DOMAIN sehImage : SehResolve(n) = sehImage[m]
  BY SehEntry DEF SehLookup, SehResolve
<1>2. sehCtx.rsp \in Int /\ sehCtx.rbp \in Int /\ sehCells \in Seq(Int)
  BY DEF SehTypeOK
<1>3. PICK regs : /\ regs \in SehRegs
                  /\ SehUnwind(sehCtx, sehImage[m])
                       = [rip |-> SehCell(regs.rsp), rsp |-> regs.rsp - 1, rbp |-> regs.rbp]
  <2> DEFINE codes == sehImage[m].codes
  <2>1. PICK undone :
           LET regs == undone[Len(codes)]
           IN /\ undone \in [0..Len(codes) -> SehRegs]
              /\ undone[0] = [rsp |-> sehCtx.rsp, rbp |-> sehCtx.rbp]
              /\ \A k \in 1..Len(codes) : undone[k] = SehUndo(undone[k - 1], codes[k])
              /\ SehUnwind(sehCtx, sehImage[m])
                   = [rip |-> SehCell(regs.rsp), rsp |-> regs.rsp - 1, rbp |-> regs.rbp]
    BY <1>1, <1>2, SehUnwindUnfolds
  <2>2. Len(codes) \in Nat
    BY SehEntry
  <2>3. undone[Len(codes)] \in SehRegs
    BY <2>1, <2>2
  <2> QED  BY <2>1, <2>3
<1>4. regs.rsp \in Int /\ regs.rbp \in Int
  BY <1>3 DEF SehRegs
<1>5. regs.rsp \in 1..Len(sehCells)
  BY <1>1, <1>3 DEF SehCell
<1>6. SehCell(regs.rsp) \in Int
  BY <1>2, <1>4, SehCellTyped
<1>7. regs.rsp - 1 \in Nat
  BY <1>4, <1>5
<1> QED  BY <1>1, <1>3, <1>4, <1>6, <1>7

-----------------------------------------------------------------------------
\* The search goes on with a caller below, or ends.
LEMMA SehOnTyped ==
  ASSUME SehTypeOK, sehWalked < SehMaxWalk, NEW n \in SehLookup(sehCtx.rip), SehOn(SehResolve(n))
  PROVE  /\ sehCtx' \in [rip : Int, rsp : Nat, rbp : Int] /\ sehWalked' \in 0..SehMaxWalk
         /\ sehOutcome' \in {sehOutcome, "unhandled"}
<1> DEFINE next == SehUnwind(sehCtx, SehResolve(n))
<1>1. sehCtx \in [rip : Int, rsp : Nat, rbp : Int] /\ sehWalked \in 0..SehMaxWalk /\ SehMaxWalk \in Nat
  BY SehTable DEF SehTypeOK
<1>2. CASE next.rip = SehNothing \/ next.rsp >= sehCtx.rsp
  BY <1>1, <1>2 DEF SehOn, SehEnd
<1>3. CASE ~(next.rip = SehNothing \/ next.rsp >= sehCtx.rsp)
  <2>1. next \in [rip : Int, rsp : Nat, rbp : Int]
    BY <1>3, SehUnwindTyped
  <2>2. sehCtx' = next /\ sehWalked' = sehWalked + 1 /\ sehOutcome' = sehOutcome
    BY <1>3 DEF SehOn
  <2> HIDE DEF next
  <2> QED  BY <1>1, <2>1, <2>2
<1> QED  BY <1>2, <1>3

\* A scope is found, and a filter may say v.
SehConsulted(n, v) ==
  /\ sehAsked' = Append(sehAsked, [frame |-> sehWalked, verdict |-> v])
  /\ \/ SehEnd("finally")
     \/ v = "search" /\ SehOn(SehResolve(n))
     \/ SehEnd("resumed")
     \/ v \in {"other", "execute", "fault"} /\ SehEnd("unhandled")
     \/ SehEnd("handled")

LEMMA SehConsults ==
  ASSUME SehConsult
  PROVE  \E n \in SehLookup(sehCtx.rip), v \in SehVerdicts : SehConsulted(n, v)
<1>1. PICK n \in SehLookup(sehCtx.rip) :
        \E kind : \E v \in IF kind = "filter" THEN SehVerdicts ELSE {"execute"} :
          /\ sehAsked' = Append(sehAsked, [frame |-> sehWalked, verdict |-> v])
          /\ CASE kind = "finally" -> SehEnd("finally")
               [] kind # "finally" /\ v = "search" -> SehOn(SehResolve(n))
               [] kind # "finally" /\ v = "resume" -> SehEnd("resumed")
               [] kind # "finally" /\ v = "other" -> SehEnd("unhandled")
               [] kind # "finally" /\ v \in {"execute", "fault"} ->
                    \E returns \in BOOLEAN :
                      SehEnd(IF returns THEN "handled" ELSE "unhandled")
  BY DEF SehConsult
<1>a. PICK kind : \E v \in IF kind = "filter" THEN SehVerdicts ELSE {"execute"} :
          /\ sehAsked' = Append(sehAsked, [frame |-> sehWalked, verdict |-> v])
          /\ CASE kind = "finally" -> SehEnd("finally")
               [] kind # "finally" /\ v = "search" -> SehOn(SehResolve(n))
               [] kind # "finally" /\ v = "resume" -> SehEnd("resumed")
               [] kind # "finally" /\ v = "other" -> SehEnd("unhandled")
               [] kind # "finally" /\ v \in {"execute", "fault"} ->
                    \E returns \in BOOLEAN :
                      SehEnd(IF returns THEN "handled" ELSE "unhandled")
  BY <1>1
<1>b. (IF kind = "filter" THEN SehVerdicts ELSE {"execute"}) \subseteq SehVerdicts
  BY DEF SehVerdicts
<1>2. PICK v \in SehVerdicts :
          /\ sehAsked' = Append(sehAsked, [frame |-> sehWalked, verdict |-> v])
          /\ CASE kind = "finally" -> SehEnd("finally")
               [] kind # "finally" /\ v = "search" -> SehOn(SehResolve(n))
               [] kind # "finally" /\ v = "resume" -> SehEnd("resumed")
               [] kind # "finally" /\ v = "other" -> SehEnd("unhandled")
               [] kind # "finally" /\ v \in {"execute", "fault"} ->
                    \E returns \in BOOLEAN :
                      SehEnd(IF returns THEN "handled" ELSE "unhandled")
  BY <1>a, <1>b
<1>3. CASE kind = "finally"
  BY <1>2, <1>3 DEF SehConsulted
<1>4. CASE kind # "finally" /\ v \in {"search", "resume", "other"}
  BY <1>2, <1>4 DEF SehConsulted
<1>5. CASE kind # "finally" /\ v \in {"execute", "fault"}
  <2>1. PICK returns \in BOOLEAN : SehEnd(IF returns THEN "handled" ELSE "unhandled")
    BY <1>2, <1>5
  <2> QED  BY <1>2, <1>5, <2>1 DEF SehConsulted
<1> QED  BY <1>3, <1>4, <1>5 DEF SehVerdicts

\* What an instruction of a prologue does.
LEMMA SehPrologueDoes ==
  ASSUME SehPrologue
  PROVE  LET code == sehImage[SehTop.fn].codes[SehPrologueLeft]
         IN /\ code = "push" => sehCells' = Append(sehCells, sehRbp) /\ sehRbp' = sehRbp
            /\ code = "alloc" => sehCells' = Append(sehCells, SehNothing) /\ sehRbp' = sehRbp
            /\ code = "fpreg" => sehCells' = sehCells /\ sehRbp' = Len(sehCells)
BY DEF SehPrologue

LEMMA SehTypeInit == SehInit => SehTypeOK
<1> SUFFICES ASSUME SehInit PROVE SehTypeOK
  OBVIOUS
<1>1. PICK n \in DOMAIN sehImage : sehCalls = <<[fn |-> n, rip |-> sehImage[n].begin, done |-> 0]>>
  BY DEF SehInit
<1>2. SehMaxDepth \in Nat \ {0} /\ SehMaxWalk \in Nat \ {0} /\ sehImage \in SehImages
      /\ SehImage(sehImage)
  BY SehAssumption DEF SehInit
<1>3. sehImage[n].begin \in Nat
  BY <1>2 DEF SehImage
<1>4. /\ sehCalls \in Seq([fn : DOMAIN sehImage, rip : Nat, done : Nat])
      /\ Len(sehCalls) \in 1..SehMaxDepth
  BY <1>1, <1>2, <1>3
<1> QED  BY <1>2, <1>4 DEF SehInit, SehTypeOK, SehNoCtx, SehNothing, SehMarker

LEMMA SehTypeStep ==
  ASSUME SehTypeOK, SehCallsInv, [SehNext]_sehVars
  PROVE  SehTypeOK'
<1> DEFINE Call == [fn : DOMAIN sehImage, rip : Nat, done : Nat]
           last == Len(sehCalls)
<1>1. /\ sehImage \in SehImages /\ sehCalls \in Seq(Call) /\ last \in 1..SehMaxDepth
      /\ sehCells \in Seq(Int) /\ sehRbp \in Nat /\ sehFault \in {"none", "opcode", "page"}
      /\ sehCtx \in [rip : Int, rsp : Nat, rbp : Int] /\ sehWalked \in 0..SehMaxWalk
      /\ sehAsked \in Seq([frame : Nat, verdict : SehVerdicts])
      /\ sehOutcome \in {"none", "handled", "resumed", "finally", "unhandled"}
  BY DEF SehTypeOK
<1>2. /\ SehMaxDepth \in Nat \ {0} /\ SehMaxWalk \in Nat \ {0} /\ SehData \in Int
      /\ Len(sehCells) \in Nat /\ last \in Nat /\ SehTop = sehCalls[last]
      /\ SehTop \in Call
  BY <1>1, SehTable, SehCallTyped, LenProperties, SMTT(30) DEF SehTop
<1>3. CASE SehPrologue
  <2> DEFINE code == sehImage[SehTop.fn].codes[SehPrologueLeft]
  <2>1. SehPrologueLeft \in DOMAIN sehImage[SehTop.fn].codes
    <3>1. Len(sehImage[SehTop.fn].codes) \in Nat /\ SehTop.done \in Nat
          /\ DOMAIN sehImage[SehTop.fn].codes = 1..Len(sehImage[SehTop.fn].codes)
      BY <1>2, SehEntry
    <3> QED  BY <1>3, <3>1 DEF SehPrologue, SehPrologueLeft
  <2>2. code \in {"push", "alloc", "fpreg"}
    BY <1>2, <2>1, SehEntry
  <2>3. sehCells' \in Seq(Int) /\ sehRbp' \in Nat
    <3>1. /\ code = "push" => sehCells' = Append(sehCells, sehRbp) /\ sehRbp' = sehRbp
          /\ code = "alloc" => sehCells' = Append(sehCells, SehNothing) /\ sehRbp' = sehRbp
          /\ code = "fpreg" => sehCells' = sehCells /\ sehRbp' = Len(sehCells)
      BY <1>3, SehPrologueDoes
    <3>2. Append(sehCells, sehRbp) \in Seq(Int) /\ Append(sehCells, SehNothing) \in Seq(Int)
      BY <1>1 DEF SehNothing
    <3> HIDE DEF code
    <3> QED  BY <1>1, <1>2, <2>2, <3>1, <3>2
  <2>4. sehCalls' \in Seq(Call) /\ Len(sehCalls') = last
    <3>1. sehCalls' = [sehCalls EXCEPT ![last] = [SehTop EXCEPT !.done = @ + 1]]
      BY <1>1, <1>2, <1>3 DEF SehPrologue, SehTop
    <3>2. [SehTop EXCEPT !.done = @ + 1] \in Call
      BY <1>2
    <3> HIDE DEF Call
    <3> QED  BY <1>1, <1>2, <3>1, <3>2
  <2> QED  BY <1>1, <1>3, <2>3, <2>4 DEF SehPrologue, SehTypeOK
<1>4. CASE SehMove
  <2>1. PICK rip \in SehBody(SehTop.fn) : sehCalls' = [sehCalls EXCEPT ![last].rip = rip]
    BY <1>4 DEF SehMove
  <2>2. rip \in Nat
    BY <2>1, SehBodyNumbers
  <2>3. sehCalls' \in Seq(Call) /\ Len(sehCalls') = last
    <3>1. sehCalls' = [sehCalls EXCEPT ![last] = [SehTop EXCEPT !.rip = rip]]
      BY <1>2, <2>1
    <3>2. [SehTop EXCEPT !.rip = rip] \in Call
      BY <1>2, <2>2
    <3> HIDE DEF Call
    <3> QED  BY <1>1, <1>2, <3>1, <3>2
  <2>4. sehCells' \in Seq(Int)
    <3>1. PICK more \in {<<>>, <<SehData>>} : sehCells' = sehCells \o more
      BY <1>4 DEF SehMove
    <3>2. <<SehData>> \in Seq(Int) /\ <<>> \in Seq(Int)
      BY <1>2
    <3>3. more \in Seq(Int)
      BY <3>1, <3>2
    <3> QED  BY <1>1, <3>1, <3>3
  <2> QED  BY <1>1, <1>4, <2>3, <2>4 DEF SehMove, SehTypeOK
<1>5. ASSUME NEW n \in DOMAIN sehImage, SehCall(n) PROVE SehTypeOK'
  <2> DEFINE called == [fn |-> n, rip |-> sehImage[n].begin, done |-> 0]
  <2>1. called \in Call
    BY SehEntry
  <2>2. sehCalls' = Append(sehCalls, called) /\ last < SehMaxDepth
    BY <1>5 DEF SehCall
  <2> HIDE DEF called
  <2>3. sehCalls' \in Seq(Call) /\ Len(sehCalls') \in 1..SehMaxDepth
    <3> HIDE DEF Call
    <3>1. sehCalls' \in Seq(Call) /\ Len(sehCalls') = last + 1
      BY <1>1, <2>1, <2>2, AppendProperties
    <3> QED  BY <1>2, <2>2, <3>1
  <2>4. sehCells' \in Seq(Int)
    <3>1. SehTop.rip \in Int
      BY <1>2
    <3> QED  BY <1>1, <1>5, <3>1 DEF SehCall
  <2> QED  BY <1>1, <1>5, <2>3, <2>4 DEF SehCall, SehTypeOK
<1>6. ASSUME NEW kind \in {"opcode", "page"}, SehRaise(kind) PROVE SehTypeOK'
  <2>1. sehCtx' \in [rip : Int, rsp : Nat, rbp : Int]
    <3>1. SehTop.rip \in Int
      BY <1>2
    <3> QED  BY <1>1, <1>2, <1>6, <3>1 DEF SehRaise
  <2> QED  BY <1>1, <1>6, <2>1 DEF SehRaise, SehTypeOK
<1>7. CASE SehGiveUp
  BY <1>1, <1>7 DEF SehGiveUp, SehEnd, SehTypeOK
<1>8. CASE SehWalk
  <2>1. PICK n \in SehLookup(sehCtx.rip) : SehOn(SehResolve(n))
    BY <1>8 DEF SehWalk
  <2>2. sehWalked < SehMaxWalk
    BY <1>8 DEF SehWalk
  <2> QED  BY <1>1, <1>8, <2>1, <2>2, SehOnTyped DEF SehWalk, SehTypeOK
<1>9. CASE SehConsult
  <2>1. PICK n \in SehLookup(sehCtx.rip), v \in SehVerdicts : SehConsulted(n, v)
    BY <1>9, SehConsults
  <2>2. sehAsked' \in Seq([frame : Nat, verdict : SehVerdicts])
    <3>1. [frame |-> sehWalked, verdict |-> v] \in [frame : Nat, verdict : SehVerdicts]
      BY <1>1, <1>2
    <3> QED  BY <1>1, <2>1, <3>1 DEF SehConsulted
  <2>3. sehWalked < SehMaxWalk /\ sehOutcome = "none"
    BY <1>9 DEF SehConsult, SehSearching
  <2>4. /\ sehCtx' \in [rip : Int, rsp : Nat, rbp : Int] /\ sehWalked' \in 0..SehMaxWalk
        /\ sehOutcome' \in {"none", "handled", "resumed", "finally", "unhandled"}
    <3>1. CASE SehOn(SehResolve(n))
      BY <2>3, <3>1, SehOnTyped
    <3>2. ASSUME NEW o \in {"finally", "resumed", "unhandled", "handled"}, SehEnd(o)
          PROVE  /\ sehCtx' \in [rip : Int, rsp : Nat, rbp : Int] /\ sehWalked' \in 0..SehMaxWalk
                 /\ sehOutcome' \in {"none", "handled", "resumed", "finally", "unhandled"}
      BY <1>1, <3>2 DEF SehEnd
    <3> QED  BY <2>1, <3>1, <3>2 DEF SehConsulted
  <2> QED  BY <1>1, <1>9, <2>2, <2>4 DEF SehConsult, SehTypeOK
<1>10. CASE UNCHANGED sehVars
  BY <1>1, <1>10 DEF sehVars, SehTypeOK
<1> QED
  BY <1>3, <1>4, <1>5, <1>6, <1>7, <1>8, <1>9, <1>10 DEF SehNext

-----------------------------------------------------------------------------
\* What is said of one call, in the terms of the prover.
LEMMA SehUndoesParts ==
  ASSUME SehTypeOK, NEW i \in 1..Len(sehCalls), NEW u, SehUndoes(i, u)
  PROVE  LET codes == SehCodesOf(i)
             n == Len(codes)
             left == SehLeft(i)
         IN /\ n \in Nat /\ left \in 0..n /\ Len(sehCells) \in Nat
            /\ u \in [0..n -> SehRegs]
            /\ \A j \in 0..n : u[j].rsp \in Int /\ u[j].rbp \in Int
                              /\ u[j] = [rsp |-> u[j].rsp, rbp |-> u[j].rbp]
            /\ \A j \in left..n : u[j].rsp \in 1..Len(sehCells) /\ u[n].rsp <= u[j].rsp
            /\ \A j \in (left + 1)..n : u[j] = SehUndo(u[j - 1], codes[j])
<1> DEFINE n == Len(SehCodesOf(i))
           left == SehLeft(i)
<1>1. /\ n \in Nat /\ left \in 0..n /\ u \in [0..n -> SehRegs] /\ 1 <= u[n].rsp
      /\ \A j \in left..n : u[n].rsp <= u[j].rsp /\ u[j].rsp <= Len(sehCells)
      /\ \A j \in (left + 1)..n : u[j] = SehUndo(u[j - 1], SehCodesOf(i)[j])
  BY SehCallTyped DEF SehUndoes
<1>2. Len(sehCells) \in Nat
  BY LenProperties DEF SehTypeOK
<1>3. \A j \in 0..n : u[j].rsp \in Int /\ u[j].rbp \in Int
                       /\ u[j] = [rsp |-> u[j].rsp, rbp |-> u[j].rbp]
  <2> SUFFICES ASSUME NEW j \in 0..n
               PROVE  u[j].rsp \in Int /\ u[j].rbp \in Int
                       /\ u[j] = [rsp |-> u[j].rsp, rbp |-> u[j].rbp]
    OBVIOUS
  <2>1. u[j] \in SehRegs
    BY <1>1
  <2> QED  BY <2>1 DEF SehRegs
<1>4. \A j \in left..n : u[j].rsp \in 1..Len(sehCells)
  <2> SUFFICES ASSUME NEW j \in left..n
               PROVE  u[j].rsp \in 1..Len(sehCells)
    OBVIOUS
  <2>1. j \in 0..n /\ n \in 0..n
    BY <1>1
  <2>2. u[j].rsp \in Int /\ u[n].rsp \in Int
    BY <1>3, <2>1
  <2>3. 1 <= u[n].rsp /\ u[n].rsp <= u[j].rsp /\ u[j].rsp <= Len(sehCells)
    BY <1>1
  <2> HIDE DEF n, left
  <2> QED  BY <1>2, <2>2, <2>3
<1> QED  BY <1>1, <1>2, <1>3, <1>4

\* The stack only grows.
SehGrows ==
  /\ Len(sehCells') \in Nat /\ Len(sehCells) <= Len(sehCells')
  /\ \A r \in 1..Len(sehCells) : sehCells'[r] = sehCells[r]

LEMMA SehUndoKept ==
  ASSUME SehTypeOK, SehGrows, NEW regs, regs.rsp \in 1..Len(sehCells), NEW code
  PROVE  SehUndo(regs, code)' = SehUndo(regs, code)
<1>1. Len(sehCells) \in Nat
  BY LenProperties DEF SehTypeOK
<1>2. regs.rsp \in 1..Len(sehCells')
  BY <1>1 DEF SehGrows
<1>3. SehCell(regs.rsp)' = SehCell(regs.rsp)
  BY <1>2 DEF SehGrows, SehCell
<1> QED  BY <1>3 DEF SehUndo

\* A call nothing was done to is undone as before.
LEMMA SehUndoesKept ==
  ASSUME SehTypeOK, SehGrows, NEW i \in 1..Len(sehCalls), NEW u, SehUndoes(i, u),
         sehImage' = sehImage, sehCalls'[i].fn = sehCalls[i].fn, sehCalls'[i].done = sehCalls[i].done
  PROVE  /\ SehUndoes(i, u)' /\ SehLeft(i)' = SehLeft(i) /\ SehCodesOf(i)' = SehCodesOf(i)
         /\ SehReturns(i, u)' = SehReturns(i, u)
         /\ SehReturns(i, u).rsp \in 1..Len(sehCells)
<1> DEFINE codes == SehCodesOf(i)
           n == Len(codes)
           left == SehLeft(i)
<1>1. SehCodesOf(i)' = codes
  BY DEF SehCodesOf
<1>2. SehLeft(i)' = left
  BY <1>1 DEF SehLeft
<1>3. /\ n \in Nat /\ left \in 0..n /\ Len(sehCells) \in Nat
      /\ u \in [0..n -> SehRegs]
      /\ \A j \in 0..n : u[j].rsp \in Int
      /\ \A j \in left..n : u[j].rsp \in 1..Len(sehCells) /\ u[n].rsp <= u[j].rsp
      /\ \A j \in (left + 1)..n : u[j] = SehUndo(u[j - 1], codes[j])
  BY SehUndoesParts
<1>4. \A j \in (left + 1)..n : u[j] = SehUndo(u[j - 1], codes[j])'
  <2> SUFFICES ASSUME NEW j \in (left + 1)..n
               PROVE  u[j] = SehUndo(u[j - 1], codes[j])'
    OBVIOUS
  <2>1. j - 1 \in left..n
    BY <1>3
  <2>2. u[j - 1].rsp \in 1..Len(sehCells)
    BY <1>3, <2>1
  <2>3. SehUndo(u[j - 1], codes[j])' = SehUndo(u[j - 1], codes[j])
    <3>1. \A c : SehUndo(u[j - 1], c)' = SehUndo(u[j - 1], c)
      BY <2>2, SehUndoKept
    <3> QED  BY <1>1, <3>1 DEF SehUndo
  <2> QED  BY <1>3, <2>3
<1>5. \A j \in left..n : u[n].rsp <= u[j].rsp /\ u[j].rsp <= Len(sehCells') /\ 1 <= u[n].rsp
  BY <1>3 DEF SehGrows
<1>6. n \in left..n
  BY <1>3
<1>7. SehUndoes(i, u)'
  BY <1>1, <1>2, <1>3, <1>4, <1>5, <1>6 DEF SehUndoes
<1> QED  BY <1>1, <1>2, <1>3, <1>6, <1>7 DEF SehReturns

\* The innermost call goes on, and returns where it would have.
LEMMA SehInnermost ==
  ASSUME SehTypeOK, SehTypeOK', NEW tr, SehStack(tr), SehGrows, sehImage' = sehImage,
         NEW last, last = Len(sehCalls), last = Len(sehCalls'),
         \A i \in 1..(last - 1) : sehCalls'[i] = sehCalls[i],
         NEW u, SehUndoes(last, u)', SehReturns(last, u)' = SehReturns(last, tr[last]),
         u[SehLeft(last)'] = [rsp |-> Len(sehCells'), rbp |-> sehRbp']
  PROVE  \E tr2 : SehStack(tr2)'
<1> DEFINE tr2 == [i \in 1..last |-> IF i = last THEN u ELSE tr[i]]
<1>1. last \in Nat \ {0} /\ Len(sehCells) \in Nat
  BY SehCallTyped, LenProperties DEF SehTypeOK
<1>2. /\ tr2[last] = u /\ \A i \in 1..(last - 1) : tr2[i] = tr[i]
  BY <1>1
<1>3. \A i \in 1..(last - 1) :
        /\ SehUndoes(i, tr2[i])' /\ SehLeft(i)' = 0 /\ SehReturns(i, tr2[i])' = SehReturns(i, tr[i])
        /\ SehReturns(i, tr[i]).rsp \in 1..Len(sehCells)
  <2> SUFFICES ASSUME NEW i \in 1..(last - 1)
               PROVE  /\ SehUndoes(i, tr[i])' /\ SehLeft(i)' = 0
                      /\ SehReturns(i, tr[i])' = SehReturns(i, tr[i])
                      /\ SehReturns(i, tr[i]).rsp \in 1..Len(sehCells)
    BY <1>2
  <2>1. i \in 1..last /\ i < last
    BY <1>1
  <2>2. SehUndoes(i, tr[i]) /\ SehLeft(i) = 0
    BY <2>1 DEF SehStack
  <2>3. sehCalls'[i] = sehCalls[i]
    OBVIOUS
  <2> QED  BY <2>1, <2>2, <2>3, SehUndoesKept
<1>4. SehReturns(last, tr[last]).rsp \in 1..Len(sehCells)
  <2>1. SehUndoes(last, tr[last]) /\ last \in 1..last
    BY <1>1 DEF SehStack
  <2>2. Len(SehCodesOf(last)) \in SehLeft(last)..Len(SehCodesOf(last))
    BY <2>1, SehUndoesParts
  <2> QED  BY <2>1, <2>2, SehUndoesParts DEF SehReturns
<1> HIDE DEF tr2
<1>5. /\ SehReturns(1, tr2[1])'.rsp = 1 /\ sehCells'[1] = SehMarker
  <2>1. SehReturns(1, tr[1]).rsp = 1 /\ sehCells[1] = SehMarker
    BY DEF SehStack
  <2>2. SehReturns(1, tr2[1])' = SehReturns(1, tr[1])
    <3>1. CASE last = 1
      BY <1>2, <3>1
    <3>2. CASE last # 1
      BY <1>1, <1>3, <3>2
    <3> QED  BY <3>1, <3>2
  <2>3. 1 \in 1..Len(sehCells)
    <3>1. CASE last = 1
      BY <1>4, <2>1, <3>1
    <3>2. CASE last # 1
      BY <1>1, <1>3, <2>1, <3>2
    <3> QED  BY <3>1, <3>2
  <2> QED  BY <2>1, <2>2, <2>3 DEF SehGrows
<1>6. \A i \in 2..last :
        LET at == SehReturns(i, tr2[i])'
        IN sehCells'[at.rsp] = sehCalls'[i - 1].rip
           /\ tr2[i - 1][0] = [rsp |-> at.rsp - 1, rbp |-> at.rbp]
  <2> SUFFICES ASSUME NEW i \in 2..last
               PROVE  LET at == SehReturns(i, tr2[i])'
                      IN sehCells'[at.rsp] = sehCalls'[i - 1].rip
                         /\ tr2[i - 1][0] = [rsp |-> at.rsp - 1, rbp |-> at.rbp]
    OBVIOUS
  <2> DEFINE at == SehReturns(i, tr[i])
  <2>1. SehReturns(i, tr2[i])' = at /\ at.rsp \in 1..Len(sehCells)
    <3>1. CASE i = last
      BY <1>2, <1>4, <3>1
    <3>2. CASE i # last
      <4>1. i \in 1..(last - 1)
        BY <1>1, <3>2
      <4> QED  BY <1>3, <4>1
    <3> QED  BY <3>1, <3>2
  <2>2. i - 1 \in 1..(last - 1)
    BY <1>1
  <2>3. sehCalls'[i - 1] = sehCalls[i - 1] /\ tr2[i - 1] = tr[i - 1]
    BY <1>2, <2>2
  <2>4. sehCells[at.rsp] = sehCalls[i - 1].rip /\ tr[i - 1][0] = [rsp |-> at.rsp - 1, rbp |-> at.rbp]
    BY DEF SehStack
  <2>5. sehCells'[at.rsp] = sehCells[at.rsp]
    BY <2>1 DEF SehGrows
  <2> HIDE DEF at
  <2> QED  BY <2>1, <2>3, <2>4, <2>5
<1>7. \A i \in 1..last : SehUndoes(i, tr2[i])' /\ (i < last => SehLeft(i)' = 0)
  <2> SUFFICES ASSUME NEW i \in 1..last
               PROVE  SehUndoes(i, tr2[i])' /\ (i < last => SehLeft(i)' = 0)
    OBVIOUS
  <2>1. CASE i = last
    BY <1>1, <1>2, <2>1
  <2>2. CASE i # last
    <3>1. i \in 1..(last - 1)
      BY <1>1, <2>2
    <3> QED  BY <1>3, <3>1
  <2> QED  BY <2>1, <2>2
<1>8. SehStack(tr2)'
  BY <1>2, <1>5, <1>6, <1>7 DEF SehStack
<1> QED  BY <1>8

-----------------------------------------------------------------------------
\* One instruction more of the innermost prologue is one code more to undo.
LEMMA SehPrologueStack ==
  ASSUME SehTypeOK, SehTypeOK', NEW tr, SehStack(tr), SehPrologue
  PROVE  \E tr2 : SehStack(tr2)'
<1>1. PICK last : last = Len(sehCalls)
  OBVIOUS
<1>2. /\ last \in Nat \ {0} /\ last \in 1..last /\ SehTop = sehCalls[last]
      /\ sehCalls[last].fn \in DOMAIN sehImage /\ sehCalls[last].done \in Nat
      /\ Len(sehCells) \in Nat /\ Len(sehCells') \in Nat /\ sehCells \in Seq(Int)
      /\ sehRbp \in Nat
  <2>1. /\ sehCells \in Seq(Int) /\ sehCells' \in Seq(Int) /\ sehRbp \in Nat
    BY DEF SehTypeOK
  <2>2. Len(sehCells) \in Nat /\ Len(sehCells') \in Nat
    BY <2>1, LenProperties
  <2>3. last \in Nat \ {0} /\ last \in 1..last
    BY <1>1, SehCallTyped
  <2> QED  BY <1>1, <2>1, <2>2, <2>3, SehCallTyped DEF SehTop
<1>3. PICK codes, n, left : codes = SehCodesOf(last) /\ n = Len(codes) /\ left = SehLeft(last)
  OBVIOUS
<1>4. /\ SehUndoes(last, tr[last]) /\ left = SehPrologueLeft
      /\ tr[last][left] = [rsp |-> Len(sehCells), rbp |-> sehRbp]
  BY <1>1, <1>2, <1>3 DEF SehStack, SehLeft, SehPrologueLeft, SehCodesOf
<1>5. PICK u : u = tr[last]
  OBVIOUS
<1>6. /\ n \in Nat /\ left \in 0..n /\ u \in [0..n -> SehRegs]
      /\ \A j \in 0..n : u[j].rsp \in Int /\ u[j].rbp \in Int
                              /\ u[j] = [rsp |-> u[j].rsp, rbp |-> u[j].rbp]
      /\ \A j \in left..n : u[j].rsp \in 1..Len(sehCells) /\ u[n].rsp <= u[j].rsp
      /\ \A j \in (left + 1)..n : u[j] = SehUndo(u[j - 1], codes[j])
  <2>1. last \in 1..Len(sehCalls) /\ SehUndoes(last, u)
    BY <1>1, <1>2, <1>4, <1>5
  <2> QED  BY <1>3, <2>1, SehUndoesParts
<1>7. /\ left \in 1..n /\ codes[left] \in {"push", "alloc", "fpreg"} /\ DOMAIN codes = 1..n
  <2>1. left > 0
    BY <1>4 DEF SehPrologue
  <2>2. \A k \in DOMAIN codes : codes[k] \in {"push", "alloc", "fpreg"}
    BY <1>2, <1>3, SehEntry DEF SehCodesOf
  <2>3. DOMAIN codes = 1..n
    BY <1>2, <1>3, SehEntry DEF SehCodesOf
  <2> QED  BY <1>6, <2>1, <2>2, <2>3
<1>8. /\ sehImage' = sehImage /\ last = Len(sehCalls')
      /\ \A i \in 1..(last - 1) : sehCalls'[i] = sehCalls[i]
      /\ sehCalls'[last].fn = sehCalls[last].fn /\ sehCalls'[last].done = sehCalls[last].done + 1
  <2>1. /\ sehImage' = sehImage /\ sehCalls' = [sehCalls EXCEPT ![last].done = @ + 1]
    BY <1>1 DEF SehPrologue
  <2>2. sehCalls \in Seq([fn : DOMAIN sehImage, rip : Nat, done : Nat])
        /\ sehCalls[last] \in [fn : DOMAIN sehImage, rip : Nat, done : Nat]
    BY <1>1, <1>2, SehCallTyped DEF SehTypeOK
  <2> QED  BY <1>1, <1>2, <2>1, <2>2
<1>9. /\ SehCodesOf(last)' = codes /\ SehLeft(last)' = left - 1
  <2>1. SehCodesOf(last)' = codes
    BY <1>3, <1>8 DEF SehCodesOf
  <2>2. SehLeft(last)' = n - (sehCalls[last].done + 1) /\ left = n - sehCalls[last].done
    BY <1>3, <1>8, <2>1 DEF SehLeft
  <2>3. n \in Nat
    BY <1>6
  <2> QED  BY <1>2, <2>1, <2>2, <2>3
<1>10. /\ codes[left] = "push" => sehCells' = Append(sehCells, sehRbp) /\ sehRbp' = sehRbp
       /\ codes[left] = "alloc" => sehCells' = Append(sehCells, SehNothing) /\ sehRbp' = sehRbp
       /\ codes[left] = "fpreg" => sehCells' = sehCells /\ sehRbp' = Len(sehCells)
  BY <1>2, <1>3, <1>4, SehPrologueDoes DEF SehCodesOf
<1>11. SehGrows /\ sehRbp' \in Nat
  <2>1. sehRbp \in Int /\ SehNothing \in Int
    BY <1>2 DEF SehNothing
  <2>2. ASSUME NEW e \in Int, sehCells' = Append(sehCells, e) PROVE SehGrows
    <3>1. /\ Len(sehCells') = Len(sehCells) + 1 /\ DOMAIN sehCells = 1..Len(sehCells)
          /\ \A i \in DOMAIN sehCells : sehCells'[i] = sehCells[i]
      BY <1>2, <2>2, Appended
    <3> QED  BY <1>2, <3>1 DEF SehGrows
  <2>3. sehCells' = sehCells => SehGrows
    BY <1>2 DEF SehGrows
  <2> QED  BY <1>2, <1>7, <1>10, <2>1, <2>2, <2>3
<1>n. n \in Nat /\ left \in Int /\ 1 <= left /\ left <= n
  BY <1>6, <1>7
<1>r. PICK len, rbp : len = Len(sehCells') /\ rbp = sehRbp'
  OBVIOUS
<1> DEFINE now == [rsp |-> len, rbp |-> rbp]
<1>12. \A regs, k : regs.rsp \in 1..Len(sehCells) => SehUndo(regs, codes[k])' = SehUndo(regs, codes[k])
  BY <1>11, SehUndoKept
<1>13. now \in SehRegs
  BY <1>2, <1>11, <1>r DEF SehRegs
<1>14. ASSUME NEW v, v \in [0..n -> SehRegs], v[left - 1] = now, v[n] = u[n],
              \A j \in left..n : v[j].rsp = u[j].rsp,
              v[left] = SehUndo(now, codes[left])',
              \A j \in (left + 1)..n : v[j] = SehUndo(v[j - 1], codes[j])
       PROVE  \E tr2 : SehStack(tr2)'
  <2>1. \A j \in (left + 1)..n : v[j] = SehUndo(v[j - 1], codes[j])'
    <3> SUFFICES ASSUME NEW j \in (left + 1)..n
                 PROVE  v[j] = SehUndo(v[j - 1], codes[j])'
      OBVIOUS
    <3>1. j - 1 \in left..n
      BY <1>6
    <3>2. v[j - 1].rsp \in 1..Len(sehCells)
      BY <1>6, <1>14, <3>1
    <3> QED  BY <1>12, <1>14, <3>2
  <2>2. \A j \in left..n : v[j] = SehUndo(v[j - 1], codes[j])'
    <3> SUFFICES ASSUME NEW j \in left..n PROVE v[j] = SehUndo(v[j - 1], codes[j])'
      OBVIOUS
    <3>1. CASE j = left
      BY <1>14, <3>1
    <3>2. CASE j # left
      <4>1. j \in (left + 1)..n
        BY <1>n, <3>2
      <4> QED  BY <2>1, <4>1
    <3> QED  BY <3>1, <3>2
  <2>3. \A j \in (left - 1)..n : v[n].rsp <= v[j].rsp /\ v[j].rsp <= Len(sehCells')
    <3> SUFFICES ASSUME NEW j \in (left - 1)..n
                 PROVE  v[n].rsp <= v[j].rsp /\ v[j].rsp <= Len(sehCells')
      OBVIOUS
    <3>1. CASE j = left - 1
      <4>1. v[j].rsp = Len(sehCells')
        BY <1>14, <1>r, <3>1
      <4>2. v[n].rsp <= Len(sehCells)
        BY <1>6, <1>7, <1>14
      <4>3. v[n].rsp \in Int
        BY <1>6, <1>14
      <4> QED  BY <1>2, <1>11, <4>1, <4>2, <4>3 DEF SehGrows
    <3>2. CASE j # left - 1
      <4>1. j \in left..n
        BY <1>n, <3>2
      <4>2. v[j].rsp = u[j].rsp /\ u[j].rsp \in 1..Len(sehCells) /\ u[n].rsp <= u[j].rsp
        BY <1>6, <1>14, <4>1
      <4> QED  BY <1>2, <1>11, <1>14, <4>2 DEF SehGrows
    <3> QED  BY <3>1, <3>2
  <2>4. 1 <= v[n].rsp
    BY <1>6, <1>7, <1>14
  <2>5. SehUndoes(last, v)'
    <3> HIDE DEF now
    <3>1. left - 1 \in 0..n /\ (left - 1) + 1 = left
      BY <1>n
    <3> QED  BY <1>3, <1>9, <1>14, <2>2, <2>3, <2>4, <3>1 DEF SehUndoes
  <2>6. SehReturns(last, v)' = SehReturns(last, tr[last])
    BY <1>3, <1>5, <1>9, <1>14 DEF SehReturns
  <2>7. v[SehLeft(last)'] = [rsp |-> Len(sehCells'), rbp |-> sehRbp']
    BY <1>9, <1>14, <1>r
  <2> QED  BY <1>1, <1>8, <1>11, <2>5, <2>6, <2>7, SehInnermost
<1>15. CASE codes[left] \in {"push", "alloc"}
  <2> DEFINE v == [j \in 0..n |-> IF j = left - 1 THEN now ELSE u[j]]
  <2> HIDE DEF now
  <2>1. v \in [0..n -> SehRegs] /\ v[left - 1] = now /\ \A j \in left..n : v[j] = u[j]
    BY <1>6, <1>7, <1>13
  <2>2. \A j \in (left + 1)..n : v[j] = SehUndo(v[j - 1], codes[j])
    <3> SUFFICES ASSUME NEW j \in (left + 1)..n
                 PROVE  v[j] = SehUndo(v[j - 1], codes[j])
      OBVIOUS
    <3>1. j - 1 \in left..n /\ j \in left..n
      BY <1>6
    <3>2. v[j] = u[j] /\ v[j - 1] = u[j - 1]
      BY <2>1, <3>1
    <3> QED  BY <1>6, <3>2
  <2>3. u[left] = SehUndo(now, codes[left])'
    <3>1. u[left] = [rsp |-> Len(sehCells), rbp |-> sehRbp]
      BY <1>4, <1>5
    <3>2. /\ Len(sehCells') = Len(sehCells) + 1 /\ sehRbp' = sehRbp
          /\ codes[left] = "push" => sehCells'[Len(sehCells')] = sehRbp
      <4>1. sehRbp \in Int /\ SehNothing \in Int
        BY <1>2 DEF SehNothing
      <4> QED  BY <1>2, <1>10, <1>15, <4>1, Appended
    <3>3. CASE codes[left] = "push"
      <4>1. SehUndo(now, codes[left])' = [rsp |-> len - 1, rbp |-> sehCells'[len]]
        <5>1. len \in 1..Len(sehCells')
          BY <1>2, <1>r, <3>2
        <5>2. SehCell(len)' = sehCells'[len]
          BY <5>1 DEF SehCell
        <5>3. SehUndo(now, codes[left])' = [rsp |-> now.rsp - 1, rbp |-> SehCell(now.rsp)']
          BY <3>3 DEF SehUndo
        <5>4. now.rsp = len
          BY DEF now
        <5> HIDE DEF now
        <5> QED  BY <5>2, <5>3, <5>4 DEF SehCell
      <4> QED  BY <1>2, <1>r, <3>1, <3>2, <3>3, <4>1
    <3>4. CASE codes[left] = "alloc"
      <4>1. SehUndo(now, codes[left])' = [rsp |-> len - 1, rbp |-> rbp]
        BY <3>4 DEF SehUndo, now
      <4> QED  BY <1>2, <1>r, <3>1, <3>2, <4>1
    <3> QED  BY <1>15, <3>3, <3>4
  <2> HIDE DEF v
  <2>4. n \in left..n /\ left \in left..n
    BY <1>n
  <2>5. v[n] = u[n] /\ v[left] = u[left] /\ \A j \in left..n : v[j].rsp = u[j].rsp
    BY <2>1, <2>4
  <2>6. v[left] = SehUndo(now, codes[left])'
    BY <2>3, <2>5
  <2> QED  BY <1>14, <2>1, <2>2, <2>5, <2>6
<1>16. CASE codes[left] = "fpreg"
  <2>1. SehFramed(codes, left)
    <3>1. codes = sehImage[sehCalls[last].fn].codes
      BY <1>3 DEF SehCodesOf
    <3> QED  BY <1>2, <1>7, <1>16, <3>1, SehFrameRegister
  <2>2. PICK p \in 1..n : /\ left < p /\ codes[p] = "push"
                          /\ \A j \in 1..n \ {left} : j < p => codes[j] = "alloc"
    BY <1>7, <2>1 DEF SehFramed
  <2>p. p \in Nat /\ left < p /\ p <= n
    BY <1>n, <2>2
  <2>3. PICK at : at = Len(sehCells)
    OBVIOUS
  <2>4. now = [rsp |-> at, rbp |-> at] /\ at \in Nat /\ u[left].rsp = at
    BY <1>2, <1>4, <1>5, <1>10, <1>16, <1>r, <2>3
  <2> DEFINE v == [j \in 0..n |-> IF j = left - 1 THEN now
                                  ELSE IF j \in left..(p - 1) THEN [rsp |-> u[j].rsp, rbp |-> at]
                                  ELSE u[j]]
  <2>5. /\ v \in [0..n -> SehRegs] /\ v[left - 1] = now
        /\ \A j \in left..(p - 1) : v[j] = [rsp |-> u[j].rsp, rbp |-> at]
        /\ \A j \in p..n : v[j] = u[j]
    <3>1. \A j \in 0..n : [rsp |-> u[j].rsp, rbp |-> at] \in SehRegs
      BY <1>6, <2>4 DEF SehRegs
    <3> HIDE DEF now
    <3> QED  BY <1>6, <1>7, <1>13, <2>2, <3>1
  <2> HIDE DEF v, now
  <2>6. \A j \in left..n : v[j].rsp = u[j].rsp
    <3> SUFFICES ASSUME NEW j \in left..n PROVE v[j].rsp = u[j].rsp
      OBVIOUS
    <3>1. CASE j < p
      <4>1. j \in left..(p - 1)
        BY <1>n, <2>p, <3>1
      <4>2. v[j] = [rsp |-> u[j].rsp, rbp |-> at]
        BY <2>5, <4>1
      <4> QED  BY <4>2
    <3>2. CASE j >= p
      <4>1. j \in p..n
        BY <1>n, <2>p, <3>2
      <4> QED  BY <2>5, <4>1
    <3> QED  BY <1>n, <2>p, <3>1, <3>2
  <2>7. v[left] = SehUndo(now, codes[left])'
    <3>1. SehUndo(now, codes[left])' = [rsp |-> at, rbp |-> at]
      BY <1>16, <2>4 DEF SehUndo
    <3>2. left \in left..(p - 1)
      BY <1>n, <2>p
    <3> QED  BY <2>4, <2>5, <3>1, <3>2
  <2>8. ASSUME NEW j \in (left + 1)..n
        PROVE  v[j] = SehUndo(v[j - 1], codes[j])
    <3>1. /\ j - 1 \in left..n /\ j \in left..n /\ j \in 1..n /\ j - 1 \in 0..n /\ j \in 0..n
          /\ u[j] = SehUndo(u[j - 1], codes[j])
      BY <1>6, <1>7
    <3>2. CASE j < p
      <4>1. codes[j] = "alloc"
        BY <1>6, <1>7, <2>2, <3>1, <3>2
      <4>2. v[j] = [rsp |-> u[j].rsp, rbp |-> at] /\ v[j - 1] = [rsp |-> u[j - 1].rsp, rbp |-> at]
        <5>1. j \in left..(p - 1) /\ j - 1 \in left..(p - 1)
          BY <1>n, <2>p, <3>2
        <5> QED  BY <2>5, <5>1
      <4>3. u[j].rsp = u[j - 1].rsp - 1
        <5>1. u[j - 1] = [rsp |-> u[j - 1].rsp, rbp |-> u[j - 1].rbp]
          BY <1>6, <3>1
        <5> QED  BY <3>1, <4>1, <5>1 DEF SehUndo
      <4> QED  BY <4>1, <4>2, <4>3 DEF SehUndo
    <3>3. CASE j = p
      <4>1. v[j] = u[j] /\ v[j - 1].rsp = u[j - 1].rsp
        BY <1>6, <2>2, <2>5, <2>6, <3>1, <3>3
      <4> QED  BY <2>2, <3>1, <3>3, <4>1 DEF SehUndo
    <3>4. CASE j > p
      <4>1. v[j] = u[j] /\ v[j - 1] = u[j - 1]
        <5>1. j \in p..n /\ j - 1 \in p..n
          BY <1>n, <2>p, <3>4
        <5> QED  BY <2>5, <5>1
      <4> QED  BY <3>1, <4>1
    <3> QED  BY <1>6, <2>2, <3>2, <3>3, <3>4
  <2>9. v[n] = u[n]
    BY <1>6, <2>2, <2>5
  <2> QED  BY <1>14, <2>5, <2>6, <2>7, <2>8, <2>9 DEF now
<1> QED  BY <1>7, <1>15, <1>16

\* Wherever a body goes, and though it moves rsp below a frame register, it is undone
\* to the same place.
LEMMA SehMoveStack ==
  ASSUME SehTypeOK, SehTypeOK', NEW tr, SehStack(tr), SehMove
  PROVE  \E tr2 : SehStack(tr2)'
<1>1. PICK last : last = Len(sehCalls)
  OBVIOUS
<1>2. /\ last \in Nat \ {0} /\ last \in 1..last /\ SehTop = sehCalls[last]
      /\ sehCalls[last].fn \in DOMAIN sehImage /\ sehCalls[last].done \in Nat
      /\ Len(sehCells) \in Nat /\ sehCells \in Seq(Int) /\ SehData \in Int
  <2>1. sehCells \in Seq(Int)
    BY DEF SehTypeOK
  <2>2. last \in Nat \ {0} /\ last \in 1..last
    BY <1>1, SehCallTyped
  <2> QED  BY <1>1, <2>1, <2>2, SehCallTyped, SehTable, LenProperties DEF SehTop
<1>3. PICK codes, n, u : codes = SehCodesOf(last) /\ n = Len(codes) /\ u = tr[last]
  OBVIOUS
<1>4. /\ SehUndoes(last, u) /\ SehLeft(last) = 0
      /\ u[0] = [rsp |-> Len(sehCells), rbp |-> sehRbp]
  <2>1. SehLeft(last) = 0
    BY <1>2 DEF SehMove, SehPrologueLeft, SehLeft, SehCodesOf
  <2> QED  BY <1>1, <1>2, <1>3, <2>1 DEF SehStack
<1>5. /\ n \in Nat /\ u \in [0..n -> SehRegs]
      /\ \A j \in 0..n : u[j].rsp \in Int /\ u[j].rbp \in Int
                              /\ u[j] = [rsp |-> u[j].rsp, rbp |-> u[j].rbp]
      /\ \A j \in 0..n : u[j].rsp \in 1..Len(sehCells) /\ u[n].rsp <= u[j].rsp
      /\ \A j \in 1..n : u[j] = SehUndo(u[j - 1], codes[j])
  <2>1. last \in 1..Len(sehCalls) /\ SehUndoes(last, u)
    BY <1>1, <1>2, <1>4
  <2>2. LET left == SehLeft(last)
        IN /\ n \in Nat /\ left \in 0..n /\ u \in [0..n -> SehRegs]
           /\ \A j \in 0..n : u[j].rsp \in Int /\ u[j].rbp \in Int
                              /\ u[j] = [rsp |-> u[j].rsp, rbp |-> u[j].rbp]
           /\ \A j \in left..n : u[j].rsp \in 1..Len(sehCells) /\ u[n].rsp <= u[j].rsp
           /\ \A j \in (left + 1)..n : u[j] = SehUndo(u[j - 1], codes[j])
    <3>1. codes = SehCodesOf(last) /\ n = Len(codes)
      BY <1>3
    <3> QED  BY <2>1, <3>1, SehUndoesParts
  <2>3. SehLeft(last) = 0 /\ SehLeft(last) + 1 = 1
    BY <1>4
  <2>4. \A j \in 1..n : u[j] = SehUndo(u[j - 1], codes[j])
    BY <2>2, <2>3
  <2>5. \A j \in 0..n : u[j].rsp \in 1..Len(sehCells) /\ u[n].rsp <= u[j].rsp
    BY <2>2, <2>3
  <2> QED  BY <2>2, <2>4, <2>5
<1>6. /\ sehImage' = sehImage /\ last = Len(sehCalls') /\ sehRbp' = sehRbp
      /\ \A i \in 1..(last - 1) : sehCalls'[i] = sehCalls[i]
      /\ sehCalls'[last].fn = sehCalls[last].fn /\ sehCalls'[last].done = sehCalls[last].done
  <2>1. PICK rip : sehCalls' = [sehCalls EXCEPT ![last].rip = rip]
    BY <1>1 DEF SehMove
  <2>2. sehCalls \in Seq([fn : DOMAIN sehImage, rip : Nat, done : Nat])
        /\ sehCalls[last] \in [fn : DOMAIN sehImage, rip : Nat, done : Nat]
    BY <1>1, <1>2, SehCallTyped DEF SehTypeOK
  <2> QED  BY <1>1, <1>2, <2>1, <2>2 DEF SehMove
<1>7. SehCodesOf(last)' = codes /\ SehLeft(last)' = 0
  BY <1>3, <1>4, <1>6 DEF SehCodesOf, SehLeft
<1>8. \/ sehCells' = sehCells
      \/ sehCells' = Append(sehCells, SehData) /\ "fpreg" \in ToSet(codes)
  <2>1. PICK more \in IF "fpreg" \in ToSet(sehImage[SehTop.fn].codes) /\ Last(sehCells) # SehData
                       THEN {<<>>, <<SehData>>} ELSE {<<>>} : sehCells' = sehCells \o more
    BY DEF SehMove
  <2>2. CASE more = <<>>
    BY <1>2, <2>1, <2>2
  <2>3. CASE more = <<SehData>> /\ "fpreg" \in ToSet(sehImage[SehTop.fn].codes)
    BY <1>2, <1>3, <2>1, <2>3 DEF SehCodesOf
  <2> QED  BY <2>1, <2>2, <2>3
<1>9. CASE sehCells' = sehCells
  <2>1. SehGrows
    BY <1>2, <1>9 DEF SehGrows
  <2>2. SehUndoes(last, u)' /\ SehReturns(last, u)' = SehReturns(last, u)
    <3>1. last \in 1..Len(sehCalls)
      BY <1>1, <1>2
    <3> QED  BY <1>4, <1>6, <2>1, <3>1, SehUndoesKept
  <2>3. u[SehLeft(last)'] = [rsp |-> Len(sehCells'), rbp |-> sehRbp']
    BY <1>4, <1>6, <1>7, <1>9
  <2> QED  BY <1>1, <1>3, <1>6, <2>1, <2>2, <2>3, SehInnermost
<1>10. CASE sehCells' = Append(sehCells, SehData) /\ "fpreg" \in ToSet(codes)
  <2>1. Len(sehCells') = Len(sehCells) + 1 /\ SehGrows
    <3>1. /\ Len(sehCells') = Len(sehCells) + 1 /\ DOMAIN sehCells = 1..Len(sehCells)
          /\ \A i \in DOMAIN sehCells : sehCells'[i] = sehCells[i]
      BY <1>2, <1>10, Appended
    <3> QED  BY <1>2, <3>1 DEF SehGrows
  <2>2. DOMAIN codes = 1..n
    BY <1>2, <1>3, SehEntry DEF SehCodesOf
  <2>3. PICK k \in 1..n : codes[k] = "fpreg" /\ SehFramed(codes, k)
    <3>1. PICK k \in DOMAIN codes : SehFramed(codes, k)
      BY <1>2, <1>3, <1>10, SehTable DEF SehImage, SehCodesOf
    <3> QED  BY <2>2, <3>1 DEF SehFramed
  <2>4. \A j \in 1..(k - 1) : codes[j] = "alloc"
    <3>1. PICK p \in 1..n : k < p /\ \A j \in 1..n \ {k} : j < p => codes[j] = "alloc"
      BY <2>2, <2>3 DEF SehFramed
    <3>2. \A j \in 1..(k - 1) : j \in 1..n \ {k} /\ j < p
      BY <1>5, <2>3, <3>1
    <3> QED  BY <3>1, <3>2
  <2>5. k \in Nat /\ 1 <= k /\ k <= n
    BY <1>5
  <2> DEFINE v == [j \in 0..n |-> IF j < k THEN [rsp |-> u[j].rsp + 1, rbp |-> u[j].rbp] ELSE u[j]]
  <2>6. v \in [0..n -> SehRegs]
    <3>1. \A j \in 0..n : [rsp |-> u[j].rsp + 1, rbp |-> u[j].rbp] \in SehRegs
      BY <1>5 DEF SehRegs
    <3> QED  BY <1>5, <3>1
  <2>7. /\ \A j \in 0..(k - 1) : v[j] = [rsp |-> u[j].rsp + 1, rbp |-> u[j].rbp]
        /\ \A j \in k..n : v[j] = u[j]
    <3>1. \A j \in 0..(k - 1) : j \in 0..n /\ j < k
      BY <1>5, <2>5
    <3>2. \A j \in k..n : j \in 0..n /\ ~(j < k)
      BY <1>5, <2>5
    <3> QED  BY <3>1, <3>2
  <2> HIDE DEF v
  <2>8. ASSUME NEW j \in 1..n
        PROVE  v[j] = SehUndo(v[j - 1], codes[j])'
    <3>1. u[j] = SehUndo(u[j - 1], codes[j]) /\ j - 1 \in 0..n /\ j \in 0..n
      BY <1>5
    <3>2. u[j - 1] = [rsp |-> u[j - 1].rsp, rbp |-> u[j - 1].rbp] /\ u[j - 1].rsp \in Int
          /\ u[j] = [rsp |-> u[j].rsp, rbp |-> u[j].rbp]
      BY <1>5, <3>1
    <3>3. CASE j < k
      <4>1. j \in 1..(k - 1) /\ j \in 0..(k - 1) /\ j - 1 \in 0..(k - 1)
        BY <2>5, <3>3
      <4>2. codes[j] = "alloc"
        BY <2>4, <4>1
      <4>3. v[j] = [rsp |-> u[j].rsp + 1, rbp |-> u[j].rbp]
            /\ v[j - 1] = [rsp |-> u[j - 1].rsp + 1, rbp |-> u[j - 1].rbp]
        BY <2>7, <4>1
      <4>4. u[j] = [rsp |-> u[j - 1].rsp - 1, rbp |-> u[j - 1].rbp]
        BY <3>1, <3>2, <4>2 DEF SehUndo
      <4>5. SehUndo(v[j - 1], codes[j])' = [rsp |-> (u[j - 1].rsp + 1) - 1, rbp |-> u[j - 1].rbp]
        BY <4>2, <4>3 DEF SehUndo
      <4>6. u[j].rsp + 1 = (u[j - 1].rsp + 1) - 1 /\ u[j].rbp = u[j - 1].rbp
        BY <3>2, <4>4
      <4> QED  BY <4>3, <4>5, <4>6
    <3>4. CASE j = k
      <4>1. j - 1 \in 0..(k - 1) /\ j \in k..n
        BY <2>5, <3>4
      <4>2. v[j] = u[j] /\ v[j - 1] = [rsp |-> u[j - 1].rsp + 1, rbp |-> u[j - 1].rbp]
        BY <2>7, <4>1
      <4>3. u[j] = [rsp |-> u[j - 1].rbp, rbp |-> u[j - 1].rbp]
        BY <2>3, <3>1, <3>2, <3>4 DEF SehUndo
      <4>4. SehUndo(v[j - 1], codes[j])' = [rsp |-> u[j - 1].rbp, rbp |-> u[j - 1].rbp]
        BY <2>3, <3>4, <4>2 DEF SehUndo
      <4> QED  BY <4>2, <4>3, <4>4
    <3>5. CASE j > k
      <4>1. j - 1 \in k..n /\ j \in k..n
        BY <1>5, <2>5, <3>5
      <4>2. v[j] = u[j] /\ v[j - 1] = u[j - 1]
        BY <2>7, <4>1
      <4>3. SehUndo(u[j - 1], codes[j])' = SehUndo(u[j - 1], codes[j])
        <5>1. u[j - 1].rsp \in 1..Len(sehCells)
          BY <1>5, <3>1
        <5>2. \A c : SehUndo(u[j - 1], c)' = SehUndo(u[j - 1], c)
          BY <2>1, <5>1, SehUndoKept
        <5> QED  BY <5>2
      <4> QED  BY <3>1, <4>2, <4>3
    <3> QED  BY <2>5, <3>3, <3>4, <3>5
  <2>9. v[n] = u[n] /\ v[0] = [rsp |-> Len(sehCells'), rbp |-> sehRbp']
    <3>1. 0 \in 0..(k - 1) /\ n \in k..n
      BY <1>5, <2>5
    <3>2. v[n] = u[n] /\ v[0] = [rsp |-> u[0].rsp + 1, rbp |-> u[0].rbp]
      BY <2>7, <3>1
    <3> QED  BY <1>4, <1>6, <2>1, <3>2
  <2>10. \A j \in 0..n : v[n].rsp <= v[j].rsp /\ v[j].rsp <= Len(sehCells')
    <3> SUFFICES ASSUME NEW j \in 0..n
                 PROVE  v[n].rsp <= v[j].rsp /\ v[j].rsp <= Len(sehCells')
      OBVIOUS
    <3>1. u[j].rsp \in 1..Len(sehCells) /\ u[n].rsp <= u[j].rsp /\ u[n].rsp \in Int
      BY <1>5
    <3>2. v[j].rsp = u[j].rsp \/ v[j].rsp = u[j].rsp + 1
      <4>1. CASE j < k
        <5>1. j \in 0..(k - 1)
          BY <2>5, <4>1
        <5>2. v[j] = [rsp |-> u[j].rsp + 1, rbp |-> u[j].rbp]
          BY <2>7, <5>1
        <5> QED  BY <5>2
      <4>2. CASE j >= k
        <5>1. j \in k..n
          BY <1>5, <2>5, <4>2
        <5> QED  BY <2>7, <5>1
      <4> QED  BY <2>5, <4>1, <4>2
    <3>3. v[n].rsp = u[n].rsp /\ Len(sehCells') = Len(sehCells) + 1
      BY <2>1, <2>9
    <3>4. v[n].rsp <= v[j].rsp
      BY <3>1, <3>2, <3>3
    <3>5. v[j].rsp <= Len(sehCells')
      BY <1>2, <3>1, <3>2, <3>3
    <3> QED  BY <3>4, <3>5
  <2>11. SehUndoes(last, v)'
    <3>1. 1 <= v[n].rsp
      BY <1>5, <2>9
    <3>2. 0 \in 0..n /\ 0 + 1 = 1
      BY <1>5
    <3> QED  BY <1>3, <1>7, <2>6, <2>8, <2>10, <3>1, <3>2 DEF SehUndoes
  <2>12. SehReturns(last, v)' = SehReturns(last, tr[last])
    BY <1>3, <1>7, <2>9 DEF SehReturns
  <2>13. v[SehLeft(last)'] = [rsp |-> Len(sehCells'), rbp |-> sehRbp']
    BY <1>7, <2>9
  <2> QED  BY <1>1, <1>6, <2>1, <2>11, <2>12, <2>13, SehInnermost
<1> QED  BY <1>8, <1>9, <1>10

\* A call puts its return address above the caller's registers.
LEMMA SehCallStack ==
  ASSUME SehTypeOK, SehTypeOK', NEW tr, SehStack(tr), NEW f \in DOMAIN sehImage, SehCall(f)
  PROVE  \E tr2 : SehStack(tr2)'
<1>1. PICK last, cells : last = Len(sehCalls) /\ cells = Len(sehCells)
  OBVIOUS
<1>2. /\ last \in Nat \ {0} /\ last \in 1..last /\ SehTop = sehCalls[last] /\ SehTop.rip \in Int
      /\ cells \in Nat /\ sehCells \in Seq(Int) /\ sehRbp \in Nat
      /\ sehCalls \in Seq([fn : DOMAIN sehImage, rip : Nat, done : Nat])
  <2>1. /\ sehCells \in Seq(Int) /\ sehRbp \in Nat
        /\ sehCalls \in Seq([fn : DOMAIN sehImage, rip : Nat, done : Nat])
    BY DEF SehTypeOK
  <2>2. last \in Nat \ {0} /\ last \in 1..last
    BY <1>1, SehCallTyped
  <2>3. SehTop = sehCalls[last] /\ sehCalls[last] \in [fn : DOMAIN sehImage, rip : Nat, done : Nat]
    BY <1>1, <2>2, SehCallTyped DEF SehTop
  <2> QED  BY <1>1, <2>1, <2>2, <2>3, LenProperties
<1> DEFINE called == [fn |-> f, rip |-> sehImage[f].begin, done |-> 0]
<1>3. /\ sehImage' = sehImage /\ sehRbp' = sehRbp
      /\ sehCalls' = Append(sehCalls, called) /\ sehCells' = Append(sehCells, SehTop.rip)
  BY DEF SehCall
<1>4. /\ Len(sehCells') = cells + 1 /\ sehCells'[cells + 1] = SehTop.rip
      /\ \A r \in 1..cells : sehCells'[r] = sehCells[r]
  BY <1>1, <1>2, <1>3, Appended
<1>5. SehGrows
  BY <1>1, <1>2, <1>4 DEF SehGrows
<1>6. /\ Len(sehCalls') = last + 1 /\ sehCalls'[last + 1] = called
      /\ \A i \in 1..last : sehCalls'[i] = sehCalls[i]
  <2>1. called \in [fn : DOMAIN sehImage, rip : Nat, done : Nat]
    BY SehEntry
  <2> HIDE DEF called
  <2> QED  BY <1>1, <1>2, <1>3, <2>1, Appended
<1>7. PICK codes, n, rbp, mine :
        codes = sehImage[f].codes /\ n = Len(codes) /\ rbp = sehRbp /\ mine = last + 1
  OBVIOUS
<1>8. n \in Nat
  BY <1>7, SehEntry
<1> DEFINE u == [j \in 0..n |-> [rsp |-> cells + 1, rbp |-> rbp]]
           tr2 == [i \in 1..mine |-> IF i = mine THEN u ELSE tr[i]]
<1>9. /\ SehCodesOf(mine)' = codes /\ SehLeft(mine)' = n
  BY <1>3, <1>6, <1>7, <1>8 DEF SehCodesOf, SehLeft
<1>10. u \in [0..n -> SehRegs] /\ u[n] = [rsp |-> cells + 1, rbp |-> rbp]
  <2>1. [rsp |-> cells + 1, rbp |-> rbp] \in SehRegs
    BY <1>2, <1>7 DEF SehRegs
  <2> QED  BY <1>8, <2>1
<1>11. SehUndoes(mine, u)'
  <2> HIDE DEF u
  <2>1. n \in 0..n /\ \A j \in n..n : j = n
    BY <1>8
  <2>2. \A j \in (n + 1)..n : FALSE
    BY <1>8
  <2>3. 1 <= u[n].rsp /\ u[n].rsp <= u[n].rsp /\ u[n].rsp <= Len(sehCells')
    BY <1>2, <1>4, <1>10
  <2> QED  BY <1>7, <1>9, <1>10, <2>1, <2>2, <2>3 DEF SehUndoes
<1>12. SehReturns(mine, u)' = [rsp |-> cells + 1, rbp |-> rbp]
  BY <1>7, <1>9, <1>10 DEF SehReturns
<1>13. tr2[mine] = u /\ \A i \in 1..last : tr2[i] = tr[i]
  BY <1>2, <1>7
<1> HIDE DEF u, tr2, called
<1>14. \A i \in 1..last :
         /\ SehUndoes(i, tr2[i])' /\ SehLeft(i)' = 0
         /\ SehReturns(i, tr2[i])' = SehReturns(i, tr[i])
         /\ SehReturns(i, tr[i]).rsp \in 1..cells
  <2> SUFFICES ASSUME NEW i \in 1..last
               PROVE  /\ SehUndoes(i, tr[i])' /\ SehLeft(i)' = 0
                      /\ SehReturns(i, tr[i])' = SehReturns(i, tr[i])
                      /\ SehReturns(i, tr[i]).rsp \in 1..cells
    BY <1>13 DEF tr2, u
  <2>1. SehUndoes(i, tr[i]) /\ (i < last => SehLeft(i) = 0)
    BY <1>1 DEF SehStack
  <2>2. SehLeft(i) = 0
    <3>1. CASE i = last
      BY <1>1, <1>2, <3>1 DEF SehCall, SehPrologueLeft, SehLeft, SehCodesOf
    <3>2. CASE i # last
      BY <1>2, <2>1, <3>2
    <3> QED  BY <3>1, <3>2
  <2>3. sehCalls'[i] = sehCalls[i]
    BY <1>6
  <2> QED  BY <1>1, <1>3, <1>5, <2>1, <2>2, <2>3, SehUndoesKept
<1>15. /\ SehReturns(1, tr2[1])'.rsp = 1 /\ sehCells'[1] = SehMarker
  <2>1. SehReturns(1, tr[1]).rsp = 1 /\ sehCells[1] = SehMarker
    BY DEF SehStack
  <2>2. 1 \in 1..last
    BY <1>2
  <2>3. 1 \in 1..cells
    BY <1>14, <2>1, <2>2
  <2> QED  BY <1>4, <1>14, <2>1, <2>2, <2>3
<1>16. ASSUME NEW i \in 2..mine
       PROVE  LET at == SehReturns(i, tr2[i])'
              IN sehCells'[at.rsp] = sehCalls'[i - 1].rip
                 /\ tr2[i - 1][0] = [rsp |-> at.rsp - 1, rbp |-> at.rbp]
  <2>0. i - 1 \in 1..last /\ tr2[i - 1] = tr[i - 1]
    <3>1. i - 1 \in 1..last
      BY <1>2, <1>7
    <3> QED  BY <1>13, <3>1
  <2>1. CASE i = mine
    <3>1. SehReturns(i, tr2[i])' = [rsp |-> cells + 1, rbp |-> rbp]
      BY <1>12, <1>13, <2>1
    <3>2. i - 1 = last
      BY <1>2, <1>7, <2>1
    <3>3. sehCalls'[last].rip = SehTop.rip
      BY <1>2, <1>6
    <3>4. tr[last][0] = [rsp |-> cells, rbp |-> rbp]
      <4>1. SehLeft(last) = 0
        BY <1>1, <1>2 DEF SehCall, SehPrologueLeft, SehLeft, SehCodesOf
      <4> QED  BY <1>1, <1>7, <4>1 DEF SehStack
    <3>5. (cells + 1) - 1 = cells
      BY <1>2
    <3> QED  BY <1>4, <2>0, <3>1, <3>2, <3>3, <3>4, <3>5
  <2>2. CASE i # mine
    <3>1. i \in 2..last /\ i \in 1..last
      BY <1>2, <1>7, <2>2
    <3> DEFINE at == SehReturns(i, tr[i])
    <3>2. SehReturns(i, tr2[i])' = at /\ at.rsp \in 1..cells
      BY <1>14, <3>1
    <3>3. sehCells[at.rsp] = sehCalls[i - 1].rip /\ tr[i - 1][0] = [rsp |-> at.rsp - 1, rbp |-> at.rbp]
      BY <1>1, <3>1 DEF SehStack
    <3>4. sehCells'[at.rsp] = sehCells[at.rsp] /\ sehCalls'[i - 1] = sehCalls[i - 1]
      BY <1>4, <1>6, <2>0, <3>2
    <3> HIDE DEF at
    <3> QED  BY <2>0, <3>2, <3>3, <3>4
  <2> QED  BY <2>1, <2>2
<1>17. ASSUME NEW i \in 1..mine
       PROVE  SehUndoes(i, tr2[i])' /\ (i < mine => SehLeft(i)' = 0)
  <2>1. CASE i = mine
    BY <1>2, <1>7, <1>11, <1>13, <2>1 DEF tr2
  <2>2. CASE i # mine
    <3>1. i \in 1..last
      BY <1>2, <1>7, <2>2
    <3> QED  BY <1>14, <3>1
  <2> QED  BY <2>1, <2>2
<1>18. tr2[mine][SehLeft(mine)'] = [rsp |-> Len(sehCells'), rbp |-> sehRbp']
  BY <1>3, <1>4, <1>7, <1>9, <1>10, <1>13
<1>19. mine = Len(sehCalls')
  BY <1>6, <1>7
<1>20. PICK t : t = tr2
  OBVIOUS
<1>21. SehStack(t)'
  <2>1. \A i \in 1..mine : SehUndoes(i, t[i])' /\ (i < mine => SehLeft(i)' = 0)
    BY <1>17, <1>20
  <2> QED  BY <1>15, <1>16, <1>18, <1>19, <1>20, <2>1 DEF SehStack
<1> QED  BY <1>21

-----------------------------------------------------------------------------
\* The steps of the search leave the calls as they are.
SehStill == UNCHANGED <<sehImage, sehCalls, sehCells, sehRbp>>

LEMMA SehStillStack ==
  ASSUME SehStill, NEW tr
  PROVE  /\ SehStack(tr) => SehStack(tr)'
         /\ \A k : SehSound(k)' = SehSound(k)
<1>1. \A i, u : SehUndoes(i, u)' = SehUndoes(i, u) /\ SehLeft(i)' = SehLeft(i)
                /\ SehReturns(i, u)' = SehReturns(i, u)
  BY DEF SehStill, SehUndoes, SehLeft, SehCodesOf, SehReturns, SehUndo, SehCell
<1>2. \A k : SehSound(k)' = SehSound(k)
  BY DEF SehStill, SehSound, SehFrameListed, SehFrame, SehPrologueLeft, SehTop
<1>3. SehStack(tr) => SehStack(tr)'
  BY <1>1 DEF SehStill, SehStack
<1> QED  BY <1>2, <1>3

\* If the walk can get past the last frame, it can get past those before it.
LEMMA SehSoundBelow ==
  ASSUME NEW k \in Nat, NEW j \in 0..k, SehSound(k)
  PROVE  SehSound(j)
<1>1. \A m \in 0..j : m \in 0..k
  OBVIOUS
<1> QED  BY <1>1 DEF SehSound

\* Where the search is at a call, it finds the function, and the caller in the frame.
LEMMA SehAtCall ==
  ASSUME SehTypeOK, SehCallsInv, NEW tr, SehStack(tr), SehAt(tr), sehFault = "opcode",
         sehWalked < Len(sehCalls), SehSound(sehWalked)
  PROVE  LET i == Len(sehCalls) - sehWalked
             at == SehReturns(i, tr[i])
         IN /\ i \in 1..Len(sehCalls)
            /\ SehLookup(sehCtx.rip) # {}
            /\ \A n \in SehLookup(sehCtx.rip) :
                 SehUnwind(sehCtx, SehResolve(n))
                   = [rip |-> sehCells[at.rsp], rsp |-> at.rsp - 1, rbp |-> at.rbp]
            /\ at.rsp \in Int /\ at.rsp <= sehCtx.rsp
            /\ at.rsp \in 1..Len(sehCells)
<1>1. PICK last, i : last = Len(sehCalls) /\ i = last - sehWalked
  OBVIOUS
<1>2. last \in Nat \ {0} /\ sehWalked \in Nat /\ i \in 1..last /\ SehMaxWalk \in Nat
  <2>1. last \in Nat \ {0}
    BY <1>1, SehCallTyped
  <2>2. SehMaxWalk \in Nat /\ sehWalked \in 0..SehMaxWalk
    BY SehTable DEF SehTypeOK
  <2> QED  BY <1>1, <2>1, <2>2
<1>3. sehCtx = [rip |-> sehCalls[i].rip, rsp |-> tr[i][0].rsp, rbp |-> tr[i][0].rbp]
  BY <1>1 DEF SehAt
<1>4. PICK f : f = sehCalls[i].fn
  OBVIOUS
<1>5. /\ f \in DOMAIN sehImage /\ sehImage[f].chain = 0 /\ sehCalls[i].rip \in SehBody(f)
      /\ sehImage[f].listed
  <2>1. f \in DOMAIN sehImage /\ sehImage[f].chain = 0 /\ sehCalls[i].rip \in SehBody(f)
    BY <1>1, <1>2, <1>4, SehCallTyped DEF SehCallsInv
  <2>2. SehFrameListed(sehWalked)
    BY <1>2 DEF SehSound
  <2> QED  BY <1>1, <1>4, <2>1, <2>2 DEF SehFrameListed, SehFrame
<1>6. /\ SehLookup(sehCtx.rip) # {}
      /\ \A n \in SehLookup(sehCtx.rip) : SehResolve(n) = sehImage[f]
  <2>1. sehCtx.rip \in SehBody(f)
    BY <1>3, <1>5
  <2> QED  BY <1>5, <2>1, SehLookupFinds
<1>7. SehUndoes(i, tr[i]) /\ SehLeft(i) = 0
  <2>1. SehUndoes(i, tr[i]) /\ (i < last => SehLeft(i) = 0)
    BY <1>1, <1>2 DEF SehStack
  <2>2. i = last => SehLeft(i) = 0
    BY <1>1 DEF SehSound, SehPrologueLeft, SehTop, SehLeft, SehCodesOf
  <2> QED  BY <1>2, <2>1, <2>2
<1> DEFINE at == SehReturns(i, tr[i])
<1>8. at.rsp \in Int /\ at.rsp \in 1..Len(sehCells) /\ at.rsp <= tr[i][0].rsp
  <2>1. PICK u, n : u = tr[i] /\ n = Len(SehCodesOf(i))
    OBVIOUS
  <2>2. i \in 1..Len(sehCalls) /\ SehUndoes(i, u)
    BY <1>1, <1>2, <1>7, <2>1
  <2>3. /\ n \in Nat
        /\ \A j \in SehLeft(i)..n : u[j].rsp \in 1..Len(sehCells) /\ u[n].rsp <= u[j].rsp
    <3>1. n = Len(SehCodesOf(i))
      BY <2>1
    <3> QED  BY <2>2, <3>1, SehUndoesParts
  <2>4. 0 \in SehLeft(i)..n /\ n \in SehLeft(i)..n
    BY <1>7, <2>3
  <2>5. u[n].rsp \in 1..Len(sehCells) /\ u[n].rsp <= u[0].rsp
    BY <2>3, <2>4
  <2> QED  BY <2>1, <2>5 DEF SehReturns
<1>9. \A n \in SehLookup(sehCtx.rip) :
        SehUnwind(sehCtx, SehResolve(n))
          = [rip |-> sehCells[at.rsp], rsp |-> at.rsp - 1, rbp |-> at.rbp]
  <2>1. i \in 1..Len(sehCalls) /\ sehCtx.rsp = tr[i][0].rsp /\ sehCtx.rbp = tr[i][0].rbp
    BY <1>1, <1>2, <1>3
  <2>2. SehUnwind(sehCtx, sehImage[f])
          = [rip |-> SehCell(at.rsp), rsp |-> at.rsp - 1, rbp |-> at.rbp]
    BY <1>4, <1>7, <2>1, SehUndone
  <2>3. SehCell(at.rsp) = sehCells[at.rsp]
    BY <1>8 DEF SehCell
  <2> QED  BY <1>6, <2>2, <2>3
<1> QED  BY <1>1, <1>2, <1>3, <1>6, <1>8, <1>9

\* Where the search goes on from a frame, it goes on in the caller.
LEMMA SehOnFollows ==
  ASSUME SehTypeOK, SehCallsInv, NEW tr, SehStack(tr), SehAt(tr), sehOutcome = "none",
         NEW n \in SehLookup(sehCtx.rip), SehOn(SehResolve(n)), SehStill, sehFault' = sehFault
  PROVE  SehAt(tr)'
<1> SUFFICES ASSUME sehFault = "opcode"
             PROVE  SehAt(tr)'
  BY DEF SehAt
<1>1. PICK last, w : last = Len(sehCalls) /\ w = sehWalked
  OBVIOUS
<1>2. last \in Nat \ {0} /\ w \in Nat /\ last = Len(sehCalls')
  <2>1. last \in Nat \ {0}
    BY <1>1, SehCallTyped
  <2>2. SehMaxWalk \in Nat /\ w \in 0..SehMaxWalk
    BY <1>1, SehTable DEF SehTypeOK
  <2> QED  BY <1>1, <2>1, <2>2 DEF SehStill
<1>3. \A k : SehSound(k)' = SehSound(k)
  BY SehStillStack
<1>4. /\ sehWalked' \in {w, w + 1} /\ sehOutcome' \in {"none", "unhandled"}
  BY <1>1 DEF SehOn, SehEnd
<1>5. CASE w < last /\ SehSound(w)
  <2>1. PICK i, at : i = last - w /\ at = SehReturns(i, tr[i])
    OBVIOUS
  <2>2. /\ i \in 1..last
        /\ SehUnwind(sehCtx, SehResolve(n))
              = [rip |-> sehCells[at.rsp], rsp |-> at.rsp - 1, rbp |-> at.rbp]
        /\ at.rsp \in Int /\ at.rsp <= sehCtx.rsp
    BY <1>1, <1>5, <2>1, SehAtCall
  <2>3. /\ i > 1 => sehCells[at.rsp] = sehCalls[i - 1].rip
                    /\ tr[i - 1][0] = [rsp |-> at.rsp - 1, rbp |-> at.rbp]
        /\ i = 1 => sehCells[at.rsp] = SehMarker
    <3>1. i > 1 => i \in 2..last
      BY <1>2, <2>2
    <3> QED  BY <1>1, <2>1, <3>1 DEF SehStack
  <2>4. sehCells[at.rsp] # SehNothing
    <3>1. CASE i > 1
      <4>1. i - 1 \in 1..Len(sehCalls)
        BY <1>1, <1>2, <2>2, <3>1
      <4>2. sehCalls[i - 1].rip \in Nat \ {0}
        BY <4>1, SehBodyNumbers DEF SehCallsInv
      <4> QED  BY <2>3, <3>1, <4>2 DEF SehNothing
    <3>2. CASE i = 1
      BY <2>3, <3>2 DEF SehMarker, SehNothing
    <3> QED  BY <2>2, <3>1, <3>2
  <2>5. /\ sehCtx' = [rip |-> sehCells[at.rsp], rsp |-> at.rsp - 1, rbp |-> at.rbp]
        /\ sehWalked' = w + 1 /\ sehOutcome' = "none"
    <3>1. sehCtx.rsp \in Nat
      BY DEF SehTypeOK
    <3>2. ~(at.rsp - 1 >= sehCtx.rsp)
      BY <2>2, <3>1
    <3> QED  BY <1>1, <2>2, <2>4, <3>2 DEF SehOn
  <2>6. w + 1 < last =>
          sehCtx' = [rip |-> sehCalls'[last - (w + 1)].rip, rsp |-> tr[last - (w + 1)][0].rsp,
                     rbp |-> tr[last - (w + 1)][0].rbp]
    <3> SUFFICES ASSUME w + 1 < last
                 PROVE  sehCtx' = [rip |-> sehCalls'[last - (w + 1)].rip, rsp |-> tr[last - (w + 1)][0].rsp,
                     rbp |-> tr[last - (w + 1)][0].rbp]
      OBVIOUS
    <3>1. i > 1 /\ last - (w + 1) = i - 1
      BY <1>2, <2>1
    <3>2. sehCalls' = sehCalls
      BY DEF SehStill
    <3> QED  BY <2>3, <2>5, <3>1, <3>2
  <2>7. w + 1 <= last /\ (w + 1 = last => sehCtx'.rip = SehMarker)
    <3>1. w + 1 = last => i = 1
      BY <1>2, <2>1
    <3> QED  BY <1>2, <1>5, <2>3, <2>5, <3>1
  <2> QED  BY <1>2, <2>5, <2>6, <2>7 DEF SehAt
<1>6. CASE w < last /\ ~SehSound(w)
  <2>1. ~SehSound(w + 1) /\ ~SehSound(last - 1)
    <3>1. w \in 0..(w + 1) /\ w + 1 \in Nat /\ w \in 0..(last - 1) /\ last - 1 \in Nat
      BY <1>2, <1>6
    <3> QED  BY <1>6, <3>1, SehSoundBelow
  <2> QED  BY <1>2, <1>3, <1>4, <1>6, <2>1 DEF SehAt
<1>7. CASE w >= last
  <2>1. ~SehSound(last - 1)
    <3> SUFFICES ASSUME SehSound(last - 1) PROVE FALSE
      OBVIOUS
    <3>1. w <= last /\ (w = last => sehCtx.rip = SehMarker)
      BY <1>1 DEF SehAt
    <3>2. sehCtx.rip = SehMarker
      BY <1>2, <1>7, <3>1
    <3> QED  BY <3>2, SehMarkerApart
  <2>2. ~(sehWalked' < last)
    BY <1>2, <1>4, <1>7
  <2> QED  BY <1>2, <1>3, <2>1, <2>2 DEF SehAt
<1> QED  BY <1>2, <1>5, <1>6, <1>7

\* Where it ends, it had a reason.
LEMMA SehEndFollows ==
  ASSUME SehTypeOK, SehCallsInv, NEW tr, SehStack(tr), SehAt(tr), NEW o, SehEnd(o), SehStill,
         sehFault' = sehFault,
         o = "unhandled" =>
           \/ SehLookup(sehCtx.rip) = {} \/ sehWalked = SehMaxWalk
           \/ sehAsked' # <<>> /\ Last(sehAsked').verdict \in {"other", "execute", "fault"}
  PROVE  SehAt(tr)'
<1> SUFFICES ASSUME sehFault = "opcode"
             PROVE  SehAt(tr)'
  BY DEF SehAt
<1>1. PICK last, w : last = Len(sehCalls) /\ w = sehWalked
  OBVIOUS
<1>2. last \in Nat \ {0} /\ w \in Nat /\ last = Len(sehCalls') /\ sehCalls' = sehCalls
  <2>1. last \in Nat \ {0}
    BY <1>1, SehCallTyped
  <2>2. SehMaxWalk \in Nat /\ w \in 0..SehMaxWalk
    BY <1>1, SehTable DEF SehTypeOK
  <2> QED  BY <1>1, <2>1, <2>2 DEF SehStill
<1>3. \A k : SehSound(k)' = SehSound(k)
  BY SehStillStack
<1>4. sehWalked' = w /\ sehCtx' = sehCtx /\ sehOutcome' = o
  BY <1>1 DEF SehEnd
<1>5. ASSUME SehSound(last - 1), o = "unhandled"
      PROVE  \/ w \in {last, SehMaxWalk}
             \/ sehAsked' # <<>> /\ Last(sehAsked').verdict \in {"other", "execute", "fault"}
  <2>1. CASE w < last
    <3>1. w \in 0..(last - 1) /\ last - 1 \in Nat
      BY <1>2, <2>1
    <3>2. SehSound(w)
      BY <1>5, <3>1, SehSoundBelow
    <3>3. SehLookup(sehCtx.rip) # {}
      BY <1>1, <2>1, <3>2, SehAtCall
    <3> QED  BY <1>1, <1>5, <3>3
  <2>2. CASE ~(w < last)
    BY <1>1, <1>2, <1>5, <2>2 DEF SehAt
  <2> QED  BY <2>1, <2>2
<1> QED  BY <1>1, <1>2, <1>3, <1>4, <1>5 DEF SehAt

-----------------------------------------------------------------------------
LEMMA SehCallsStep ==
  ASSUME SehTypeOK, SehCallsInv, [SehNext]_sehVars
  PROVE  SehCallsInv'
<1>1. PICK last : last = Len(sehCalls)
  OBVIOUS
<1>2. /\ last \in Nat \ {0} /\ SehTop = sehCalls[last]
      /\ sehCalls \in Seq([fn : DOMAIN sehImage, rip : Nat, done : Nat])
      /\ sehCalls[last] \in [fn : DOMAIN sehImage, rip : Nat, done : Nat]
  BY <1>1, SehCallTyped DEF SehTop, SehTypeOK
<1>3. sehImage' = sehImage
  BY DEF SehNext, sehVars, SehPrologue, SehMove, SehCall, SehRaise, SehGiveUp, SehWalk, SehConsult
<1>4. \A f : SehBody(f)' = SehBody(f)
  BY <1>3 DEF SehBody
<1>5. \A i \in 1..last : sehImage[sehCalls[i].fn].chain = 0 /\ sehCalls[i].rip \in SehBody(sehCalls[i].fn)
  BY <1>1 DEF SehCallsInv
<1>6. ASSUME NEW call, call.fn = sehCalls[last].fn,
             call.rip \in SehBody(call.fn), sehCalls' = [sehCalls EXCEPT ![last] = call]
      PROVE  SehCallsInv'
  <2>1. Len(sehCalls') = last /\ \A i \in 1..last : sehCalls'[i] = IF i = last THEN call ELSE sehCalls[i]
    BY <1>1, <1>2, <1>6
  <2>2. \A i \in 1..last : sehImage[sehCalls'[i].fn].chain = 0
                           /\ sehCalls'[i].rip \in SehBody(sehCalls'[i].fn)
    BY <1>2, <1>5, <1>6, <2>1
  <2> QED  BY <1>3, <1>4, <2>1, <2>2 DEF SehCallsInv, SehBody
<1>7. CASE SehPrologue
  <2> DEFINE call == [sehCalls[last] EXCEPT !.done = @ + 1]
  <2>1. sehCalls' = [sehCalls EXCEPT ![last] = call]
    BY <1>1, <1>2, <1>7 DEF SehPrologue
  <2>2. call.fn = sehCalls[last].fn /\ call.rip = sehCalls[last].rip
    BY <1>2
  <2>3. call.rip \in SehBody(call.fn)
    BY <1>2, <1>5, <2>2
  <2> HIDE DEF call
  <2> QED  BY <1>6, <2>1, <2>2, <2>3
<1>8. CASE SehMove
  <2>1. PICK rip \in SehBody(SehTop.fn) : sehCalls' = [sehCalls EXCEPT ![last].rip = rip]
    BY <1>1, <1>8 DEF SehMove
  <2> DEFINE call == [sehCalls[last] EXCEPT !.rip = rip]
  <2>2. sehCalls' = [sehCalls EXCEPT ![last] = call]
    BY <1>2, <2>1
  <2>3. call.fn = sehCalls[last].fn /\ call.rip = rip
    BY <1>2
  <2>4. call.rip \in SehBody(call.fn)
    BY <1>2, <2>1, <2>3
  <2> HIDE DEF call
  <2> QED  BY <1>6, <2>2, <2>3, <2>4
<1>9. ASSUME NEW n \in DOMAIN sehImage, SehCall(n) PROVE SehCallsInv'
  <2> DEFINE called == [fn |-> n, rip |-> sehImage[n].begin, done |-> 0]
  <2>1. sehCalls' = Append(sehCalls, called) /\ sehImage[n].chain = 0
    BY <1>9 DEF SehCall
  <2>2. called.fn = n /\ called.rip \in SehBody(n)
    BY SehBegins
  <2>3. called \in [fn : DOMAIN sehImage, rip : Nat, done : Nat]
    BY SehEntry
  <2> HIDE DEF called
  <2>4. Len(sehCalls') = last + 1 /\ sehCalls'[last + 1] = called
        /\ \A i \in 1..last : sehCalls'[i] = sehCalls[i]
    BY <1>1, <1>2, <2>1, <2>3, Appended
  <2>5. \A i \in 1..(last + 1) : i = last + 1 \/ i \in 1..last
    BY <1>2
  <2>6. \A i \in 1..(last + 1) : sehImage[sehCalls'[i].fn].chain = 0
                                 /\ sehCalls'[i].rip \in SehBody(sehCalls'[i].fn)
    BY <1>5, <2>1, <2>2, <2>4, <2>5
  <2> QED  BY <1>3, <2>4, <2>6 DEF SehCallsInv, SehBody
<1>10. CASE sehCalls' = sehCalls
  BY <1>3, <1>10 DEF SehCallsInv, SehBody
<1> QED
  BY <1>7, <1>8, <1>9, <1>10 DEF SehNext, sehVars, SehRaise, SehGiveUp, SehWalk, SehConsult

\* The filters asked so far are of frames before the one the search is at.
LEMMA SehAskedStep ==
  ASSUME SehTypeOK, SehAskedInv, [SehNext]_sehVars
  PROVE  SehAskedInv'
<1>1. sehWalked \in Nat /\ sehAsked \in Seq([frame : Nat, verdict : SehVerdicts])
      /\ Len(sehAsked) \in Nat
  <2>1. SehMaxWalk \in Nat /\ sehWalked \in 0..SehMaxWalk
    BY SehTable DEF SehTypeOK
  <2> QED  BY <2>1, LenProperties DEF SehTypeOK
<1>2. \A j \in DOMAIN sehAsked : sehAsked[j].frame \in Nat
  <2>1. \A j \in DOMAIN sehAsked : sehAsked[j] \in [frame : Nat, verdict : SehVerdicts]
    BY <1>1, LenProperties, ElementOfSeq
  <2> QED  BY <2>1
<1>3. CASE SehPrologue \/ SehMove \/ (\E n \in DOMAIN sehImage : SehCall(n)) \/ UNCHANGED sehVars
  BY <1>3 DEF SehPrologue, SehMove, SehCall, sehVars, SehAskedInv
<1>4. ASSUME NEW kind \in {"opcode", "page"}, SehRaise(kind) PROVE SehAskedInv'
  BY <1>4 DEF SehRaise, SehRunning, SehAskedInv
<1>5. CASE SehGiveUp
  BY <1>5 DEF SehGiveUp, SehEnd, SehSearching, SehAskedInv
<1>6. CASE SehWalk
  <2>1. PICK n \in SehLookup(sehCtx.rip) : SehOn(SehResolve(n))
    BY <1>6 DEF SehWalk
  <2>2. sehWalked' \in {sehWalked, sehWalked + 1} /\ sehAsked' = sehAsked /\ sehFault' # "none"
        /\ sehOutcome = "none"
    BY <1>6, <2>1 DEF SehWalk, SehOn, SehEnd, SehSearching
  <2>3. \A j \in DOMAIN sehAsked : sehAsked[j].frame < sehWalked
                   /\ \A k \in 1..j - 1 : sehAsked[k].frame < sehAsked[j].frame
    BY <2>2 DEF SehAskedInv
  <2>4. \A j \in DOMAIN sehAsked : sehAsked[j].frame <= sehWalked' /\ sehAsked[j].frame < sehWalked'
    BY <1>1, <1>2, <2>2, <2>3
  <2> QED  BY <2>2, <2>3, <2>4 DEF SehAskedInv
<1>7. CASE SehConsult
  <2>1. PICK n \in SehLookup(sehCtx.rip), v \in SehVerdicts : SehConsulted(n, v)
    BY <1>7, SehConsults
  <2>2. sehOutcome = "none" /\ sehFault' # "none"
    BY <1>7 DEF SehConsult, SehSearching
  <2>3. \A j \in DOMAIN sehAsked : sehAsked[j].frame < sehWalked
                   /\ \A k \in 1..j - 1 : sehAsked[k].frame < sehAsked[j].frame
    BY <2>2 DEF SehAskedInv
  <2>4. sehWalked' = sehWalked + 1 \/ (sehWalked' = sehWalked /\ sehOutcome' # "none")
    BY <2>1 DEF SehConsulted, SehOn, SehEnd
  <2> DEFINE entry == [frame |-> sehWalked, verdict |-> v]
  <2>5. entry \in [frame : Nat, verdict : SehVerdicts] /\ entry.frame = sehWalked
    BY <1>1
  <2>6. sehAsked' = Append(sehAsked, entry)
    BY <2>1 DEF SehConsulted
  <2> HIDE DEF entry
  <2>7. PICK len : len = Len(sehAsked)
    OBVIOUS
  <2>8. /\ len \in Nat /\ DOMAIN sehAsked = 1..len /\ DOMAIN sehAsked' = 1..(len + 1)
        /\ sehAsked'[len + 1] = entry /\ \A j \in 1..len : sehAsked'[j] = sehAsked[j]
    <3>1. /\ Len(sehAsked') = len + 1 /\ sehAsked'[len + 1] = entry
          /\ \A j \in DOMAIN sehAsked : sehAsked'[j] = sehAsked[j]
      BY <1>1, <2>5, <2>6, <2>7, Appended
    <3>2. sehAsked' \in Seq([frame : Nat, verdict : SehVerdicts])
      BY <1>1, <2>5, <2>6
    <3> QED  BY <1>1, <2>7, <3>1, <3>2, LenProperties
  <2>9. ASSUME NEW j \in 1..(len + 1)
        PROVE  /\ sehAsked'[j].frame <= sehWalked'
               /\ sehOutcome' = "none" => sehAsked'[j].frame < sehWalked'
               /\ \A k \in 1..j - 1 : sehAsked'[k].frame < sehAsked'[j].frame
    <3>1. CASE j = len + 1
      <4>1. sehAsked'[j].frame = sehWalked
        BY <2>5, <2>8, <3>1
      <4>2. \A k \in 1..j - 1 : k \in 1..len
        BY <2>8, <3>1
      <4>3. \A k \in 1..j - 1 : sehAsked'[k].frame < sehAsked'[j].frame
        BY <2>3, <2>8, <4>1, <4>2
      <4> QED  BY <1>1, <2>4, <4>1, <4>3, SMTT(30)
    <3>2. CASE j # len + 1
      <4>1. j \in 1..len /\ \A k \in 1..j - 1 : k \in 1..len
        BY <2>8, <3>2
      <4>2. sehAsked'[j].frame < sehWalked /\ sehAsked'[j].frame \in Nat
        BY <1>2, <2>3, <2>8, <4>1
      <4>3. \A k \in 1..j - 1 : sehAsked'[k].frame < sehAsked'[j].frame
        BY <2>3, <2>8, <4>1
      <4> QED  BY <1>1, <2>4, <4>2, <4>3
    <3> QED  BY <3>1, <3>2
  <2> QED  BY <2>2, <2>8, <2>9 DEF SehAskedInv
<1> QED
  BY <1>3, <1>4, <1>5, <1>6, <1>7 DEF SehNext

\* At the start there is one call, and nothing in its frame.
LEMMA SehInvInit == SehInit => SehInv
<1> SUFFICES ASSUME SehInit PROVE SehInv
  OBVIOUS
<1>1. PICK f \in DOMAIN sehImage :
        /\ sehImage[f].chain = 0
        /\ sehCalls = <<[fn |-> f, rip |-> sehImage[f].begin, done |-> 0]>>
  BY DEF SehInit
<1>2. /\ sehCells = <<SehMarker>> /\ sehRbp = 0 /\ sehFault = "none" /\ sehWalked = 0
      /\ sehAsked = <<>> /\ sehOutcome = "none"
  BY DEF SehInit
<1>3. SehTypeOK
  BY SehTypeInit
<1>4. Len(sehCalls) = 1 /\ sehCalls[1].fn = f /\ sehCalls[1].done = 0
      /\ sehCalls[1].rip = sehImage[f].begin
  BY <1>1
<1>5. SehCallsInv
  BY <1>1, <1>3, <1>4, SehBegins DEF SehCallsInv
<1>6. SehAskedInv
  BY <1>2 DEF SehAskedInv
<1>7. PICK codes, n : codes = sehImage[f].codes /\ n = Len(codes)
  OBVIOUS
<1>8. n \in Nat /\ SehCodesOf(1) = codes /\ SehLeft(1) = n
  BY <1>3, <1>4, <1>7, SehEntry DEF SehCodesOf, SehLeft
<1> DEFINE u == [j \in 0..n |-> [rsp |-> 1, rbp |-> 0]]
           tr == [i \in 1..1 |-> u]
<1>9. u \in [0..n -> SehRegs] /\ u[n] = [rsp |-> 1, rbp |-> 0]
  BY <1>8 DEF SehRegs
<1>10. Len(sehCells) = 1 /\ sehCells[1] = SehMarker
  BY <1>2
<1>11. SehUndoes(1, u) /\ SehReturns(1, u) = [rsp |-> 1, rbp |-> 0]
  <2> HIDE DEF u
  <2>1. n \in 0..n /\ (\A j \in n..n : j = n) /\ \A j \in (n + 1)..n : FALSE
    BY <1>8
  <2> QED  BY <1>7, <1>8, <1>9, <1>10, <2>1 DEF SehUndoes, SehReturns
<1>12. tr[1] = u /\ (\A i \in 1..1 : i = 1) /\ \A i \in 2..1 : FALSE
  OBVIOUS
<1> HIDE DEF u, tr
<1>13. SehStack(tr)
  BY <1>2, <1>4, <1>8, <1>9, <1>10, <1>11, <1>12 DEF SehStack
<1>14. SehAt(tr)
  BY <1>2 DEF SehAt
<1> QED  BY <1>3, <1>5, <1>6, <1>13, <1>14 DEF SehInv

LEMMA SehInvNext == SehInv /\ [SehNext]_sehVars => SehInv'
<1> SUFFICES ASSUME SehInv, [SehNext]_sehVars PROVE SehInv'
  OBVIOUS
<1>1. SehTypeOK /\ SehCallsInv /\ SehAskedInv
  BY DEF SehInv
<1>2. SehTypeOK' /\ SehCallsInv' /\ SehAskedInv'
  BY <1>1, SehTypeStep, SehCallsStep, SehAskedStep
<1>3. PICK tr : SehStack(tr) /\ SehAt(tr)
  BY DEF SehInv
<1>4. ASSUME NEW t, SehStack(t)', SehAt(t)' PROVE SehInv'
  BY <1>2, <1>4 DEF SehInv
<1>5. ASSUME NEW t, SehStack(t)', sehFault' = "none" PROVE SehInv'
  BY <1>4, <1>5 DEF SehAt
<1>6. CASE SehPrologue
  <2>1. PICK t : SehStack(t)'
    BY <1>1, <1>2, <1>3, <1>6, SehPrologueStack
  <2> QED  BY <1>5, <1>6, <2>1 DEF SehPrologue, SehRunning
<1>7. CASE SehMove
  <2>1. PICK t : SehStack(t)'
    BY <1>1, <1>2, <1>3, <1>7, SehMoveStack
  <2> QED  BY <1>5, <1>7, <2>1 DEF SehMove, SehRunning
<1>8. ASSUME NEW f \in DOMAIN sehImage, SehCall(f) PROVE SehInv'
  <2>1. PICK t : SehStack(t)'
    BY <1>1, <1>2, <1>3, <1>8, SehCallStack
  <2> QED  BY <1>5, <1>8, <2>1 DEF SehCall, SehRunning
<1>9. ASSUME NEW kind \in {"opcode", "page"}, SehRaise(kind) PROVE SehInv'
  <2>1. SehStill
    BY <1>9 DEF SehRaise, SehStill
  <2>2. SehStack(tr)' /\ \A k : SehSound(k)' = SehSound(k)
    BY <1>3, <2>1, SehStillStack
  <2>3. /\ sehWalked' = 0 /\ sehAsked' = <<>> /\ sehOutcome' = "none"
    BY <1>1, <1>9 DEF SehAskedInv, SehRaise, SehRunning
  <2>4. PICK last : last = Len(sehCalls)
    OBVIOUS
  <2>5. last \in Nat \ {0} /\ SehTop = sehCalls[last] /\ sehCalls' = sehCalls
    BY <1>1, <2>1, <2>4, SehCallTyped DEF SehTop, SehStill
  <2>6. ASSUME kind = "opcode", SehSound(0)
        PROVE  sehCtx' = [rip |-> sehCalls[last].rip, rsp |-> tr[last][0].rsp, rbp |-> tr[last][0].rbp]
    <3>1. SehLeft(last) = 0
      BY <2>4, <2>6 DEF SehSound, SehPrologueLeft, SehTop, SehLeft, SehCodesOf
    <3>2. tr[last][0] = [rsp |-> Len(sehCells), rbp |-> sehRbp]
      BY <1>3, <2>4, <3>1 DEF SehStack
    <3> QED  BY <1>9, <2>5, <2>6, <3>2 DEF SehRaise
  <2>7. sehFault' = kind
    BY <1>9 DEF SehRaise
  <2>8. last - 0 = last /\ 0 <= last /\ 0 # last
    BY <2>5
  <2>9. SehAt(tr)'
    BY <2>2, <2>3, <2>4, <2>5, <2>6, <2>7, <2>8 DEF SehAt
  <2> QED  BY <1>4, <2>2, <2>9
<1>10. ASSUME SehStill, SehAt(tr)' PROVE SehInv'
  BY <1>3, <1>4, <1>10, SehStillStack
<1>11. CASE SehGiveUp
  <2>1. SehStill /\ sehFault' = sehFault /\ SehEnd("unhandled")
        /\ (SehLookup(sehCtx.rip) = {} \/ sehWalked = SehMaxWalk)
    BY <1>11 DEF SehGiveUp, SehStill
  <2>2. SehAt(tr)'
    BY <1>1, <1>3, <2>1, SehEndFollows
  <2> QED  BY <1>10, <2>1, <2>2
<1>12. CASE SehWalk
  <2>1. SehStill /\ sehFault' = sehFault /\ sehOutcome = "none"
    BY <1>12 DEF SehWalk, SehStill, SehSearching
  <2>2. PICK n \in SehLookup(sehCtx.rip) : SehOn(SehResolve(n))
    BY <1>12 DEF SehWalk
  <2>3. SehAt(tr)'
    BY <1>1, <1>3, <2>1, <2>2, SehOnFollows
  <2> QED  BY <1>10, <2>1, <2>3
<1>13. CASE SehConsult
  <2>1. SehStill /\ sehFault' = sehFault /\ sehOutcome = "none"
    BY <1>13 DEF SehConsult, SehStill, SehSearching
  <2>2. PICK n \in SehLookup(sehCtx.rip), v \in SehVerdicts : SehConsulted(n, v)
    BY <1>13, SehConsults
  <2>3. CASE SehOn(SehResolve(n))
    <3>1. SehAt(tr)'
      BY <1>1, <1>3, <2>1, <2>3, SehOnFollows
    <3> QED  BY <1>10, <2>1, <3>1
  <2>4. CASE v \in {"other", "execute", "fault"} /\ SehEnd("unhandled")
    <3>1. sehAsked' # <<>> /\ Last(sehAsked').verdict \in {"other", "execute", "fault"}
      <4> DEFINE entry == [frame |-> sehWalked, verdict |-> v]
      <4>1. sehAsked' = Append(sehAsked, entry)
        BY <2>2 DEF SehConsulted
      <4>2. entry.verdict = v
        OBVIOUS
      <4>3. sehAsked \in Seq([frame : Nat, verdict : SehVerdicts])
            /\ entry \in [frame : Nat, verdict : SehVerdicts]
        <5>1. SehMaxWalk \in Nat /\ sehWalked \in 0..SehMaxWalk
          BY <1>1, SehTable DEF SehTypeOK
        <5> QED  BY <1>1, <5>1 DEF SehTypeOK
      <4> HIDE DEF entry
      <4>4. Len(sehAsked') = Len(sehAsked) + 1 /\ sehAsked'[Len(sehAsked) + 1] = entry
            /\ Len(sehAsked) \in Nat
        BY <4>1, <4>3, Appended, LenProperties
      <4>5. sehAsked' # <<>> /\ Last(sehAsked') = entry
        BY <4>4 DEF Last
      <4> QED  BY <2>4, <4>2, <4>5
    <3>2. SehAt(tr)'
      BY <1>1, <1>3, <2>1, <2>4, <3>1, SehEndFollows
    <3> QED  BY <1>10, <2>1, <3>2
  <2>5. ASSUME NEW o \in {"finally", "resumed", "handled"}, SehEnd(o) PROVE SehInv'
    <3>1. SehAt(tr)'
      BY <1>1, <1>3, <2>1, <2>5, SehEndFollows
    <3> QED  BY <1>10, <2>1, <3>1
  <2> QED  BY <2>2, <2>3, <2>4, <2>5 DEF SehConsulted
<1>14. CASE UNCHANGED sehVars
  <2>1. SehStill
    BY <1>14 DEF sehVars, SehStill
  <2>2. SehAt(tr)'
    <3>1. \A k : SehSound(k)' = SehSound(k)
      BY <2>1, SehStillStack
    <3> QED  BY <1>3, <1>14, <3>1 DEF sehVars, SehAt
  <2> QED  BY <1>10, <2>1, <2>2
<1> QED
  BY <1>6, <1>7, <1>8, <1>9, <1>11, <1>12, <1>13, <1>14 DEF SehNext

LEMMA SehInvFollows == SehInv => SehSearchFollowsCalls
<1> SUFFICES ASSUME SehInv, sehFault = "opcode" PROVE SehSearchFollowsCalls
  BY DEF SehSearchFollowsCalls
<1>1. SehTypeOK /\ SehAskedInv
  BY DEF SehInv
<1>2. PICK tr : SehAt(tr)
  BY DEF SehInv
<1>3. \A j \in DOMAIN sehAsked : \A k \in 1..j - 1 : sehAsked[k].frame < sehAsked[j].frame
  BY <1>1 DEF SehAskedInv
<1>4. PICK last, w : last = Len(sehCalls) /\ w = sehWalked
  OBVIOUS
<1>5. w < last /\ SehSound(w) => sehCtx.rip = SehFrame(w).rip
  BY <1>2, <1>4 DEF SehAt, SehFrame
<1>6. w = last /\ SehSound(w - 1) => sehCtx.rip = SehMarker
  BY <1>2, <1>4 DEF SehAt
<1>7. sehOutcome = "unhandled" /\ SehSound(last - 1) =>
         \/ w \in {last, SehMaxWalk}
         \/ sehAsked # <<>> /\ Last(sehAsked).verdict \in {"other", "execute", "fault"}
  BY <1>2, <1>4 DEF SehAt
<1> QED  BY <1>3, <1>4, <1>5, <1>6, <1>7 DEF SehSearchFollowsCalls

-----------------------------------------------------------------------------
LEMMA SehInvariant == SehSpec => []SehInv
BY SehInvInit, SehInvNext, PTL DEF SehSpec

\* The stack, the calls that built it, the context a search is at and the verdicts it
\* has got have their types (SehInit, SehNext): above all, unwinding never leaves the
\* search with a context that is not one.
THEOREM SehTypeCorrect == SehSpec => []SehTypeOK
<1>1. SehInv => SehTypeOK
  BY DEF SehInv
<1> QED  BY <1>1, SehInvariant, PTL

\* The search for a handler (tryDispatchException) visits the calls that led to the
\* fault, innermost first and none skipped, and asks filters from the inside out,
\* whatever the function table, the prologues, the depth of calls and the frame limit.
THEOREM SearchFollows == SehSpec => []SehSearchFollowsCalls
BY SehInvariant, SehInvFollows, PTL

-----------------------------------------------------------------------------
(***************************************************************************)
(* What an instruction that faults leaves (CpuMem).                         *)
(***************************************************************************)
LEMMA CpuMemConstants ==
  /\ CpuMemCells \in Nat \ {0} /\ 0 \in 0..(CpuMemCells - 1)
  /\ \A a \in Int : CpuMemAt(a) \in 0..(CpuMemCells - 1) /\ CpuMemHas(CpuMemPages, a)
<1>1. CpuMemCells \in Nat \ {0} /\ CpuMemPage \in Nat \ {0} /\ CpuMemPage <= CpuMemCells
  BY CpuMemAssumption
<1>2. ASSUME NEW a \in Int
      PROVE  CpuMemAt(a) \in 0..(CpuMemCells - 1)
  BY <1>1 DEF CpuMemAt
<1>3. ASSUME NEW x \in Nat, NEW y \in Nat, x <= y
      PROVE  x \div CpuMemPage \in 0..(y \div CpuMemPage)
  <2> DEFINE p == CpuMemPage
             q == x \div p
             r == y \div p
  <2>1. q \in Int /\ r \in Int /\ p \in Nat \ {0}
    BY <1>1
  <2>2. p * q <= x /\ x < p * q + p /\ p * r <= y /\ y < p * r + p
    BY <1>1
  <2> HIDE DEF q, r, p
  <2>3. q <= r
    <3> SUFFICES ASSUME r + 1 <= q
                 PROVE  FALSE
      BY <2>1
    <3>1. p * (q - (r + 1)) >= 0
      BY <2>1
    <3>2. p * (q - (r + 1)) = p * q - (p * r + p)
      BY <2>1
    <3>3. p * q \in Int /\ p * r \in Int
      BY <2>1
    <3> QED  BY <1>3, <2>1, <2>2, <3>1, <3>2, <3>3
  <2>4. q >= 0
    <3> SUFFICES ASSUME q + 1 <= 0
                 PROVE  FALSE
      BY <2>1
    <3>1. p * (0 - (q + 1)) >= 0
      BY <2>1
    <3>2. p * (0 - (q + 1)) = 0 - (p * q + p)
      BY <2>1
    <3>3. p * q \in Int
      BY <2>1
    <3> QED  BY <1>3, <2>1, <2>2, <3>1, <3>2, <3>3
  <2> QED  BY <2>1, <2>3, <2>4 DEF q, r, p
<1>4. ASSUME NEW a \in Int
      PROVE  CpuMemHas(CpuMemPages, a)
  <2>1. CpuMemAt(a) \in Nat /\ CpuMemCells - 1 \in Nat /\ CpuMemAt(a) <= CpuMemCells - 1
    BY <1>1, <1>2
  <2> QED  BY <1>3, <2>1 DEF CpuMemHas, CpuMemPageOf, CpuMemPages
<1> QED  BY <1>1, <1>2, <1>4

\* What loads, stores and the fields of a state are.
LEMMA CpuMemFields ==
  ASSUME NEW s \in CpuMemState
  PROVE  /\ s.rsp \in 0..(CpuMemCells - 1) /\ s.rbp \in 0..(CpuMemCells - 1)
         /\ s.acc \in 0..(CpuMemCells - 1) /\ s.rip \in 0..(CpuMemCells - 1)
         /\ s.rsi \in Int /\ s.rdi \in Int /\ s.rcx \in Nat
         /\ s.cf \in BOOLEAN /\ s.zf \in BOOLEAN /\ s.df \in BOOLEAN
         /\ s.locked \subseteq CpuMemPages
         /\ s.mem \in [0..(CpuMemCells - 1) -> 0..(CpuMemCells - 1)]
         /\ 0..(CpuMemCells - 1) \subseteq Int
         /\ \A a \in Int : CpuMemLoad(s, a) \in 0..(CpuMemCells - 1)
         /\ CpuMemFree(s) \in CpuMemState /\ CpuMemFree(s).locked = {}
<1>1. \A a \in Int : CpuMemLoad(s, a) \in 0..(CpuMemCells - 1)
  BY CpuMemConstants DEF CpuMemLoad, CpuMemState
<1> QED  BY <1>1 DEF CpuMemState, CpuMemFree

LEMMA CpuMemStores ==
  ASSUME NEW s \in CpuMemState, NEW a \in Int, NEW v \in 0..(CpuMemCells - 1)
  PROVE  /\ CpuMemStore(s, a, v) \in CpuMemState
         /\ CpuMemStore(s, a, v).locked = s.locked /\ CpuMemStore(s, a, v).rcx = s.rcx
         /\ CpuMemStore(CpuMemFree(s), a, v) = CpuMemFree(CpuMemStore(s, a, v))
<1>1. CpuMemAt(a) \in 0..(CpuMemCells - 1)
  BY CpuMemConstants
<1>2. CpuMemStore(s, a, v) \in CpuMemState
  BY <1>1 DEF CpuMemStore, CpuMemState
<1>3. CpuMemStore(CpuMemFree(s), a, v) = CpuMemFree(CpuMemStore(s, a, v))
  BY DEF CpuMemStore, CpuMemState, CpuMemFree
<1> QED  BY <1>2, <1>3 DEF CpuMemStore, CpuMemState

\* What an instruction has done is typed, and no page was unlocked on the way.
CpuMemTyped(s, x) ==
  \E u \in CpuMemState : u.locked = s.locked /\ x \in {CpuMemOk(u), CpuMemFault(u)}

\* What an instruction has done of s is what w does of it without a fault or, but for what it
\* changes first, nothing.
CpuMemAgrees(s, op, x, w) ==
  IF x.ok THEN w = CpuMemOk(CpuMemFree(x.s)) ELSE CpuMemKeeps(s, op, x.s)

LEMMA CpuMemAgreesOk ==
  ASSUME NEW s, NEW op, NEW x, NEW u, x = CpuMemOk(u), NEW w, w = CpuMemOk(CpuMemFree(u))
  PROVE  CpuMemAgrees(s, op, x, w)
BY DEF CpuMemAgrees, CpuMemOk

LEMMA CpuMemAgreesFault ==
  ASSUME NEW s, NEW op, NEW x, NEW u, x = CpuMemFault(u), CpuMemKeeps(s, op, u), NEW w
  PROVE  CpuMemAgrees(s, op, x, w)
BY DEF CpuMemAgrees, CpuMemFault

\* Who changes nothing, or only what comes first.
LEMMA CpuMemKept ==
  ASSUME NEW s \in CpuMemState, NEW op
  PROVE  CpuMemKeeps(s, op, s)
BY DEF CpuMemKeeps, CpuMemState

LEMMA CpuMemKeptRsp ==
  ASSUME NEW s \in CpuMemState, NEW op \in {"push", "call", "pop mem", "leave"}, NEW a,
         NEW t, t = [s EXCEPT !.rsp = a]
  PROVE  CpuMemKeeps(s, op, t)
BY DEF CpuMemKeeps, CpuMemState

LEMMA CpuMemKeptFlags ==
  ASSUME NEW s \in CpuMemState, NEW op, NEW c, NEW z, NEW t,
         \/ op = "adc" /\ t = [s EXCEPT !.cf = c, !.zf = z]
         \/ op = "cmpxchg" /\ t = [s EXCEPT !.zf = z]
  PROVE  CpuMemKeeps(s, op, t)
BY DEF CpuMemKeeps, CpuMemState

LEMMA CpuMemStackTyped ==
  ASSUME NEW s \in CpuMemState, NEW op \in CpuMemStackOps, NEW P
  PROVE  CpuMemTyped(s, CpuMemDoStack(s, op, P))
<1> DEFINE n == CpuMemCells - 1
           v == CpuMemLoad(s, s.rsp)
           t == CpuMemPopped(s)
           left == [s EXCEPT !.rsp = s.rbp]
<1>1. /\ s.rsp \in Int /\ s.rbp \in Int /\ s.rdi \in Int /\ v \in 0..n
      /\ s.acc \in 0..n /\ s.rip \in 0..n /\ s.rbp \in 0..n
  BY CpuMemFields
<1>2. t \in CpuMemState /\ t.locked = s.locked
  <2>1. CpuMemAt(s.rsp + 1) \in 0..n
    BY <1>1, CpuMemConstants
  <2> QED  BY <2>1 DEF CpuMemPopped, CpuMemState
<1>3. left \in CpuMemState /\ left.locked = s.locked
  BY <1>1 DEF CpuMemState
<1>4. ASSUME NEW a \in 0..n
      PROVE  CpuMemTyped(s, CpuMemPush(s, a, P))
  <2> DEFINE u == [s EXCEPT !.rsp = CpuMemAt(s.rsp - 1)]
  <2>1. CpuMemAt(s.rsp - 1) \in 0..n
    BY <1>1, CpuMemConstants
  <2>2. u \in CpuMemState /\ u.locked = s.locked
    BY <2>1 DEF CpuMemState
  <2>3. u.rsp \in Int
    BY <2>2, CpuMemFields
  <2>4. CpuMemStore(u, u.rsp, a) \in CpuMemState /\ CpuMemStore(u, u.rsp, a).locked = s.locked
    BY <2>2, <2>3, CpuMemStores
  <2>5. CpuMemPush(s, a, P) \in {CpuMemOk(CpuMemStore(u, u.rsp, a)), CpuMemFault(u)}
    BY DEF CpuMemPush
  <2> HIDE DEF u
  <2> QED  BY <2>2, <2>4, <2>5 DEF CpuMemTyped
<1>5. CASE op \in {"push", "call"}
  BY <1>1, <1>4, <1>5 DEF CpuMemDoStack
<1>6. CASE op \in {"pop", "ret"}
  <2>1. [t EXCEPT !.acc = v] \in CpuMemState /\ [t EXCEPT !.rip = v] \in CpuMemState
    BY <1>1, <1>2 DEF CpuMemState
  <2>2. [t EXCEPT !.acc = v].locked = s.locked /\ [t EXCEPT !.rip = v].locked = s.locked
    BY <1>2 DEF CpuMemState
  <2>3. CpuMemDoStack(s, op, P) \in
          {CpuMemOk([t EXCEPT !.acc = v]), CpuMemOk([t EXCEPT !.rip = v]), CpuMemFault(s)}
    BY <1>6 DEF CpuMemDoStack, CpuMemPop
  <2> QED  BY <2>1, <2>2, <2>3 DEF CpuMemTyped
<1>7. CASE op = "leave"
  <2> DEFINE u == [CpuMemPopped(left) EXCEPT !.rbp = CpuMemLoad(left, left.rsp)]
  <2>1. left.rsp \in Int
    BY <1>3, CpuMemFields
  <2>2. CpuMemAt(left.rsp + 1) \in 0..n /\ CpuMemLoad(left, left.rsp) \in 0..n
    BY <1>3, <2>1, CpuMemFields, CpuMemConstants
  <2>3. u \in CpuMemState /\ u.locked = s.locked
    <3> HIDE DEF left
    <3> QED  BY <1>3, <2>2 DEF CpuMemPopped, CpuMemState
  <2>4. CpuMemDoStack(s, op, P) \in {CpuMemOk(u), CpuMemFault(left)}
    BY <1>7 DEF CpuMemDoStack, CpuMemPop
  <2> HIDE DEF left, u
  <2> QED  BY <1>3, <2>3, <2>4 DEF CpuMemTyped
<1>8. CASE op = "pop mem"
  <2> DEFINE u == CpuMemStore(t, s.rdi, v)
  <2>1. u \in CpuMemState /\ u.locked = s.locked
    <3> HIDE DEF t, v
    <3> QED  BY <1>1, <1>2, CpuMemStores
  <2>2. CpuMemDoStack(s, op, P) \in {CpuMemOk(u), CpuMemFault(t), CpuMemFault(s)}
    BY <1>8 DEF CpuMemDoStack, CpuMemPop
  <2> HIDE DEF u, t
  <2> QED  BY <1>2, <2>1, <2>2 DEF CpuMemTyped
<1> QED  BY <1>5, <1>6, <1>7, <1>8 DEF CpuMemStackOps

\* A push: where it faults it has moved rsp.
LEMMA CpuMemPushAgrees ==
  ASSUME NEW s \in CpuMemState, NEW op \in {"push", "call"}, NEW P,
         NEW v \in 0..(CpuMemCells - 1), NEW x, x = CpuMemPush(s, v, P)
  PROVE  CpuMemAgrees(s, op, x, CpuMemPush(CpuMemFree(s), v, CpuMemPages))
<1> DEFINE f == CpuMemFree(s)
<1>1. PICK a : a = CpuMemAt(s.rsp - 1)
  OBVIOUS
<1>2. a \in 0..(CpuMemCells - 1) /\ a \in Int
  <2>1. s.rsp - 1 \in Int
    BY CpuMemFields
  <2> QED  BY <1>1, <2>1, CpuMemConstants
<1>3. PICK t : t = [s EXCEPT !.rsp = a]
  OBVIOUS
<1>4. t \in CpuMemState /\ t.rsp = a /\ [f EXCEPT !.rsp = a] = CpuMemFree(t)
  BY <1>2, <1>3 DEF CpuMemState, CpuMemFree
<1>5. CpuMemFree(t).rsp = a /\ CpuMemFree(t).locked = {} /\ f.rsp = s.rsp
  BY <1>4 DEF CpuMemFree, CpuMemState
<1>6. CpuMemTakes(CpuMemFree(t), CpuMemPages, a)
  BY <1>2, <1>5, CpuMemConstants DEF CpuMemTakes
<1>7. CpuMemPush(f, v, CpuMemPages) = CpuMemOk(CpuMemStore(CpuMemFree(t), a, v))
  <2> HIDE DEF f
  <2> QED  BY <1>1, <1>4, <1>5, <1>6 DEF CpuMemPush
<1>8. CpuMemPush(f, v, CpuMemPages) = CpuMemOk(CpuMemFree(CpuMemStore(t, a, v)))
  BY <1>2, <1>4, <1>7, CpuMemStores
<1>9. CASE CpuMemTakes(t, P, a)
  <2>1. x = CpuMemOk(CpuMemStore(t, a, v))
    BY <1>1, <1>3, <1>4, <1>9 DEF CpuMemPush
  <2> QED  BY <1>8, <2>1, CpuMemAgreesOk
<1>10. CASE ~CpuMemTakes(t, P, a)
  <2>1. x = CpuMemFault(t)
    BY <1>1, <1>3, <1>4, <1>10 DEF CpuMemPush
  <2>2. CpuMemKeeps(s, op, t)
    BY <1>3, CpuMemKeptRsp
  <2> QED  BY <2>1, <2>2, CpuMemAgreesFault
<1> QED  BY <1>9, <1>10

\* The stack: a leave has moved rsp to rbp where it faults, a pop to memory past the value.
LEMMA CpuMemStackAgrees ==
  ASSUME NEW s \in CpuMemState, NEW op \in CpuMemStackOps, NEW P,
         NEW x, x = CpuMemDoStack(s, op, P)
  PROVE  CpuMemAgrees(s, op, x, CpuMemDoStack(CpuMemFree(s), op, CpuMemPages))
<1> DEFINE f == CpuMemFree(s)
           left == [s EXCEPT !.rsp = s.rbp]
<1>1. s.rsp \in Int /\ s.rbp \in Int
  BY CpuMemFields
<1>2. CpuMemHas(CpuMemPages, s.rsp) /\ CpuMemHas(CpuMemPages, s.rbp)
  BY <1>1, CpuMemConstants
<1>3. f.rsp = s.rsp /\ f.rbp = s.rbp /\ f.mem = s.mem
  BY DEF CpuMemFree, CpuMemState
<1>4. CASE op \in {"pop", "ret"}
  <2>1. CASE ~CpuMemHas(P, s.rsp)
    <3>1. x = CpuMemFault(s)
      BY <1>4, <2>1 DEF CpuMemDoStack, CpuMemPop
    <3>2. CpuMemKeeps(s, op, s)
      BY CpuMemKept
    <3> QED  BY <3>1, <3>2, CpuMemAgreesFault
  <2>2. CASE CpuMemHas(P, s.rsp)
    <3> DEFINE v == CpuMemLoad(s, s.rsp)
               t == CpuMemPopped(s)
    <3>1. CpuMemLoad(f, f.rsp) = v /\ CpuMemPopped(f) = CpuMemFree(t)
      BY <1>3 DEF CpuMemLoad, CpuMemPopped, CpuMemFree, CpuMemState
    <3>2. /\ [CpuMemFree(t) EXCEPT !.acc = v] = CpuMemFree([t EXCEPT !.acc = v])
          /\ [CpuMemFree(t) EXCEPT !.rip = v] = CpuMemFree([t EXCEPT !.rip = v])
      BY DEF CpuMemFree, CpuMemPopped, CpuMemState
    <3>3. CASE op = "pop"
      <4>1. x = CpuMemOk([t EXCEPT !.acc = v])
        BY <2>2, <3>3 DEF CpuMemDoStack, CpuMemPop
      <4>2. CpuMemDoStack(f, op, CpuMemPages) = CpuMemOk([CpuMemPopped(f) EXCEPT !.acc = v])
        BY <1>2, <1>3, <3>1, <3>3 DEF CpuMemDoStack, CpuMemPop
      <4>3. CpuMemDoStack(f, op, CpuMemPages) = CpuMemOk(CpuMemFree([t EXCEPT !.acc = v]))
        BY <3>1, <3>2, <4>2
      <4> QED  BY <4>1, <4>3, CpuMemAgreesOk
    <3>4. CASE op = "ret"
      <4>1. x = CpuMemOk([t EXCEPT !.rip = v])
        BY <2>2, <3>4 DEF CpuMemDoStack, CpuMemPop
      <4>2. CpuMemDoStack(f, op, CpuMemPages) = CpuMemOk([CpuMemPopped(f) EXCEPT !.rip = v])
        BY <1>2, <1>3, <3>1, <3>4 DEF CpuMemDoStack, CpuMemPop
      <4>3. CpuMemDoStack(f, op, CpuMemPages) = CpuMemOk(CpuMemFree([t EXCEPT !.rip = v]))
        BY <3>1, <3>2, <4>2
      <4> QED  BY <4>1, <4>3, CpuMemAgreesOk
    <3> QED  BY <1>4, <3>3, <3>4
  <2> QED  BY <2>1, <2>2
<1>5. CASE op = "leave"
  <2> DEFINE g == [f EXCEPT !.rsp = f.rbp]
             u(y) == [CpuMemPopped(y) EXCEPT !.rbp = CpuMemLoad(y, y.rsp)]
  <2>1. g = CpuMemFree(left) /\ left.rsp = s.rbp /\ g.rsp = s.rbp
    BY DEF CpuMemFree, CpuMemState
  <2>2. CpuMemDoStack(f, op, CpuMemPages) = CpuMemOk(u(g))
    BY <1>2, <1>5, <2>1 DEF CpuMemDoStack, CpuMemPop
  <2>3. CASE CpuMemHas(P, s.rbp)
    <3>1. x = CpuMemOk(u(left))
      BY <1>5, <2>1, <2>3 DEF CpuMemDoStack, CpuMemPop
    <3>2. u(CpuMemFree(left)) = CpuMemFree(u(left))
      BY DEF CpuMemFree, CpuMemPopped, CpuMemLoad, CpuMemState
    <3> HIDE DEF f, g, left, u
    <3> QED  BY <2>1, <2>2, <3>1, <3>2 DEF CpuMemAgrees, CpuMemOk, f
  <2>4. CASE ~CpuMemHas(P, s.rbp)
    <3>1. x = CpuMemFault(left)
      BY <1>5, <2>1, <2>4 DEF CpuMemDoStack, CpuMemPop
    <3>2. CpuMemKeeps(s, op, left)
      BY <1>5, CpuMemKeptRsp
    <3> HIDE DEF left
    <3> QED  BY <3>1, <3>2, CpuMemAgreesFault
  <2> QED  BY <2>3, <2>4
<1>6. CASE op \in {"push", "call"}
  <2>1. PICK v : v = (IF op = "push" THEN s.acc ELSE s.rip)
    OBVIOUS
  <2>2. v \in 0..(CpuMemCells - 1)
    BY <2>1, CpuMemFields
  <2>3. f.acc = s.acc /\ f.rip = s.rip
    BY DEF CpuMemFree, CpuMemState
  <2>4. /\ x = CpuMemPush(s, v, P)
        /\ CpuMemDoStack(f, op, CpuMemPages) = CpuMemPush(f, v, CpuMemPages)
    <3> HIDE DEF f
    <3> QED  BY <1>6, <2>1, <2>3 DEF CpuMemDoStack
  <2> QED  BY <1>6, <2>2, <2>4, CpuMemPushAgrees
<1>7. CASE op = "pop mem"
  <2> DEFINE v == CpuMemLoad(s, s.rsp)
  <2>1. PICK t : t = CpuMemPopped(s)
    OBVIOUS
  <2>2. s.rdi \in Int /\ v \in 0..(CpuMemCells - 1)
    BY <1>1, CpuMemFields
  <2>3. t \in CpuMemState /\ t = [s EXCEPT !.rsp = CpuMemAt(s.rsp + 1)]
    <3>1. CpuMemAt(s.rsp + 1) \in 0..(CpuMemCells - 1)
      BY <1>1, CpuMemConstants
    <3> QED  BY <2>1, <3>1 DEF CpuMemPopped, CpuMemState
  <2>4. CpuMemLoad(f, f.rsp) = v /\ CpuMemPopped(f) = CpuMemFree(t) /\ f.rdi = s.rdi
        /\ f.locked = {}
    BY <1>3, <2>1 DEF CpuMemLoad, CpuMemPopped, CpuMemFree, CpuMemState
  <2>5. CpuMemTakes(f, CpuMemPages, s.rdi)
    BY <2>2, <2>4, CpuMemConstants DEF CpuMemTakes
  <2>6. CpuMemDoStack(f, op, CpuMemPages) = CpuMemOk(CpuMemStore(CpuMemFree(t), s.rdi, v))
    <3> HIDE DEF f, v
    <3> QED  BY <1>2, <1>3, <1>7, <2>4, <2>5 DEF CpuMemDoStack, CpuMemPop
  <2>7. CpuMemDoStack(f, op, CpuMemPages) = CpuMemOk(CpuMemFree(CpuMemStore(t, s.rdi, v)))
    <3> HIDE DEF f, v
    <3> QED  BY <2>2, <2>3, <2>6, CpuMemStores
  <2>8. x \in {CpuMemOk(CpuMemStore(t, s.rdi, v)), CpuMemFault(t), CpuMemFault(s)}
    BY <1>7, <2>1 DEF CpuMemDoStack, CpuMemPop
  <2>9. CpuMemKeeps(s, op, t) /\ CpuMemKeeps(s, op, s)
    BY <1>7, <2>3, CpuMemKept, CpuMemKeptRsp
  <2>10. CASE x = CpuMemOk(CpuMemStore(t, s.rdi, v))
    <3>1. PICK u : u = CpuMemStore(t, s.rdi, v)
      OBVIOUS
    <3>2. x = CpuMemOk(u) /\ CpuMemDoStack(f, op, CpuMemPages) = CpuMemOk(CpuMemFree(u))
      BY <2>7, <2>10, <3>1
    <3> QED  BY <3>2, CpuMemAgreesOk
  <2>11. CASE x \in {CpuMemFault(t), CpuMemFault(s)}
    <3> HIDE DEF f, v
    <3> QED  BY <2>9, <2>11, CpuMemAgreesFault
  <2> QED  BY <2>8, <2>10, <2>11
<1> QED  BY <1>4, <1>5, <1>6, <1>7 DEF CpuMemStackOps

LEMMA CpuMemBooleans ==
  ASSUME NEW m \in Int, NEW n \in Int
  PROVE  (m >= n) \in BOOLEAN /\ (m < n) \in BOOLEAN /\ (m = n) \in BOOLEAN
OBVIOUS

\* Setting the two flags.
LEMMA CpuMemFlags ==
  ASSUME NEW s \in CpuMemState, NEW c \in BOOLEAN, NEW z \in BOOLEAN
  PROVE  /\ [s EXCEPT !.cf = c, !.zf = z] \in CpuMemState
         /\ [s EXCEPT !.cf = c, !.zf = z].locked = s.locked
         /\ [s EXCEPT !.cf = c, !.zf = z].rcx = s.rcx
         /\ [s EXCEPT !.zf = z, !.cf = c] = [s EXCEPT !.cf = c, !.zf = z]
         /\ [CpuMemFree(s) EXCEPT !.zf = z, !.cf = c] = CpuMemFree([s EXCEPT !.cf = c, !.zf = z])
BY DEF CpuMemState, CpuMemFree

LEMMA CpuMemModifyTyped ==
  ASSUME NEW s \in CpuMemState, NEW op \in CpuMemModifyOps, NEW P
  PROVE  CpuMemTyped(s, CpuMemDoModify(s, op, P))
<1> DEFINE n == CpuMemCells - 1
           old == CpuMemLoad(s, s.rdi)
           sum == old + s.acc + (IF s.cf THEN 1 ELSE 0)
<1>1. s.rdi \in Int /\ old \in 0..n /\ s.acc \in 0..n /\ s.rcx \in Int
  BY CpuMemFields, SMTT(30)
<1>2. sum \in Int /\ sum % CpuMemCells \in 0..n /\ s.rcx % CpuMemCells \in 0..n
  <2>1. sum \in Int
    BY <1>1, CpuMemConstants
  <2>2. \A a \in Int : a % CpuMemCells \in 0..n
    BY CpuMemConstants DEF CpuMemAt
  <2> HIDE DEF sum
  <2> QED  BY <1>1, <2>1, <2>2
<1>3. s.locked = s.locked /\ CpuMemFault(s) \in {CpuMemOk(s), CpuMemFault(s)}
  OBVIOUS
<1>4. CASE ~CpuMemHas(P, s.rdi)
  BY <1>4 DEF CpuMemDoModify, CpuMemTyped
<1>5. ASSUME NEW t \in CpuMemState, t.locked = s.locked, NEW v \in 0..n, NEW x,
             x \in {CpuMemOk(CpuMemStore(t, s.rdi, v)), CpuMemFault(t)}
      PROVE  CpuMemTyped(s, x)
  BY <1>1, <1>5, CpuMemStores DEF CpuMemTyped
<1>6. CASE CpuMemHas(P, s.rdi) /\ op = "adc"
  <2> DEFINE t == [s EXCEPT !.cf = sum >= CpuMemCells, !.zf = sum % CpuMemCells = 0]
  <2>1. t \in CpuMemState /\ t.locked = s.locked
    <3>1. PICK c : c = (sum >= CpuMemCells)
      OBVIOUS
    <3>2. PICK z : z = (sum % CpuMemCells = 0)
      OBVIOUS
    <3>3. c \in BOOLEAN /\ z \in BOOLEAN
      <4>1. CpuMemCells \in Int /\ sum % CpuMemCells \in Int /\ 0 \in Int
        BY <1>2, CpuMemConstants
      <4> HIDE DEF sum
      <4> QED  BY <1>2, <3>1, <3>2, <4>1, CpuMemBooleans
    <3>4. t = [s EXCEPT !.cf = c, !.zf = z]
      BY <3>1, <3>2
    <3> HIDE DEF t
    <3> QED  BY <3>3, <3>4, CpuMemFlags
  <2>2. CpuMemDoModify(s, op, P) \in
          {CpuMemOk(CpuMemStore(t, s.rdi, sum % CpuMemCells)), CpuMemFault(t)}
    BY <1>6 DEF CpuMemDoModify
  <2> HIDE DEF t, sum
  <2> QED  BY <1>2, <1>5, <2>1, <2>2
<1>7. CASE CpuMemHas(P, s.rdi) /\ op = "xchg"
  <2> DEFINE u == CpuMemStore(s, s.rdi, s.acc)
             t == [u EXCEPT !.acc = old]
  <2>1. u \in CpuMemState /\ u.locked = s.locked
    BY <1>1, CpuMemStores
  <2>2. t \in CpuMemState /\ t.locked = s.locked
    <3> HIDE DEF u, old
    <3> QED  BY <1>1, <2>1 DEF CpuMemState
  <2>3. CpuMemDoModify(s, op, P) \in {CpuMemOk(t), CpuMemFault(s)}
    <3> HIDE DEF u
    <3> QED  BY <1>7 DEF CpuMemDoModify, CpuMemOk, CpuMemFault, u
  <2> HIDE DEF t
  <2> QED  BY <2>2, <2>3 DEF CpuMemTyped
<1>8. CASE CpuMemHas(P, s.rdi) /\ op = "cmpxchg"
  <2> DEFINE t == [s EXCEPT !.zf = TRUE]
             u == [s EXCEPT !.zf = FALSE, !.acc = old]
  <2>1. t \in CpuMemState /\ t.locked = s.locked /\ u \in CpuMemState /\ u.locked = s.locked
    <3> HIDE DEF old
    <3> QED  BY <1>1 DEF CpuMemState
  <2>2. CASE old = s.acc
    <3>1. CpuMemDoModify(s, op, P) \in
            {CpuMemOk(CpuMemStore(t, s.rdi, s.rcx % CpuMemCells)), CpuMemFault(t)}
      BY <1>8, <2>2 DEF CpuMemDoModify
    <3> HIDE DEF t
    <3> QED  BY <1>2, <1>5, <2>1, <3>1
  <2>3. CASE old # s.acc
    <3>1. CpuMemDoModify(s, op, P) = CpuMemOk(u)
      BY <1>8, <2>3 DEF CpuMemDoModify
    <3> HIDE DEF u
    <3> QED  BY <2>1, <3>1 DEF CpuMemTyped
  <2> QED  BY <2>2, <2>3
<1> QED  BY <1>4, <1>6, <1>7, <1>8 DEF CpuMemModifyOps

\* An operand that is changed in place: adc and cmpxchg have set their flags where they fault.
LEMMA CpuMemModifyAgrees ==
  ASSUME NEW s \in CpuMemState, NEW op \in CpuMemModifyOps, NEW P,
         NEW x, x = CpuMemDoModify(s, op, P)
  PROVE  CpuMemAgrees(s, op, x, CpuMemDoModify(CpuMemFree(s), op, CpuMemPages))
<1> DEFINE f == CpuMemFree(s)
           old == CpuMemLoad(s, s.rdi)
<1>1. s.rdi \in Int /\ s.acc \in 0..(CpuMemCells - 1) /\ old \in 0..(CpuMemCells - 1)
  BY CpuMemFields
<1>2. /\ f.rdi = s.rdi /\ f.acc = s.acc /\ f.rcx = s.rcx /\ CpuMemLoad(f, s.rdi) = old
      /\ f.locked = {}
  BY DEF CpuMemFree, CpuMemState, CpuMemLoad
<1>3. /\ CpuMemHas(CpuMemPages, s.rdi)
      /\ \A t : t.locked = {} => CpuMemTakes(t, CpuMemPages, s.rdi)
  BY <1>1, CpuMemConstants DEF CpuMemTakes
<1>4. CASE ~CpuMemHas(P, s.rdi)
  <2>1. x = CpuMemFault(s)
    BY <1>4 DEF CpuMemDoModify
  <2>2. CpuMemKeeps(s, op, s)
    BY CpuMemKept
  <2> QED  BY <2>1, <2>2, CpuMemAgreesFault
<1>5. CASE CpuMemHas(P, s.rdi) /\ op = "xchg"
  <2> DEFINE t == [CpuMemStore(s, s.rdi, s.acc) EXCEPT !.acc = old]
  <2>1. CpuMemDoModify(f, op, CpuMemPages) = CpuMemOk(CpuMemFree(t))
    <3>1. CpuMemDoModify(f, op, CpuMemPages)
            = CpuMemOk([CpuMemStore(f, s.rdi, s.acc) EXCEPT !.acc = old])
      <4> HIDE DEF f, old
      <4> QED  BY <1>2, <1>3, <1>5 DEF CpuMemDoModify, CpuMemOk
    <3>2. CpuMemStore(f, s.rdi, s.acc) = CpuMemFree(CpuMemStore(s, s.rdi, s.acc))
      BY <1>1, CpuMemStores
    <3>3. CpuMemStore(s, s.rdi, s.acc) \in CpuMemState
      BY <1>1, CpuMemStores
    <3>4. ASSUME NEW u \in CpuMemState
          PROVE  [CpuMemFree(u) EXCEPT !.acc = old] = CpuMemFree([u EXCEPT !.acc = old])
      BY DEF CpuMemFree, CpuMemState
    <3> QED  BY <3>1, <3>2, <3>3, <3>4
  <2>2. CASE CpuMemTakes(s, P, s.rdi)
    <3>1. x = CpuMemOk(t)
      BY <1>5, <2>2 DEF CpuMemDoModify, CpuMemOk
    <3> QED  BY <2>1, <3>1, CpuMemAgreesOk
  <2>3. CASE ~CpuMemTakes(s, P, s.rdi)
    <3>1. x = CpuMemFault(s)
      BY <1>5, <2>3 DEF CpuMemDoModify, CpuMemFault
    <3>2. CpuMemKeeps(s, op, s)
      BY CpuMemKept
    <3> QED  BY <3>1, <3>2, CpuMemAgreesFault
  <2> QED  BY <2>2, <2>3
<1>6. CASE CpuMemHas(P, s.rdi) /\ op = "cmpxchg" /\ old = s.acc
  <2> DEFINE t == [s EXCEPT !.zf = TRUE]
             v == s.rcx % CpuMemCells
             u == CpuMemStore(t, s.rdi, v)
  <2>1. t \in CpuMemState /\ CpuMemFree(t) = [f EXCEPT !.zf = TRUE]
    BY DEF CpuMemState, CpuMemFree
  <2>2. v \in 0..(CpuMemCells - 1)
    <3>1. s.rcx \in Int
      BY CpuMemFields
    <3> QED  BY <3>1, CpuMemConstants DEF CpuMemAt
  <2>3. CpuMemStore(CpuMemFree(t), s.rdi, v) = CpuMemFree(u)
    <3>1. PICK y \in CpuMemState : y = t
      BY <2>1
    <3>2. CpuMemStore(CpuMemFree(y), s.rdi, v) = CpuMemFree(CpuMemStore(y, s.rdi, v))
      <4> HIDE DEF t, v
      <4> QED  BY <1>1, <2>2, CpuMemStores
    <3> QED  BY <3>1, <3>2
  <2>4. CpuMemDoModify(f, op, CpuMemPages) = CpuMemOk(CpuMemFree(u))
    <3>1. CpuMemTakes(f, CpuMemPages, s.rdi)
      BY <1>2, <1>3
    <3>2. CpuMemDoModify(f, op, CpuMemPages)
            = CpuMemOk(CpuMemStore([f EXCEPT !.zf = TRUE], s.rdi, v))
      <4> HIDE DEF f, old
      <4> QED  BY <1>2, <1>3, <1>6, <3>1 DEF CpuMemDoModify
    <3> QED  BY <2>1, <2>3, <3>2
  <2>5. CASE CpuMemTakes(s, P, s.rdi)
    <3>1. x = CpuMemOk(u)
      BY <1>6, <2>5 DEF CpuMemDoModify
    <3> QED  BY <2>4, <3>1, CpuMemAgreesOk
  <2>6. CASE ~CpuMemTakes(s, P, s.rdi)
    <3>1. x = CpuMemFault(t)
      BY <1>6, <2>6 DEF CpuMemDoModify
    <3>2. CpuMemKeeps(s, op, t)
      BY <1>6, CpuMemKeptFlags
    <3> QED  BY <3>1, <3>2, CpuMemAgreesFault
  <2> QED  BY <2>5, <2>6
<1>7. CASE CpuMemHas(P, s.rdi) /\ op = "cmpxchg" /\ old # s.acc
  <2> DEFINE t == [s EXCEPT !.zf = FALSE, !.acc = old]
  <2>1. x = CpuMemOk(t)
    BY <1>7 DEF CpuMemDoModify
  <2>2. CpuMemDoModify(f, op, CpuMemPages) = CpuMemOk([f EXCEPT !.zf = FALSE, !.acc = old])
    <3> HIDE DEF f, old
    <3> QED  BY <1>2, <1>3, <1>7 DEF CpuMemDoModify
  <2>3. [f EXCEPT !.zf = FALSE, !.acc = old] = CpuMemFree(t)
    BY DEF CpuMemFree, CpuMemState
  <2> QED  BY <2>1, <2>2, <2>3, CpuMemAgreesOk
<1>8. CASE CpuMemHas(P, s.rdi) /\ op = "adc"
  <2>1. PICK sum : sum = old + s.acc + (IF s.cf THEN 1 ELSE 0)
    OBVIOUS
  <2>2. sum \in Int
    BY <1>1, <2>1, CpuMemConstants
  <2>3. PICK v \in 0..(CpuMemCells - 1) : v = sum % CpuMemCells
    BY <2>2, CpuMemConstants DEF CpuMemAt
  <2>4. PICK c : c = (sum >= CpuMemCells)
    OBVIOUS
  <2>5. PICK z : z = (sum % CpuMemCells = 0)
    OBVIOUS
  <2>6. c \in BOOLEAN /\ z \in BOOLEAN
    <3>1. CpuMemCells \in Int /\ sum % CpuMemCells \in Int /\ 0 \in Int
      BY <2>3, CpuMemConstants
    <3> QED  BY <2>2, <2>4, <2>5, <3>1, CpuMemBooleans
  <2>7. PICK t : t = [s EXCEPT !.cf = c, !.zf = z]
    OBVIOUS
  <2>8. t \in CpuMemState
    BY <2>6, <2>7, CpuMemFlags
  <2>9. [f EXCEPT !.cf = c, !.zf = z] = CpuMemFree(t) /\ f.cf = s.cf
    BY <2>6, <2>7 DEF CpuMemFree, CpuMemState
  <2>10. CpuMemTakes(f, CpuMemPages, s.rdi)
    BY <1>2, <1>3
  <2>11. CpuMemDoModify(f, op, CpuMemPages) = CpuMemOk(CpuMemStore(CpuMemFree(t), s.rdi, v))
    <3> HIDE DEF f, old
    <3> QED  BY <1>2, <1>3, <1>8, <2>1, <2>3, <2>4, <2>5, <2>9, <2>10 DEF CpuMemDoModify
  <2>12. CpuMemDoModify(f, op, CpuMemPages) = CpuMemOk(CpuMemFree(CpuMemStore(t, s.rdi, v)))
    <3> HIDE DEF f
    <3> QED  BY <1>1, <2>8, <2>11, CpuMemStores
  <2>13. x \in {CpuMemOk(CpuMemStore(t, s.rdi, v)), CpuMemFault(t)}
    <3> HIDE DEF old
    <3> QED  BY <1>8, <2>1, <2>3, <2>4, <2>5, <2>7 DEF CpuMemDoModify, old
  <2>14. CpuMemKeeps(s, op, t)
    BY <1>8, <2>7, CpuMemKeptFlags
  <2>15. CASE x = CpuMemOk(CpuMemStore(t, s.rdi, v))
    <3>1. PICK u : u = CpuMemStore(t, s.rdi, v)
      OBVIOUS
    <3>2. x = CpuMemOk(u) /\ CpuMemDoModify(f, op, CpuMemPages) = CpuMemOk(CpuMemFree(u))
      BY <2>12, <2>15, <3>1
    <3> QED  BY <3>2, CpuMemAgreesOk
  <2>16. CASE x = CpuMemFault(t)
    <3> HIDE DEF f
    <3> QED  BY <2>14, <2>16, CpuMemAgreesFault
  <2> QED  BY <2>13, <2>15, <2>16
<1> QED  BY <1>4, <1>5, <1>6, <1>7, <1>8 DEF CpuMemModifyOps

\* One element: all or nothing of it is done.
LEMMA CpuMemOneDoes ==
  ASSUME NEW s \in CpuMemState, NEW op \in CpuMemStringOps, NEW P, NEW x, x = CpuMemOne(s, op, P)
  PROVE  \/ x = CpuMemFault(s)
         \/ \E u \in CpuMemState :
              /\ x = CpuMemOk(u) /\ u.locked = s.locked /\ u.rcx = s.rcx
              /\ CpuMemOne(CpuMemFree(s), op, CpuMemPages) = CpuMemOk(CpuMemFree(u))
<1> DEFINE d == IF s.df THEN -1 ELSE 1
           f == CpuMemFree(s)
           a == CpuMemLoad(s, s.rsi)
           b == CpuMemLoad(s, s.rdi)
           t(y) == CASE op = "movs" -> CpuMemStore(y, s.rdi, a)
                     [] op = "stos" -> CpuMemStore(y, s.rdi, s.acc)
                     [] op = "cmps" -> CpuMemCompare(y, a, b)
                     [] op = "scas" -> CpuMemCompare(y, s.acc, b)
           si == IF op \in {"movs", "cmps"} THEN s.rsi + d ELSE s.rsi
           u(y) == [t(y) EXCEPT !.rdi = s.rdi + d, !.rsi = si]
<1>1. /\ s.rsi \in Int /\ s.rdi \in Int /\ d \in Int
      /\ s.acc \in 0..(CpuMemCells - 1) /\ a \in 0..(CpuMemCells - 1)
  BY CpuMemFields, SMTT(30)
<1>2. s.rdi + d \in Int /\ si \in Int
  BY <1>1
<1>3. /\ f.rdi = s.rdi /\ f.rsi = s.rsi /\ f.acc = s.acc /\ f.df = s.df /\ f.locked = {}
      /\ CpuMemLoad(f, s.rdi) = b /\ CpuMemLoad(f, s.rsi) = a
  BY DEF CpuMemFree, CpuMemState, CpuMemLoad
<1>4. /\ t(s) \in CpuMemState /\ t(s).locked = s.locked /\ t(s).rcx = s.rcx
      /\ t(f) = CpuMemFree(t(s))
  <2>1. ASSUME NEW v \in 0..(CpuMemCells - 1)
        PROVE  LET y == CpuMemStore(s, s.rdi, v)
               IN  /\ y \in CpuMemState /\ y.locked = s.locked /\ y.rcx = s.rcx
                   /\ CpuMemStore(f, s.rdi, v) = CpuMemFree(y)
    BY <1>1, CpuMemStores
  <2>2. ASSUME NEW v \in Int, NEW w \in Int
        PROVE  LET y == CpuMemCompare(s, v, w)
               IN  /\ y \in CpuMemState /\ y.locked = s.locked /\ y.rcx = s.rcx
                   /\ CpuMemCompare(f, v, w) = CpuMemFree(y)
    <3>1. PICK c : c = (v < w)
      OBVIOUS
    <3>2. PICK z : z = (v = w)
      OBVIOUS
    <3>3. c \in BOOLEAN /\ z \in BOOLEAN
      BY <3>1, <3>2, CpuMemBooleans
    <3>4. /\ CpuMemCompare(s, v, w) = [s EXCEPT !.zf = z, !.cf = c]
          /\ CpuMemCompare(f, v, w) = [f EXCEPT !.zf = z, !.cf = c]
      BY <3>1, <3>2 DEF CpuMemCompare
    <3>5. PICK y : y = [s EXCEPT !.cf = c, !.zf = z]
      OBVIOUS
    <3>6. /\ y \in CpuMemState /\ y.locked = s.locked /\ y.rcx = s.rcx
          /\ [s EXCEPT !.zf = z, !.cf = c] = y
          /\ [CpuMemFree(s) EXCEPT !.zf = z, !.cf = c] = CpuMemFree(y)
      BY <3>3, <3>5, CpuMemFlags
    <3>7. CpuMemCompare(s, v, w) = y
      BY <3>4, <3>6
    <3>8. CpuMemCompare(f, v, w) = CpuMemFree(y)
      BY <3>4, <3>6
    <3> HIDE DEF f
    <3> QED  BY <3>6, <3>7, <3>8
  <2>3. CASE op \in {"movs", "stos"}
    <3> HIDE DEF f, a
    <3> QED  BY <1>1, <2>1, <2>3
  <2>4. CASE op \in {"cmps", "scas"}
    <3>1. b \in Int /\ a \in Int /\ s.acc \in Int
      BY CpuMemFields
    <3> HIDE DEF f, a, b
    <3> QED  BY <2>2, <2>4, <3>1
  <2> QED  BY <2>3, <2>4 DEF CpuMemStringOps
<1>5. /\ u(s) \in CpuMemState /\ u(s).locked = s.locked /\ u(s).rcx = s.rcx
      /\ u(f) = CpuMemFree(u(s))
  <2>1. PICK y : y = t(s)
    OBVIOUS
  <2>2. y \in CpuMemState /\ y.locked = s.locked /\ y.rcx = s.rcx
    BY <1>4, <2>1
  <2>3. PICK z : z = s.rdi + d
    OBVIOUS
  <2>4. t(s) = y /\ t(f) = CpuMemFree(y)
    BY <1>4, <2>1
  <2> HIDE DEF t, f, d, si
  <2> QED  BY <1>2, <2>2, <2>3, <2>4 DEF CpuMemState, CpuMemFree
<1>6. x = CpuMemFault(s) \/ x = CpuMemOk(u(s))
  <2> HIDE DEF a, b
  <2> QED  BY DEF CpuMemOne, a, b
<1>7. CpuMemOne(f, op, CpuMemPages) = CpuMemOk(u(f))
  <2>1. /\ CpuMemHas(CpuMemPages, s.rsi) /\ CpuMemHas(CpuMemPages, s.rdi)
        /\ CpuMemTakes(f, CpuMemPages, s.rdi)
    BY <1>1, <1>3, CpuMemConstants DEF CpuMemTakes
  <2> HIDE DEF f, a, b
  <2> QED  BY <1>3, <2>1 DEF CpuMemOne
<1> HIDE DEF u, f
<1> QED  BY <1>5, <1>6, <1>7 DEF f

CpuMemLoopStates == [s : CpuMemState, ok : BOOLEAN, over : BOOLEAN]
CpuMemBegun(s) == [s |-> s, ok |-> TRUE, over |-> FALSE]

LEMMA CpuMemImplies == ASSUME NEW A, NEW B PROVE (A => B) \in BOOLEAN
OBVIOUS

\* A round that began in s is over with a fault, or has moved an element: u is what it left,
\* o whether the flags end the loop.
CpuMemMoved(s, i, x, u, o) ==
  /\ x = [s |-> u, ok |-> TRUE, over |-> o] /\ u.locked = s.locked /\ u.rcx = s.rcx - 1
  /\ CpuMemLoop(CpuMemBegun(CpuMemFree(s)), i, CpuMemPages)
       = [s |-> CpuMemFree(u), ok |-> TRUE, over |-> o]
CpuMemLooped(s, i, x) ==
  \/ x = [s |-> s, ok |-> FALSE, over |-> TRUE]
  \/ \E u \in CpuMemState, o \in BOOLEAN : CpuMemMoved(s, i, x, u, o)

\* One round, and what it does of the state in which nothing faults.
LEMMA CpuMemLoopDoes ==
  ASSUME NEW v \in CpuMemLoopStates, ~v.over, v.s.rcx >= 1, NEW i, i.op \in CpuMemStringOps, NEW P,
         NEW x, x = CpuMemLoop(v, i, P)
  PROVE  CpuMemLooped(v.s, i, x)
<1>1. PICK s \in CpuMemState : s = v.s
  BY DEF CpuMemLoopStates
<1>2. s.rcx \in Nat \ {0}
  BY <1>1, CpuMemFields
<1>3. PICK y : y = CpuMemRound(s, i, P)
  OBVIOUS
<1>4. x = [s |-> y.s, ok |-> y.ok, over |-> y.ok => CpuMemStops(y.s, i)]
  BY <1>1, <1>3 DEF CpuMemLoop
<1>5. CASE CpuMemOne(s, i.op, P) = CpuMemFault(s)
  <2>1. y = CpuMemFault(s)
    BY <1>3, <1>5 DEF CpuMemRound, CpuMemFault
  <2>2. y.s = s /\ y.ok = FALSE
    BY <2>1 DEF CpuMemFault
  <2>3. (y.ok => CpuMemStops(y.s, i)) = TRUE
    BY <2>2
  <2> QED  BY <1>1, <1>4, <2>2, <2>3 DEF CpuMemLooped
<1>6. ASSUME NEW t \in CpuMemState, CpuMemOne(s, i.op, P) = CpuMemOk(t),
             t.locked = s.locked, t.rcx = s.rcx,
             CpuMemOne(CpuMemFree(s), i.op, CpuMemPages) = CpuMemOk(CpuMemFree(t))
      PROVE  CpuMemLooped(s, i, x)
  <2>1. PICK u : u = [t EXCEPT !.rcx = s.rcx - 1]
    OBVIOUS
  <2>2. u \in CpuMemState /\ u.locked = s.locked /\ u.rcx = s.rcx - 1
    <3>1. PICK m \in Nat : m = s.rcx - 1
      BY <1>2
    <3>2. u = [t EXCEPT !.rcx = m]
      BY <2>1, <3>1
    <3>3. u \in CpuMemState /\ u.locked = t.locked /\ u.rcx = m
      BY <3>2 DEF CpuMemState
    <3> QED  BY <1>6, <3>1, <3>3
  <2>3. y = CpuMemOk(u)
    BY <1>3, <1>6, <2>1 DEF CpuMemRound, CpuMemOk
  <2>4. y.s = u /\ y.ok = TRUE
    BY <2>3 DEF CpuMemOk
  <2>5. PICK o : o = (y.ok => CpuMemStops(y.s, i))
    OBVIOUS
  <2>6. o \in BOOLEAN
    BY <2>5, CpuMemImplies
  <2>7. x = [s |-> u, ok |-> TRUE, over |-> o]
    BY <1>4, <2>4, <2>5
  <2>8. PICK g : g = CpuMemFree(s)
    OBVIOUS
  <2>9. CpuMemFree(s).rcx = s.rcx /\ [CpuMemFree(t) EXCEPT !.rcx = s.rcx - 1] = CpuMemFree(u)
    BY <2>1 DEF CpuMemFree, CpuMemState
  <2>10. CpuMemRound(g, i, CpuMemPages) = CpuMemOk(CpuMemFree(u))
    <3>1. CpuMemOne(g, i.op, CpuMemPages) = CpuMemOk(CpuMemFree(t)) /\ g.rcx = s.rcx
      BY <1>6, <2>8, <2>9
    <3>2. CpuMemOk(CpuMemFree(t)).ok /\ CpuMemOk(CpuMemFree(t)).s = CpuMemFree(t)
      BY DEF CpuMemOk
    <3> QED  BY <2>9, <3>1, <3>2 DEF CpuMemRound
  <2>11. CpuMemFree(u).zf = u.zf
    BY <2>2 DEF CpuMemFree, CpuMemState
  <2>12. CpuMemStops(CpuMemFree(u), i) = CpuMemStops(u, i)
    BY <2>11 DEF CpuMemStops
  <2>13. CpuMemLoop(CpuMemBegun(g), i, CpuMemPages)
           = [s |-> CpuMemFree(u), ok |-> TRUE, over |-> TRUE => CpuMemStops(CpuMemFree(u), i)]
    <3>1. CpuMemBegun(g).s = g /\ ~CpuMemBegun(g).over
      BY DEF CpuMemBegun
    <3>2. CpuMemOk(CpuMemFree(u)).s = CpuMemFree(u) /\ CpuMemOk(CpuMemFree(u)).ok = TRUE
      BY DEF CpuMemOk
    <3> QED  BY <2>10, <3>1, <3>2 DEF CpuMemLoop
  <2>14. (TRUE => CpuMemStops(CpuMemFree(u), i)) = o
    BY <2>4, <2>5, <2>12
  <2>15. CpuMemMoved(s, i, x, u, o)
    BY <2>2, <2>7, <2>8, <2>13, <2>14 DEF CpuMemMoved
  <2> QED  BY <2>2, <2>6, <2>15 DEF CpuMemLooped
<1>7. PICK z : z = CpuMemOne(s, i.op, P)
  OBVIOUS
<1>8. \/ z = CpuMemFault(s)
      \/ \E t \in CpuMemState :
           /\ z = CpuMemOk(t) /\ t.locked = s.locked /\ t.rcx = s.rcx
           /\ CpuMemOne(CpuMemFree(s), i.op, CpuMemPages) = CpuMemOk(CpuMemFree(t))
  BY <1>7, CpuMemOneDoes
<1>9. CASE z = CpuMemFault(s)
  BY <1>1, <1>5, <1>7, <1>9
<1>10. CASE z # CpuMemFault(s)
  <2>1. PICK t \in CpuMemState :
           /\ z = CpuMemOk(t) /\ t.locked = s.locked /\ t.rcx = s.rcx
           /\ CpuMemOne(CpuMemFree(s), i.op, CpuMemPages) = CpuMemOk(CpuMemFree(t))
    BY <1>8, <1>10
  <2> QED  BY <1>1, <1>6, <1>7, <2>1
<1> QED  BY <1>9, <1>10

\* at are the states of the loop, from s, until the count is out.
CpuMemRounds(at, s, i, P) ==
  /\ at \in [0..s.rcx -> CpuMemLoopStates] /\ at[0] = CpuMemBegun(s)
  /\ \A k \in 1..s.rcx : at[k] = CpuMemLoop(at[k - 1], i, P)
  /\ \A k \in 0..s.rcx : /\ at[k].s.locked = s.locked
                         /\ ~at[k].over => at[k].ok /\ at[k].s.rcx = s.rcx - k

LEMMA CpuMemLoopUnfolds ==
  ASSUME NEW s \in CpuMemState, NEW i, i.op \in CpuMemStringOps, CpuMemRepeats(i), NEW P
  PROVE  \E at : /\ CpuMemRounds(at, s, i, P)
                 /\ CpuMemDoString(s, i, P) = [s |-> at[s.rcx].s, ok |-> at[s.rcx].ok]
<1> DEFINE V == CpuMemLoopStates
           n == s.rcx
           Goes(v) == ~v.over => v.s.rcx >= 1
           step == [q \in V \X (1..n) |-> IF Goes(q[1]) THEN CpuMemLoop(q[1], i, P) ELSE q[1]]
           Is(f) == f = [k \in 0..n |-> IF k = 0 THEN [s |-> s, ok |-> TRUE, over |-> FALSE]
                                        ELSE CpuMemLoop(f[k - 1], i, P)]
<1>1. n \in Nat /\ CpuMemBegun(s) \in V
  BY CpuMemFields DEF CpuMemBegun, CpuMemLoopStates
<1>2. ASSUME NEW v \in V, Goes(v)
      PROVE  /\ CpuMemLoop(v, i, P) \in V /\ CpuMemLoop(v, i, P).s.locked = v.s.locked
             /\ ~CpuMemLoop(v, i, P).over =>
                  /\ ~v.over /\ CpuMemLoop(v, i, P).ok
                  /\ CpuMemLoop(v, i, P).s.rcx = v.s.rcx - 1
  <2>1. PICK x : x = CpuMemLoop(v, i, P)
    OBVIOUS
  <2>2. v.s \in CpuMemState
    BY DEF CpuMemLoopStates
  <2>3. CASE v.over
    <3>1. x = v
      BY <2>1, <2>3 DEF CpuMemLoop
    <3> QED  BY <2>1, <2>3, <3>1
  <2>4. CASE ~v.over
    <3>1. CASE x = [s |-> v.s, ok |-> FALSE, over |-> TRUE]
      <4>1. x \in V /\ x.s = v.s /\ x.over
        BY <2>2, <3>1 DEF CpuMemLoopStates
      <4> QED  BY <2>1, <4>1
    <3>2. ASSUME NEW u \in CpuMemState, NEW o \in BOOLEAN, x = [s |-> u, ok |-> TRUE, over |-> o],
                 u.locked = v.s.locked, u.rcx = v.s.rcx - 1
          PROVE  /\ x \in V /\ x.s.locked = v.s.locked
                 /\ ~x.over => x.ok /\ x.s.rcx = v.s.rcx - 1
      BY <3>2 DEF CpuMemLoopStates
    <3>3. v.s.rcx >= 1
      BY <1>2, <2>4
    <3>4. CpuMemLooped(v.s, i, x)
      BY <2>1, <2>4, <3>3, CpuMemLoopDoes
    <3>5. CASE x # [s |-> v.s, ok |-> FALSE, over |-> TRUE]
      <4>1. /\ x \in V /\ x.s.locked = v.s.locked
            /\ ~x.over => x.ok /\ x.s.rcx = v.s.rcx - 1
        BY <3>2, <3>4, <3>5 DEF CpuMemLooped, CpuMemMoved
      <4> HIDE DEF V
      <4> QED  BY <2>1, <2>4, <4>1
    <3> QED  BY <3>1, <3>5
  <2> QED  BY <2>3, <2>4
<1>3. \A v \in V, k \in 1..n : step[<<v, k>>] = IF Goes(v) THEN CpuMemLoop(v, i, P) ELSE v
  <2> HIDE DEF V, Goes
  <2> QED  OBVIOUS
<1>4. PICK at : Iterates(at, V, CpuMemBegun(s), n, step)
  <2> HIDE DEF V, Goes, step, n
  <2>1. \A v \in V, k \in 1..n : step[<<v, k>>] \in V
    BY <1>2, <1>3
  <2>2. IsStep(step, V, n)
    BY <2>1 DEF IsStep
  <2> QED  BY <1>1, <2>2, Recursion
<1>5. /\ at \in [0..n -> V] /\ at[0] = CpuMemBegun(s)
      /\ \A k \in 1..n : at[k] = IF Goes(at[k - 1]) THEN CpuMemLoop(at[k - 1], i, P) ELSE at[k - 1]
  <2>1. /\ at \in [0..n -> V] /\ at[0] = CpuMemBegun(s)
        /\ \A k \in 1..n : at[k] = step[<<at[k - 1], k>>]
    BY <1>4 DEF Iterates
  <2>2. \A k \in 1..n : k - 1 \in 0..n
    BY <1>1
  <2> HIDE DEF V, Goes, step, n
  <2> QED  BY <1>3, <2>1, <2>2
<1> DEFINE Good(k) == /\ at[k].s.locked = s.locked
                      /\ ~at[k].over => at[k].ok /\ at[k].s.rcx = n - k
           N == {k \in Nat : k <= n => Good(k)}
<1>6. 0 \in N
  <2>1. Good(0)
    BY <1>1, <1>5 DEF CpuMemBegun
  <2> HIDE DEF Good
  <2> QED  BY <2>1
<1>7. ASSUME NEW k \in Nat, k + 1 <= n, Good(k)
      PROVE  Good(k + 1) /\ at[k + 1] = CpuMemLoop(at[k], i, P)
  <2>1. k + 1 \in 1..n /\ (k + 1) - 1 = k /\ k \in 0..n /\ n \in Nat
    BY <1>1, <1>7
  <2>2. PICK v \in V : v = at[k]
    <3> HIDE DEF V, n
    <3> QED  BY <1>5, <2>1
  <2>3. Goes(v)
    <3>1. ~v.over => v.s.rcx = n - k
      BY <1>7, <2>2
    <3> HIDE DEF V, n
    <3> QED  BY <2>1, <3>1
  <2>4. at[k + 1] = CpuMemLoop(v, i, P)
    <3> HIDE DEF V, n, Goes
    <3> QED  BY <1>5, <2>1, <2>2, <2>3
  <2>5. ~at[k + 1].over => ~v.over /\ at[k + 1].ok /\ at[k + 1].s.rcx = v.s.rcx - 1
    <3> HIDE DEF V, n, Goes
    <3> QED  BY <1>2, <2>3, <2>4
  <2>6. at[k + 1].s.locked = v.s.locked
    <3> HIDE DEF V, n, Goes
    <3> QED  BY <1>2, <2>3, <2>4
  <2>7. v.s.locked = s.locked /\ (~v.over => v.s.rcx = n - k)
    BY <1>7, <2>2
  <2> HIDE DEF V, n, Goes
  <2>8. ~at[k + 1].over => at[k + 1].ok /\ at[k + 1].s.rcx = n - (k + 1)
    BY <2>1, <2>5, <2>7
  <2> QED  BY <2>2, <2>4, <2>6, <2>7, <2>8
<1>8. Nat \subseteq N
  <2>1. \A k \in Nat : k \in N => k + 1 \in N
    <3> SUFFICES ASSUME NEW k \in Nat, k \in N, k + 1 <= n
                 PROVE  Good(k + 1)
      BY DEF N
    <3>1. Good(k)
      <4> HIDE DEF Good
      <4> QED  BY <1>1
    <3> HIDE DEF Good, N
    <3> QED  BY <1>7, <3>1
  <2> HIDE DEF N
  <2> QED  BY <1>6, <2>1, SetInduction
<1>9. \A k \in 0..n : Good(k)
  <2> HIDE DEF Good
  <2> QED  BY <1>1, <1>8
<1>10. ASSUME NEW k \in 1..n
       PROVE  at[k] = CpuMemLoop(at[k - 1], i, P)
  <2>1. k - 1 \in Nat /\ k - 1 \in 0..n /\ (k - 1) + 1 <= n /\ (k - 1) + 1 = k
    BY <1>1
  <2> HIDE DEF Good
  <2> QED  BY <1>7, <1>9, <2>1
<1>11. Is(at)
  <2>1. \A k \in 0..n : at[k] = IF k = 0 THEN [s |-> s, ok |-> TRUE, over |-> FALSE]
                                ELSE CpuMemLoop(at[k - 1], i, P)
    <3>1. \A k \in 0..n : k # 0 => k \in 1..n
      BY <1>1
    <3> HIDE DEF n, V
    <3> QED  BY <1>5, <1>10, <3>1 DEF CpuMemBegun
  <2>2. at = [k \in 0..n |-> at[k]]
    BY <1>5
  <2> HIDE DEF n
  <2> QED  BY <2>1, <2>2
<1>12. CpuMemDoString(s, i, P) = LET f == CHOOSE f : Is(f) IN [s |-> f[n].s, ok |-> f[n].ok]
  BY DEF CpuMemDoString
<1>13. PICK f : f = CHOOSE g : Is(g)
  OBVIOUS
<1>14. Is(f)
  <2> HIDE DEF Is
  <2> QED  BY <1>11, <1>13
<1>15. f = at
  <2>1. \A k \in 0..n : f[k] = IF k = 0 THEN CpuMemBegun(s) ELSE CpuMemLoop(f[k - 1], i, P)
    BY <1>14 DEF CpuMemBegun
  <2> DEFINE M == {k \in Nat : k <= n => f[k] = at[k]}
  <2> HIDE DEF n, V
  <2>2. 0 \in M
    BY <1>1, <1>5, <2>1
  <2>3. \A k \in Nat : k \in M => k + 1 \in M
    <3> SUFFICES ASSUME NEW k \in Nat, k \in M, k + 1 <= n
                 PROVE  f[k + 1] = at[k + 1]
      OBVIOUS
    <3>1. k + 1 \in 0..n /\ k + 1 \in 1..n /\ k + 1 # 0 /\ (k + 1) - 1 = k /\ f[k] = at[k]
      BY <1>1
    <3> QED  BY <1>10, <2>1, <3>1
  <2>4. Nat \subseteq M
    <3> HIDE DEF M
    <3> QED  BY <2>2, <2>3, SetInduction
  <2>5. \A k \in 0..n : f[k] = at[k]
    BY <1>1, <2>4
  <2>6. f = [k \in 0..n |-> f[k]] /\ at = [k \in 0..n |-> at[k]]
    BY <1>5, <1>14
  <2> QED  BY <2>5, <2>6
<1>16. CpuMemDoString(s, i, P) = [s |-> at[n].s, ok |-> at[n].ok]
  <2> HIDE DEF Is
  <2> QED  BY <1>12, <1>13, <1>15
<1>17. CpuMemRounds(at, s, i, P)
  BY <1>5, <1>9, <1>10 DEF CpuMemRounds
<1> QED  BY <1>16, <1>17

\* After k rounds: bt, where nothing faults, has come as far as at; if at has faulted, bt was where
\* it did after some round j, with its count, and went on.
CpuMemFollows(at, bt, n, k) ==
  IF at[k].ok THEN bt[k] = [s |-> CpuMemFree(at[k].s), ok |-> TRUE, over |-> at[k].over]
  ELSE /\ at[k].over
       /\ \E j \in 0..n : at[k].s.rcx = n - j /\ bt[j] = CpuMemBegun(CpuMemFree(at[k].s))

LEMMA CpuMemSimulated ==
  ASSUME NEW s \in CpuMemState, NEW i, i.op \in CpuMemStringOps, NEW P,
         NEW at, CpuMemRounds(at, s, i, P),
         NEW bt, CpuMemRounds(bt, CpuMemFree(s), i, CpuMemPages),
         NEW n, n = s.rcx
  PROVE  \A k \in 0..n : CpuMemFollows(at, bt, n, k)
<1>1. n \in Nat /\ CpuMemFree(s).rcx = n
  BY CpuMemFields DEF CpuMemFree, CpuMemState
<1>2. /\ at \in [0..n -> CpuMemLoopStates] /\ at[0] = CpuMemBegun(s)
      /\ \A k \in 1..n : at[k] = CpuMemLoop(at[k - 1], i, P)
      /\ \A k \in 0..n : ~at[k].over => at[k].ok /\ at[k].s.rcx = n - k
  BY DEF CpuMemRounds
<1>3. /\ bt[0] = CpuMemBegun(CpuMemFree(s))
      /\ \A k \in 1..n : bt[k] = CpuMemLoop(bt[k - 1], i, CpuMemPages)
  BY <1>1 DEF CpuMemRounds
<1> DEFINE N == {k \in Nat : k <= n => CpuMemFollows(at, bt, n, k)}
<1>4. 0 \in N
  <2>1. at[0].ok /\ at[0].s = s /\ at[0].over = FALSE
    BY <1>2 DEF CpuMemBegun
  <2>2. bt[0] = [s |-> CpuMemFree(at[0].s), ok |-> TRUE, over |-> at[0].over]
    BY <1>3, <2>1 DEF CpuMemBegun
  <2>3. CpuMemFollows(at, bt, n, 0)
    BY <2>1, <2>2 DEF CpuMemFollows
  <2> QED  BY <2>3
<1>5. ASSUME NEW k \in Nat, k + 1 <= n, CpuMemFollows(at, bt, n, k)
      PROVE  CpuMemFollows(at, bt, n, k + 1)
  <2>1. k \in 0..n /\ k + 1 \in 1..n /\ (k + 1) - 1 = k
    BY <1>1, <1>5
  <2>2. PICK v \in CpuMemLoopStates : v = at[k]
    BY <1>2, <2>1
  <2>3. v.s \in CpuMemState /\ v.ok \in BOOLEAN /\ v.over \in BOOLEAN
    BY DEF CpuMemLoopStates
  <2>4. at[k + 1] = CpuMemLoop(v, i, P) /\ bt[k + 1] = CpuMemLoop(bt[k], i, CpuMemPages)
    BY <1>2, <1>3, <2>1, <2>2
  <2>5. CASE v.over
    <3>1. at[k + 1] = at[k]
      BY <2>2, <2>4, <2>5 DEF CpuMemLoop
    <3>2. CASE v.ok
      <4>1. bt[k] = [s |-> CpuMemFree(v.s), ok |-> TRUE, over |-> v.over]
        BY <1>5, <2>2, <3>2 DEF CpuMemFollows
      <4>2. bt[k].over
        BY <2>5, <4>1
      <4>3. bt[k + 1] = bt[k]
        BY <2>4, <4>2 DEF CpuMemLoop
      <4> QED  BY <2>2, <3>1, <3>2, <4>1, <4>3 DEF CpuMemFollows
    <3>3. CASE ~v.ok
      BY <1>5, <2>2, <3>1, <3>3 DEF CpuMemFollows
    <3> QED  BY <3>2, <3>3
  <2>6. CASE ~v.over
    <3>1. v.ok /\ v.s.rcx = n - k /\ v.s.rcx >= 1
      BY <1>1, <1>2, <1>5, <2>1, <2>2, <2>6
    <3>2. v.over = FALSE
      BY <2>3, <2>6
    <3>3. bt[k] = CpuMemBegun(CpuMemFree(v.s))
      BY <1>5, <2>2, <3>1, <3>2 DEF CpuMemFollows, CpuMemBegun
    <3>4. PICK x : x = at[k + 1]
      OBVIOUS
    <3>5. CpuMemLooped(v.s, i, x)
      BY <2>4, <2>6, <3>1, <3>4, CpuMemLoopDoes
    <3>6. CASE x = [s |-> v.s, ok |-> FALSE, over |-> TRUE]
      <4>1. x.ok = FALSE /\ x.over /\ x.s = v.s
        BY <3>6
      <4> QED  BY <2>1, <3>1, <3>3, <3>4, <4>1 DEF CpuMemFollows
    <3>7. CASE x # [s |-> v.s, ok |-> FALSE, over |-> TRUE]
      <4>1. PICK u \in CpuMemState, o \in BOOLEAN : CpuMemMoved(v.s, i, x, u, o)
        BY <3>5, <3>7 DEF CpuMemLooped
      <4>2. bt[k + 1] = [s |-> CpuMemFree(u), ok |-> TRUE, over |-> o]
        BY <2>4, <3>3, <4>1 DEF CpuMemMoved
      <4>3. x = [s |-> u, ok |-> TRUE, over |-> o]
        BY <4>1 DEF CpuMemMoved
      <4>4. x.ok /\ x.s = u /\ x.over = o
        BY <4>3
      <4> QED  BY <3>4, <4>2, <4>4 DEF CpuMemFollows
    <3> QED  BY <3>6, <3>7
  <2> QED  BY <2>5, <2>6
<1>6. Nat \subseteq N
  <2>1. \A k \in Nat : k \in N => k + 1 \in N
    BY <1>1, <1>5
  <2> HIDE DEF N
  <2> QED  BY <1>4, <2>1, SetInduction
<1> QED  BY <1>1, <1>6

\* The loop that goes on from where another one was after j rounds does the rounds that are left.
LEMMA CpuMemContinued ==
  ASSUME NEW g \in CpuMemState, NEW h \in CpuMemState, NEW i, NEW P,
         NEW bt, CpuMemRounds(bt, g, i, P), NEW ct, CpuMemRounds(ct, h, i, P),
         NEW j \in 0..g.rcx, bt[j] = CpuMemBegun(h), h.rcx = g.rcx - j
  PROVE  ct[h.rcx] = bt[g.rcx]
<1>1. PICK n \in Nat : n = g.rcx
  BY CpuMemFields
<1>2. PICK m \in Nat : m = h.rcx
  BY CpuMemFields
<1>3. j \in Nat /\ m = n - j
  BY <1>1, <1>2
<1>4. /\ ct[0] = CpuMemBegun(h) /\ \A k \in 1..m : ct[k] = CpuMemLoop(ct[k - 1], i, P)
      /\ \A k \in 1..n : bt[k] = CpuMemLoop(bt[k - 1], i, P)
  BY <1>1, <1>2 DEF CpuMemRounds
<1> DEFINE N == {k \in Nat : k <= m => ct[k] = bt[j + k]}
<1>5. 0 \in N
  <2>1. j + 0 = j
    BY <1>3
  <2> QED  BY <1>4, <2>1
<1>6. ASSUME NEW k \in Nat, k \in N
      PROVE  k + 1 \in N
  <2> SUFFICES ASSUME k + 1 <= m
               PROVE  ct[k + 1] = bt[j + (k + 1)]
    OBVIOUS
  <2>1. PICK q \in Nat : q = j + (k + 1)
    BY <1>3
  <2>2. k + 1 \in 1..m /\ (k + 1) - 1 = k /\ q \in 1..n /\ q - 1 = j + k /\ k <= m
    BY <1>3, <2>1
  <2>3. ct[k] = bt[j + k]
    BY <1>6, <2>2
  <2>4. ct[k + 1] = CpuMemLoop(ct[k], i, P)
    BY <1>4, <2>2
  <2>5. bt[q] = CpuMemLoop(bt[j + k], i, P)
    BY <1>4, <2>2
  <2> QED  BY <2>1, <2>3, <2>4, <2>5
<1>7. Nat \subseteq N
  <2> HIDE DEF N
  <2> QED  BY <1>5, <1>6, SetInduction
<1>8. ct[m] = bt[j + m]
  BY <1>2, <1>7
<1>9. j + m = n
  BY <1>3
<1> QED  BY <1>1, <1>2, <1>8, <1>9

\* What a string instruction has done: where a repetition has faulted, what its count and pointers
\* leave to do makes it whole.
CpuMemStrung(s, i, x, w) ==
  IF x.ok \/ ~CpuMemRepeats(i) THEN CpuMemAgrees(s, i.op, x, w)
  ELSE CpuMemDoString(CpuMemFree(x.s), i, CpuMemPages) = w

LEMMA CpuMemStringDoes ==
  ASSUME NEW s \in CpuMemState, NEW i, i.op \in CpuMemStringOps, NEW P,
         NEW x, x = CpuMemDoString(s, i, P)
  PROVE  /\ CpuMemTyped(s, x)
         /\ CpuMemStrung(s, i, x, CpuMemDoString(CpuMemFree(s), i, CpuMemPages))
<1>1. PICK f \in CpuMemState : f = CpuMemFree(s)
  BY CpuMemFields
<1>2. CASE ~CpuMemRepeats(i)
  <2>1. /\ x = CpuMemOne(s, i.op, P)
        /\ \A y : CpuMemDoString(y, i, CpuMemPages) = CpuMemOne(y, i.op, CpuMemPages)
    BY <1>2 DEF CpuMemDoString
  <2>2. CASE x = CpuMemFault(s)
    <3>1. CpuMemKeeps(s, i.op, s)
      BY CpuMemKept
    <3>2. CpuMemTyped(s, x)
      BY <2>2 DEF CpuMemTyped
    <3> QED  BY <1>2, <2>2, <3>1, <3>2, CpuMemAgreesFault DEF CpuMemStrung
  <2>3. CASE x # CpuMemFault(s)
    <3>1. PICK u \in CpuMemState :
            /\ x = CpuMemOk(u) /\ u.locked = s.locked
            /\ CpuMemOne(CpuMemFree(s), i.op, CpuMemPages) = CpuMemOk(CpuMemFree(u))
      BY <2>1, <2>3, CpuMemOneDoes
    <3>2. CpuMemTyped(s, x)
      BY <3>1 DEF CpuMemTyped
    <3>3. CpuMemDoString(CpuMemFree(s), i, CpuMemPages) = CpuMemOk(CpuMemFree(u))
      BY <2>1, <3>1
    <3> QED  BY <1>2, <3>1, <3>2, <3>3, CpuMemAgreesOk DEF CpuMemStrung
  <2> QED  BY <2>2, <2>3
<1>3. CASE CpuMemRepeats(i)
  <2>1. PICK at : CpuMemRounds(at, s, i, P)
                  /\ CpuMemDoString(s, i, P) = [s |-> at[s.rcx].s, ok |-> at[s.rcx].ok]
    BY <1>3, CpuMemLoopUnfolds
  <2>2. PICK bt : CpuMemRounds(bt, f, i, CpuMemPages)
                  /\ CpuMemDoString(f, i, CpuMemPages)
                       = [s |-> bt[f.rcx].s, ok |-> bt[f.rcx].ok]
    BY <1>3, CpuMemLoopUnfolds
  <2>3. PICK n \in Nat : n = s.rcx
    BY CpuMemFields
  <2>4. f.rcx = n
    BY <1>1, <2>3 DEF CpuMemFree, CpuMemState
  <2>5. PICK v \in CpuMemLoopStates : v = at[n]
    BY <2>1, <2>3 DEF CpuMemRounds
  <2>6. v.s \in CpuMemState /\ v.ok \in BOOLEAN /\ v.s.locked = s.locked
    <3>1. \A k \in 0..n : at[k].s.locked = s.locked
      BY <2>1, <2>3 DEF CpuMemRounds
    <3> QED  BY <2>3, <2>5, <3>1 DEF CpuMemLoopStates
  <2>7. x = [s |-> v.s, ok |-> v.ok]
    BY <2>1, <2>3, <2>5
  <2>8. x.s = v.s /\ CpuMemTyped(s, x)
    <3>1. CASE v.ok = TRUE
      <4>1. x = CpuMemOk(v.s)
        BY <2>7, <3>1 DEF CpuMemOk
      <4> QED  BY <2>6, <2>7, <4>1 DEF CpuMemTyped
    <3>2. CASE v.ok = FALSE
      <4>1. x = CpuMemFault(v.s)
        BY <2>7, <3>2 DEF CpuMemFault
      <4> QED  BY <2>6, <2>7, <4>1 DEF CpuMemTyped
    <3> QED  BY <2>6, <3>1, <3>2
  <2>9. CpuMemFollows(at, bt, n, n)
    BY <1>1, <2>1, <2>2, <2>3, CpuMemSimulated
  <2>10. CASE v.ok = TRUE
    <3>1. bt[n] = [s |-> CpuMemFree(v.s), ok |-> TRUE, over |-> v.over]
      BY <2>5, <2>9, <2>10 DEF CpuMemFollows
    <3>2. CpuMemDoString(f, i, CpuMemPages) = CpuMemOk(CpuMemFree(v.s))
      BY <2>2, <2>4, <3>1 DEF CpuMemOk
    <3>3. x = CpuMemOk(v.s)
      BY <2>7, <2>10 DEF CpuMemOk
    <3>4. x.ok
      BY <2>7, <2>10
    <3> QED  BY <1>1, <2>8, <3>2, <3>3, <3>4, CpuMemAgreesOk DEF CpuMemStrung
  <2>11. CASE v.ok = FALSE
    <3>1. PICK h \in CpuMemState : h = CpuMemFree(v.s)
      BY <2>6, CpuMemFields
    <3>2. h.rcx = v.s.rcx
      BY <2>6, <3>1 DEF CpuMemFree, CpuMemState
    <3>3. PICK j \in 0..n : v.s.rcx = n - j /\ bt[j] = CpuMemBegun(h)
      BY <2>5, <2>9, <2>11, <3>1 DEF CpuMemFollows
    <3>4. PICK ct : CpuMemRounds(ct, h, i, CpuMemPages)
                    /\ CpuMemDoString(h, i, CpuMemPages)
                         = [s |-> ct[h.rcx].s, ok |-> ct[h.rcx].ok]
      BY <1>3, CpuMemLoopUnfolds
    <3>5. ct[h.rcx] = bt[f.rcx]
      BY <2>2, <2>4, <3>2, <3>3, <3>4, CpuMemContinued
    <3>6. CpuMemDoString(h, i, CpuMemPages) = CpuMemDoString(f, i, CpuMemPages)
      BY <2>2, <3>4, <3>5
    <3>7. ~x.ok
      BY <2>7, <2>11
    <3> QED  BY <1>1, <1>3, <2>8, <3>1, <3>6, <3>7 DEF CpuMemStrung
  <2> QED  BY <2>6, <2>10, <2>11
<1> QED  BY <1>2, <1>3

\* Instructions are of the three kinds.
LEMMA CpuMemKinds ==
  ASSUME NEW i \in CpuMemInstrs
  PROVE  /\ i.op \in CpuMemStackOps \cup CpuMemModifyOps \cup CpuMemStringOps
         /\ i # CpuMemNone
<1>1. i.op \in CpuMemStackOps \cup CpuMemModifyOps \cup CpuMemStringOps
  BY DEF CpuMemInstrs
<1>2. i.op # "none"
  BY <1>1 DEF CpuMemStackOps, CpuMemModifyOps, CpuMemStringOps
<1>3. CpuMemNone.op = "none"
  BY DEF CpuMemNone
<1> QED  BY <1>1, <1>2, <1>3

\* Every instruction.
CpuMemLeft(s, i, x, w) ==
  IF x.ok THEN w = CpuMemOk(CpuMemFree(x.s))
  ELSE IF CpuMemRepeats(i) THEN CpuMemDo(CpuMemFree(x.s), i, CpuMemPages) = w
       ELSE CpuMemKeeps(s, i.op, x.s)

LEMMA CpuMemDoes ==
  ASSUME NEW s \in CpuMemState, NEW i \in CpuMemInstrs, NEW P, NEW x, x = CpuMemDo(s, i, P)
  PROVE  /\ CpuMemTyped(s, x)
         /\ CpuMemLeft(s, i, x, CpuMemDo(CpuMemFree(s), i, CpuMemPages))
<1>1. /\ i.op \in CpuMemStackOps \cup CpuMemModifyOps \cup CpuMemStringOps
      /\ i.op \notin CpuMemStringOps => ~CpuMemRepeats(i)
  <2>1. i.op \notin CpuMemStringOps => i.rep = "no"
    BY DEF CpuMemInstrs
  <2> QED  BY <2>1, CpuMemKinds DEF CpuMemRepeats
<1>2. CASE i.op \in CpuMemStackOps
  <2>1. \A y, Q : CpuMemDo(y, i, Q) = CpuMemDoStack(y, i.op, Q)
    BY <1>2 DEF CpuMemDo, CpuMemStackOps, CpuMemModifyOps, CpuMemStringOps
  <2>2. ~CpuMemRepeats(i)
    BY <1>1, <1>2 DEF CpuMemStackOps, CpuMemStringOps
  <2>3. CpuMemTyped(s, x) /\ CpuMemAgrees(s, i.op, x, CpuMemDo(CpuMemFree(s), i, CpuMemPages))
    BY <1>2, <2>1, CpuMemStackTyped, CpuMemStackAgrees
  <2> QED  BY <2>2, <2>3 DEF CpuMemAgrees, CpuMemLeft
<1>3. CASE i.op \in CpuMemModifyOps
  <2>1. \A y, Q : CpuMemDo(y, i, Q) = CpuMemDoModify(y, i.op, Q)
    BY <1>3 DEF CpuMemDo, CpuMemStackOps, CpuMemModifyOps, CpuMemStringOps
  <2>2. ~CpuMemRepeats(i)
    BY <1>1, <1>3 DEF CpuMemModifyOps, CpuMemStringOps
  <2>3. CpuMemTyped(s, x) /\ CpuMemAgrees(s, i.op, x, CpuMemDo(CpuMemFree(s), i, CpuMemPages))
    BY <1>3, <2>1, CpuMemModifyTyped, CpuMemModifyAgrees
  <2> QED  BY <2>2, <2>3 DEF CpuMemAgrees, CpuMemLeft
<1>4. CASE i.op \in CpuMemStringOps
  <2>1. \A y, Q : CpuMemDo(y, i, Q) = CpuMemDoString(y, i, Q)
    BY <1>4 DEF CpuMemDo, CpuMemStackOps, CpuMemModifyOps, CpuMemStringOps
  <2>2. CpuMemTyped(s, x) /\ CpuMemStrung(s, i, x, CpuMemDo(CpuMemFree(s), i, CpuMemPages))
    BY <1>4, <2>1, CpuMemStringDoes
  <2> QED  BY <2>1, <2>2 DEF CpuMemStrung, CpuMemAgrees, CpuMemLeft
<1> QED  BY <1>1, <1>2, <1>3, <1>4

\* The invariant.  What is not begun is as it began, and what is begun has done what the
\* property says.
CpuMemInv ==
  /\ CpuMemTypeOK /\ mBefore \in CpuMemState
  /\ mPhase = "ready" => mReg = mBefore
  /\ mPhase # "ready" => mInstr \in CpuMemInstrs
  /\ CpuMemPrecise

LEMMA CpuMemInitInv == CpuMemInit => CpuMemInv
BY CpuMemStartsAssumption DEF CpuMemInit, CpuMemInv, CpuMemTypeOK, CpuMemPrecise

LEMMA CpuMemExecuteInv ==
  ASSUME CpuMemInv, NEW i \in CpuMemInstrs, CpuMemExecute(i)
  PROVE  CpuMemInv'
<1>1. PICK x : x = CpuMemDo(mReg, i, mPresent)
  OBVIOUS
<1>2. /\ mReg' = x.s /\ mPhase' = (IF x.ok THEN "done" ELSE "faulted")
      /\ mInstr' = i /\ mPresent' = mPresent /\ mBefore' = mBefore /\ mPhase = "ready"
  BY <1>1 DEF CpuMemExecute
<1>3. mReg \in CpuMemState /\ mPresent \subseteq CpuMemPages /\ mBefore = mReg
  BY <1>2 DEF CpuMemInv, CpuMemTypeOK
<1>4. PICK u \in CpuMemState : x \in {CpuMemOk(u), CpuMemFault(u)}
  BY <1>1, <1>3, CpuMemDoes DEF CpuMemTyped
<1>5. x.s = u
  BY <1>4 DEF CpuMemOk, CpuMemFault
<1>6. CpuMemTypeOK'
  BY <1>2, <1>3, <1>5 DEF CpuMemTypeOK
<1>7. PICK w : w = CpuMemDo(CpuMemFree(mBefore), i, CpuMemPages)
  OBVIOUS
<1>8. CpuMemLeft(mBefore, i, x, w)
  BY <1>1, <1>3, <1>7, CpuMemDoes
<1>9. IF mPhase' = "done" THEN CpuMemFree(mReg') = w.s
      ELSE IF CpuMemRepeats(i) THEN CpuMemDo(CpuMemFree(mReg'), i, CpuMemPages).s = w.s
           ELSE CpuMemKeeps(mBefore, i.op, mReg')
  <2>1. CASE x.ok
    <3>1. w = CpuMemOk(CpuMemFree(x.s))
      BY <1>8, <2>1 DEF CpuMemLeft
    <3>2. w.s = CpuMemFree(x.s)
      BY <3>1 DEF CpuMemOk
    <3> QED  BY <1>2, <2>1, <3>2
  <2>2. CASE ~x.ok
    <3>1. mPhase' # "done"
      BY <1>2, <2>2
    <3> QED  BY <1>2, <1>8, <2>2, <3>1 DEF CpuMemLeft
  <2> QED  BY <2>1, <2>2
<1>10. CpuMemPrecise'
  BY <1>2, <1>7, <1>9 DEF CpuMemPrecise
<1> QED  BY <1>2, <1>3, <1>6, <1>10 DEF CpuMemInv

LEMMA CpuMemInvNext == CpuMemInv /\ [CpuMemNext]_mVars => CpuMemInv'
<1> SUFFICES ASSUME CpuMemInv, [CpuMemNext]_mVars
             PROVE  CpuMemInv'
  OBVIOUS
<1>1. CASE UNCHANGED mVars
  BY <1>1 DEF mVars, CpuMemInv, CpuMemTypeOK, CpuMemPrecise
<1>2. ASSUME NEW i \in CpuMemInstrs, CpuMemExecute(i)
      PROVE  CpuMemInv'
  BY <1>2, CpuMemExecuteInv
<1> QED  BY <1>1, <1>2 DEF CpuMemNext

LEMMA CpuMemSpecInv == CpuMemSpec => []CpuMemInv
BY CpuMemInitInv, CpuMemInvNext, PTL DEF CpuMemSpec

\* Registers, flags and cells keep to their widths, and the pages to those there are.
THEOREM CpuMemTypeCorrect == CpuMemSpec => []CpuMemTypeOK
<1>1. CpuMemInv => CpuMemTypeOK
  BY DEF CpuMemInv
<1> QED  BY <1>1, CpuMemSpecInv, PTL

\* An instruction that reaches memory is done whole; where it faults it has changed nothing but rsp
\* or the flags, and a repetition stands between two elements: for any number of cells, any size of
\* a page, any pages that are missing or locked and any count.
THEOREM FaultsPrecise == CpuMemSpec => []CpuMemPrecise
<1>1. CpuMemInv => CpuMemPrecise
  BY DEF CpuMemInv
<1> QED  BY <1>1, CpuMemSpecInv, PTL

================================================================================

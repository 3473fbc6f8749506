------------------------------ MODULE UnicornBackend ------------------------------
(***************************************************************************)
(* The CPU backend over the Unicorn engine (packages/ntsim-unicorn/src/     *)
(* backend.mjs): two copies of guest memory, the host's SparseMemory and the *)
(* engine's, the synchronisation of the two around execution, and the pump   *)
(* that starts the engine again after each stop.                            *)
(*                                                                         *)
(* A page holds one value.  Calls do not nest here, and guest paging and the *)
(* truncated aliases are left out.                                          *)
(***************************************************************************)
EXTENDS Naturals

CONSTANTS
  UnPages,     \* pages of guest memory
  UnArena,     \* those in the flat arena, which the engine always has
  UnMarker,    \* the page of the return marker, the backend's own
  UnValues,    \* what is written in a page
  UnChunk,     \* CHUNK_INSTRUCTIONS, with HOOK_STOP_STEP_COST for the unit
  UnMaxSteps   \* the budget of a run, in that unit

ASSUME UnAssumption ==
  /\ UnArena \subseteq UnPages /\ UnMarker \in UnPages \ UnArena
  /\ UnChunk \in Nat \ {0} /\ UnMaxSteps \in Nat \ {0}
  /\ "absent" \notin UnValues

VARIABLES
  unHost,     \* SparseMemory, NotThere for a page that is not materialised
  unUc,       \* the engine's memory
  unMapped,   \* #mapped
  unDirty,    \* #dirty
  unPending,  \* #pendingRip is set
  unFault, unHalted, unSteps,
  unPhase,    \* who is running: "host", "pump", "guest", "hook"
  unKind,     \* the entry point: "run", "call", "until", "step"
  unDone,     \* the marker, the stop address or a breakpoint was reached
  unResumed,  \* resumedFromHook
  unStatus,   \* what the last entry point returned
  unFlat,     \* ghost: one memory, as the interpreter has it
  unLoses     \* ghost: one copy may have been pushed over a write in the other

unMemory == <<unHost, unUc, unMapped, unDirty, unFlat, unLoses>>
unEngine == <<unFault, unHalted, unSteps, unKind, unDone, unResumed, unStatus>>
unVars == <<unMemory, unEngine, unPending, unPhase>>

-----------------------------------------------------------------------------
UnNotThere == "absent"
UnZero == "zero"

UnHostSees(p) == IF unHost[p] = UnNotThere THEN UnZero ELSE unHost[p]

\* A page the engine lacks is mapped when the guest touches it, and filled then.
UnHasPage(p) == p \in unMapped \cup UnArena
UnGuestSees(p) == IF UnHasPage(p) THEN unUc[p] ELSE UnHostSees(p)

\* Guest writes the host does not have.
UnUnpulled == {p \in unDirty : unUc[p] # UnHostSees(p)}

UnInit ==
  /\ unHost = [p \in UnPages |-> UnNotThere] /\ unUc = [p \in UnPages |-> UnZero]
  /\ unMapped = {} /\ unDirty = {} /\ unPending = FALSE
  /\ unFault = FALSE /\ unHalted = FALSE /\ unSteps = 0
  /\ unPhase = "host" /\ unKind = "run" /\ unDone = FALSE /\ unResumed = FALSE
  /\ unStatus = "none"
  /\ unFlat = [p \in UnPages |-> UnZero] /\ unLoses = FALSE

\* #syncIn: every materialised page is pushed over the engine's.
UnSyncIn(host) ==
  LET pages == {p \in UnPages \ {UnMarker} : host[p] # UnNotThere}
  IN /\ unUc' = [p \in UnPages |-> IF p \in pages THEN host[p] ELSE unUc[p]]
     /\ unMapped' = unMapped \cup pages

\* #pullAll pulls what is mapped, #syncOut what is dirty.
UnPull(pages) == unHost' = [p \in UnPages |-> IF p \in pages THEN unUc[p] ELSE unHost[p]]

-----------------------------------------------------------------------------
(* The host, outside of a run or in a handler.                              *)

UnHostTurn == unPhase \in {"host", "hook"}

UnHostWrite(p, v) ==
  /\ UnHostTurn /\ p # UnMarker
  /\ unHost' = [unHost EXCEPT ![p] = v]
  /\ unFlat' = [unFlat EXCEPT ![p] = v]
  /\ UNCHANGED <<unUc, unMapped, unDirty, unLoses, unEngine, unPending, unPhase>>

\* mapRange: the materialised pages of a module are pushed.
UnMapRange(pages) ==
  /\ UnHostTurn /\ UnMarker \notin pages
  /\ unMapped' = unMapped \cup pages
  /\ unUc' = [p \in UnPages |->
                IF p \in pages /\ unHost[p] # UnNotThere THEN unHost[p] ELSE unUc[p]]
  /\ unLoses' = (unLoses \/ UnUnpulled \cap pages # {})
  /\ UNCHANGED <<unHost, unDirty, unFlat, unEngine, unPending, unPhase>>

\* The host sets rip: it stays pending until the engine is started.
UnSetRip ==
  /\ UnHostTurn
  /\ unPending' = TRUE
  /\ UNCHANGED <<unMemory, unEngine, unPhase>>

UnReset ==
  /\ unPhase = "host"
  /\ unSteps' = 0 /\ unFault' = FALSE /\ unHalted' = FALSE
  /\ unStatus' = "none"
  /\ UNCHANGED <<unMemory, unPending, unPhase, unKind, unDone, unResumed>>

-----------------------------------------------------------------------------
(* The entry points.                                                        *)

UnBegin(kind) ==
  /\ unPhase = "host" /\ unPhase' = "pump"
  /\ unKind' = kind /\ unDone' = FALSE /\ unStatus' = "none"
  /\ UNCHANGED <<unDirty, unHalted, unSteps, unResumed, unLoses>>

\* run and runUntilStop: a fault left over stays, and ends them at once.
UnRun ==
  /\ \E kind \in {"run", "until"} : UnBegin(kind)
  /\ UnSyncIn(unHost)
  /\ UNCHANGED <<unHost, unPending, unFault, unFlat>>

\* callFunction: the frame is written on the stack, in page p; then all is pushed.
UnPrologue(p, v) ==
  LET host == [unHost EXCEPT ![p] = v]
  IN /\ UnBegin("call")
     /\ p # UnMarker
     /\ unHost' = host /\ unFlat' = [unFlat EXCEPT ![p] = v]
     /\ UnSyncIn(host)
     /\ unPending' = TRUE

UnCall(p, v) == UnPrologue(p, v) /\ unFault' = FALSE

\* stepInsn: one instruction, from rip; a pending rip is read and dropped.
UnStepInsn ==
  /\ UnBegin("step")
  /\ UnSyncIn(unHost)
  /\ unPending' = FALSE
  /\ UNCHANGED <<unHost, unFault, unFlat>>

\* The pump goes round while nothing stops it; a step is one instruction.
UnGoesOn ==
  IF unKind = "step" THEN ~unDone
  ELSE ~unDone /\ ~unHalted /\ ~unFault /\ unSteps < UnMaxSteps

\* A pending rip is taken for a stop in which the host may have written, and
\* everything is pushed, over what the guest has written too.
UnStart ==
  /\ unPhase = "pump" /\ UnGoesOn
  /\ unPhase' = "guest"
  /\ unResumed' = unPending /\ unPending' = FALSE
  /\ IF unPending THEN UnSyncIn(unHost) ELSE UNCHANGED <<unUc, unMapped>>
  /\ UNCHANGED <<unHost, unDirty, unFlat, unLoses, unFault, unHalted, unSteps, unKind, unDone,
                 unStatus>>

\* Dirty pages are pulled.  stepInsn throws on a fault before it clears halted.
UnReturns ==
  /\ unPhase = "pump" /\ ~UnGoesOn
  /\ unPhase' = "host"
  /\ UnPull(unDirty) /\ unDirty' = {}
  /\ unHalted' = (unHalted /\ (unKind # "step" \/ unStatus = "fault"))
  /\ unPending' = (unPending /\ unKind # "step")
  /\ unStatus' =
       CASE unStatus = "fault" -> "fault"
         [] unStatus # "fault" /\ unKind = "step" -> "stepped"
         [] unStatus # "fault" /\ unKind # "step" /\ unDone -> "reached"
         [] OTHER -> IF ~unHalted /\ unSteps >= UnMaxSteps THEN "timeout"
                     ELSE IF unHalted \/ unKind = "call" THEN "halted"
                     ELSE IF unKind = "run" THEN "ok" ELSE "timeout"
  /\ UNCHANGED <<unUc, unMapped, unFlat, unLoses, unFault, unSteps, unKind, unDone, unResumed>>

-----------------------------------------------------------------------------
(* The guest, and what stops the engine.                                    *)

\* The write hook notes one page, also of a store that reaches into the next.
UnGuestWrite(pages, noted, v) ==
  /\ unPhase = "guest" /\ \A p \in pages : UnHasPage(p) /\ p # UnMarker
  /\ unUc' = [p \in UnPages |-> IF p \in pages THEN v ELSE unUc[p]]
  /\ unFlat' = [p \in UnPages |-> IF p \in pages THEN v ELSE unFlat[p]]
  /\ unDirty' = unDirty \cup {noted}
  /\ unLoses' = (unLoses \/ ~(pages \subseteq unDirty'))
  /\ UNCHANGED <<unHost, unMapped, unEngine, unPending, unPhase>>

\* A stop that completes nothing is charged: little after a pending rip, else a chunk.
UnCharge(charged) ==
  LET left == UnMaxSteps - unSteps
  IN IF ~charged \/ unKind = "step" THEN 0
     ELSE IF unResumed THEN 1
     ELSE IF UnChunk < left THEN UnChunk ELSE left

UnStops(charged) ==
  /\ unPhase = "guest" /\ unPhase' = "pump"
  /\ unDone' = (unKind = "step")
  /\ unSteps' = unSteps + UnCharge(charged)
  /\ UNCHANGED <<unHost, unDirty, unFlat, unKind, unResumed>>

UnChunkEnds ==
  /\ UnStops(TRUE)
  /\ UNCHANGED <<unUc, unMapped, unLoses, unPending, unFault, unHalted, unStatus>>

\* An access to a page the engine lacks maps a page of zeros.  The instruction is
\* started again from a pending rip, except by stepInsn, to which it is a fault.
UnUnmapped(p) ==
  LET step == unKind = "step"
  IN /\ UnStops(TRUE) /\ ~UnHasPage(p) /\ p # UnMarker
     /\ unMapped' = unMapped \cup {p} /\ unUc' = [unUc EXCEPT ![p] = UnZero]
     /\ unPending' = TRUE
     /\ unFault' = (unFault \/ step)
     /\ unStatus' = IF step THEN "fault" ELSE unStatus
     /\ unLoses' = (unLoses \/ (~step /\ UnUnpulled # {}))
     /\ UNCHANGED unHalted

\* int3: the pump sets rip past it.  stepInsn has it for a fault.
UnBreak ==
  /\ unKind # "step" /\ UnStops(TRUE)
  /\ unPending' = TRUE
  /\ unLoses' = (unLoses \/ UnUnpulled # {})
  /\ UNCHANGED <<unUc, unMapped, unFault, unHalted, unStatus>>

UnFaults ==
  /\ UnStops(TRUE)
  /\ unFault' = TRUE /\ unStatus' = "fault"
  /\ UNCHANGED <<unUc, unMapped, unLoses, unPending, unHalted>>

UnHlt ==
  /\ UnStops(FALSE)
  /\ unHalted' = TRUE
  /\ UNCHANGED <<unUc, unMapped, unLoses, unPending, unFault, unStatus>>

-----------------------------------------------------------------------------
(* Code hooks: those of APIs, of the marker, of a stop and of breakpoints.  *)

\* Mutant: nothing is pulled before the handler.
UnHookUnpulled ==
  /\ unPhase = "guest" /\ unPhase' = "hook"
  /\ UNCHANGED <<unMemory, unEngine, unPending>>

\* Every mapped page is pulled; pages of the arena nobody mapped are not among them.
UnHook ==
  /\ unPhase = "guest" /\ unPhase' = "hook"
  /\ UnPull(unMapped \ {UnMarker})
  /\ UNCHANGED <<unUc, unMapped, unDirty, unFlat, unLoses, unEngine, unPending>>

\* The handler takes the address: all is pushed, and the engine stops.
UnHookTakes(done) ==
  /\ unPhase = "hook" /\ unPhase' = "pump"
  /\ UnSyncIn(unHost)
  /\ unDone' = (done \/ unKind = "step")
  /\ unSteps' = unSteps + UnCharge(~done)
  /\ UNCHANGED <<unHost, unDirty, unFlat, unLoses, unPending, unFault, unHalted, unKind,
                 unResumed, unStatus>>

\* It declines, having left rip alone: the guest goes on, without what it wrote.
UnHookDeclines ==
  /\ unPhase = "hook" /\ ~unPending /\ unPhase' = "guest"
  /\ unLoses' = (unLoses \/ \E p \in UnPages : \/ UnGuestSees(p) # unFlat[p]
                                               \/ unHost[p] # UnNotThere /\ p \notin unMapped)
  /\ UNCHANGED <<unHost, unUc, unMapped, unDirty, unFlat, unEngine, unPending>>

\* The handler or the engine throws.  The pump takes it for a fault, and what is dirty
\* will be pulled over what the handler wrote; stepInsn throws on, pulling nothing.
UnThrows ==
  LET step == unKind = "step"
  IN /\ unPhase \in {"guest", "hook"}
     /\ unPhase' = IF step THEN "host" ELSE "pump"
     /\ unFault' = TRUE /\ unStatus' = "fault"
     /\ unLoses' = (unLoses \/ IF step
                               THEN \E p \in UnPages \ {UnMarker} : UnHostSees(p) # unFlat[p]
                               ELSE \E p \in unDirty : unUc[p] # unFlat[p])
     /\ UNCHANGED <<unHost, unUc, unMapped, unDirty, unFlat, unPending, unHalted, unSteps,
                    unKind, unDone, unResumed>>

UnNext ==
  \/ \E p \in UnPages, v \in UnValues : UnHostWrite(p, v) \/ UnCall(p, v)
  \/ \E p \in UnPages : UnMapRange({p}) \/ UnUnmapped(p)
  \/ UnSetRip \/ UnReset \/ UnRun \/ UnStepInsn \/ UnStart \/ UnReturns
  \/ \E p, q \in UnPages, v \in UnValues : UnGuestWrite({p, q}, p, v)
  \/ UnChunkEnds \/ UnBreak \/ UnFaults \/ UnHlt
  \/ UnHook \/ UnHookDeclines \/ UnThrows \/ \E done \in BOOLEAN : UnHookTakes(done)

UnSpec == UnInit /\ [][UnNext]_unVars

-----------------------------------------------------------------------------
UnTypeOK ==
  /\ unHost \in [UnPages -> UnValues \cup {UnZero, UnNotThere}]
  /\ unUc \in [UnPages -> UnValues \cup {UnZero}] /\ unFlat \in [UnPages -> UnValues \cup {UnZero}]
  /\ unMapped \subseteq UnPages /\ unDirty \subseteq UnPages \ {UnMarker}
  /\ unSteps \in Nat /\ {unPending, unFault, unHalted, unDone, unResumed, unLoses} \subseteq BOOLEAN
  /\ unPhase \in {"host", "pump", "guest", "hook"} /\ unKind \in {"run", "call", "until", "step"}
  /\ unStatus \in {"none", "fault", "stepped", "reached", "timeout", "halted", "ok"}

(* Whoever runs, the host, the guest or a handler, finds every write of the      *)
(* others before it, over any number of runs, hooks and pushes, until one of the *)
(* cases unLoses names happens: a stop on int3 or on an unmapped page with guest *)
(* writes not pulled yet, a store into two pages, a handler that writes and      *)
(* declines, one that writes a page the guest had written and throws, a throw    *)
(* out of stepInsn.  A handler may miss writes in arena pages nobody mapped.     *)
UnCoherent ==
  ~unLoses =>
    \A p \in UnPages \ {UnMarker} :
      /\ unPhase = "host" => UnHostSees(p) = unFlat[p]
      /\ unPhase = "hook" /\ p \in unMapped => UnHostSees(p) = unFlat[p]
      /\ unPhase = "guest" => UnGuestSees(p) = unFlat[p]

(* A call that reports "halted" did stop on a hlt: a fault of an earlier call    *)
(* does not pass for one (the comment in callFunction).                          *)
UnCallStatusTrue ==
  unPhase = "host" /\ unKind = "call" /\ unStatus = "halted" => unHalted

\* What the host gets from the engine: memory that is coherent, and the outcome of
\* a call that is its own.
UnHandsBack == UnCoherent /\ UnCallStatusTrue
=============================================================================

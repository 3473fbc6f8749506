# A TLA+ model of kernelforge-ntsim

kernelforge-ntsim simulates a Windows NT kernel (and, in a smaller package, a
Linux one) in JavaScript, far enough to run real driver code on an interpreted
or emulated CPU and watch what it does. Everything runs in one JavaScript
thread. The concurrency is that of a kernel with callbacks: a kernel loop calls
a guest routine in the middle of an iteration, the routine calls exported
functions that change the data the loop iterates over, and the loop goes on with
what it read before the call. The other half of the difficulty is state kept twice:
tables and their windows, two engines, two copies of memory, a list and the table
beside it, a register and the log of what was done to it.

The modules below model that core, TLC checks them on small instances, and TLAPS
proves the invariants of most of them for every instance: the deferred-execution core,
IRPs, the run loop and the hand-off between the engines, the copies of memory under
Unicorn, SMM, the system-call registers, process callbacks, the pool, handles and
containers, the export table, and the calls, rings and loader of the Linux simulator.

## The system and its parts

| Part | State it keeps | What makes it hard | Module |
|---|---|---|---|
| Deferred execution (`kernel.mjs`, Ke thunks of `winapi.mjs`) | DPC queue, timer list, work items, APCs, threads, IRQL per core, clock, mini-PatchGuard | loops over queues their own routines change | `Dispatcher` |
| I/O requests (`devices.mjs`, Io thunks of `winapi-ext.mjs`) | IRPs, stack locations, device stacks, the last completed IRP | dispatch, completion and deferred routines that nest and re-enter | `Irp` |
| Guest paging (`paging.mjs`: `Mmu`, `TranslatedMemory`) | page tables in memory, a cache of translations, a frame allocator | a cache that is never told what changed, demand mapping in the middle of an access | `Mmu`, `AddressSpace` |
| `PageTableSpace` (`paging.mjs`) | structure frames and their alias windows | two copies of each table; processes share frames and windows | `PageTableSpace` |
| Callbacks (`notify.mjs`, `callbacks.mjs`) | five lists of callbacks, the Ex set, cookies | callbacks that register and remove callbacks while an event is delivered | `Callbacks` |
| CPU interpreter (`cpu.mjs`) | registers, flags, TF and the MOV SS window, `stopOnRip`, the fault frame | widths and carries at their edges; faults in the middle of an instruction; calls that nest, fault and are resumed | `Cpu`, `CpuDecode`, `CpuMem`, `CpuRun` |
| Hybrid CPU backend (`hybrid.mjs`) | two register files, the active engine | one engine gives up in the middle of nested calls | `Hybrid` |
| Unicorn CPU backend (`backend.mjs`) | two copies of memory, the dirty and the mapped pages | who wrote last, over stops, hooks, throws and restarts | `UnicornBackend` |
| Exceptions (`seh.mjs`) | the context a search is at | undoing prologues in the middle, chained entries, filters | `Seh` |
| SMM (`smm.mjs`) | SMRAMC and its lock, the latch of SMIs, save areas, SMBASE | a lock that must be sticky, an area that moves | `Smm` |
| MSRs and descriptor tables (`msr.mjs`) | the register file, intercepts, IDT and GDT | writes, intercepts and two oracles in any order | `ArchState` |
| Integrity (`integrity.mjs`), process list (`kernel.mjs`) | the links of processes in guest memory, `PspCidTable` | four writes that come half done and in any order | `ProcessList` |
| Exported API surface (`kernel.mjs`, `ssdt.mjs`, `MmGetSystemRoutineAddress`) | thunks, what serves each, detours, the service table, the trace | implementations that call the guest, which calls the next export | `ApiTable` |
| Pool (`kernel.mjs`, `linux-kernel.mjs`) | blocks with headers and guards, the bump pointer | 32-bit rounding, jitter, writes past the end, double frees | `Pool` |
| Handles and registry (`winapi*.mjs`) | two tables of handles, the virtual registry, its write log | closes that forget one table, keys made up on the way, spellings | `Handles` |
| Guest containers (`winapi*.mjs`) | list and SLIST links in guest memory, queues and generic tables | an index kept by the caller while elements come and go | `GuestLists` |
| Linux registrations (`linux-api.mjs`, `file-ops.mjs`) | devices, misc devices, hooks of four kinds, descriptors | two registries of one thing | `LinuxRegistry` |
| Linux calls (`linux-kernel.mjs`) | hooks on the return marker, the stop, the stack pointer, steps per engine | three back ends, each with the stop, the fault and the halt of earlier calls | `LinuxCalls` |
| Linux module loader (`module-loader.mjs`) | section addresses, memory, relocations | a second module at the base of the first | `KoLoader` |
| io_uring (`linux-api.mjs`, `file-ops.mjs`) | submission and completion ring, heads and tails | asynchronous drives that share a ring with each other and the guest | `IoUring` |
| Bugcheck and dump state, PE and symbol parsing, system queries, tracing, assets | | sequential code over byte formats, or reports | not modelled, see the end |

How they interact: the host (debugger, analyzer, lab) calls `NtKernel` methods
(`sendIrp`, `advanceTicks`, `drainDeferred`, `fire*`). These call guest routines
with `cpu.callFunction`. The CPU hits API thunks (`ApiTable`), whose JavaScript
implementations (`winapi*.mjs`) change the kernel's lists, and may call the guest again.
The engine is the interpreter, Unicorn, or the hybrid, which begins with the first and
hands over to the second. A call that faults is dispatched by `seh.mjs`, whose filters are
calls of their own and may resume it. Every guest access to memory goes through
`TranslatedMemory` when paging is on, and past the guard of SMRAM.
`noteBugcheck` halts the CPU, after which guest routines return at once. The Linux
simulator has a kernel object of its own and shares only the CPU and the memory.

## The modules

Names of most modules carry a prefix (`Smm...`, `Pt...`), so that several can be checked in one
run. An action is named after the function of the source where there is one.

### Dispatcher

`Dispatcher.tla` has one action per Ke thunk, host call and loop iteration. A
guest routine is on the CPU while `running` is not `"none"`; as long as it is,
every guest call (`KeInsertQueueDpc`, `KeSetTimer`, `RaiseIrql`, ...) may happen,
and a further step (`TimerReturns`, `RoutineReturns`, ...) resumes the loop. The
loops are `advanceTicks` (timers, then DPC retirement, then PatchGuard) and
`drainDeferred` (DPCs, work items, APCs, threads, in passes); `loop` says which stage is in
progress, and `sweep`, `batch`, `workBatch`, `apcBatch` and `threadBatch` are the copies the
code has made. `MaxQueued` bounds work items, APCs and threads together.

* Times are relative to the clock (`due` is `dueTick - tickCount`, `nextIn` is
  `nextSweep - tickCount`), so the clock needs no bound; `MaxLag` cuts off times
  that are further in the past.
* `pendingDpcs` is the array of the code, which is never shortened: records are
  marked `drained`. Ghosts: `runs` and `withdrawn` of a record, `armed` (timers
  set and neither cancelled nor expired), `driftAge` (ticks since PatchGuard could
  have seen the patch).
* Protected memory is abstracted to one bit, `drift`: it differs from its pristine
  bytes or not.

### Irp

`Irp.tla` models `sendIrp`, `IofCallDriver`, `completeIrp` and the location
helpers. `calls` is the stack of routines and loops in progress; `completeIrp`'s
loop is an entry of it, because a completion routine can complete, forward or
allocate IRPs before it returns. Locations number the stack array from 0, and
location -1 is the memory of the IRP header below it, where the simulator's
helpers really move the pointer.

### Mmu and AddressSpace

`AddressSpace.tla` is what paging promises: address spaces that map pages to
frames, accesses that reach the mapped frame or fault, pages mapped on demand to
a frame nobody else has. `Mmu.tla` is the detailed model: tables in memory, the
walk, the cache with its limit, the frame allocator, `ensureRange` in the middle of
an access, large pages, address-space switches. `Mmu` implements `AddressSpace`
under the mapping at its end: `maps` is what a walk of each space's tables gives,
`data` the words programs wrote, and the cache is invisible.

Abstractions: two indices and two levels instead of 512 and 4 in the instances
(the module takes up to four levels); accessed and dirty bits, which `mapPage`
always sets and so never change; the SMRAM guard. Two actions model the labs and
tests that write large pages and CR3 by hand, since the sources do not. `mapPage` and
`unmap` do not look at PS, so the model does not map a single page under a large
page, which nothing in the sources does.

### Callbacks

`Callbacks.tla` has the registration and removal functions of the five kinds of
callbacks and one loop that delivers an event, one callback at a time. The loops of
the code differ in one thing, and the model keeps it: the process loop goes over a
copy of the list, the thread, image and object loops over the list itself (an
index into an array that may shrink or grow), the registry loop over the list until
a removal replaces it by a new array. `processEx` is the set that decides a process
routine's arguments. A routine may fault, which is a status like another (`Returns`), or an
API it calls may throw in the host (`Throws`): the process loop catches that and goes on without
reading `CreationStatus`, the other events are given up. Ghosts: `stayed` (callbacks registered
since the event began), `reached`, `unread` (a routine threw whose verdict nobody has read since).
Of the information blocks only `CreationStatus` is kept.

### Hybrid and UnicornBackend

`Hybrid.tla` models the two engines by their `rip`, guest functions by sequences of
instructions (plain, calling an API, refused by the interpreter; with or without
prefixes), and calls by a stack of frames, since an API may call the guest again.
`Handoff` is `#maybeHandoff` with what `run` and `callFunction` do after it.

`UnicornBackend.tla` is the wrapper under it: `SparseMemory` (`unHost`) and the engine's memory
(`unUc`), the pages mapped and dirty, and the pump that starts the engine again after every
chunk, hook and stop. `UnSyncIn` and `UnPull` are the two directions of the synchronisation,
`unFlat` the one memory the interpreter would have. A page holds one value. A handler or the
engine may throw (`UnThrows`): the pump takes that for a fault, and `syncOut` then pulls what is dirty
over what the handler wrote; out of `stepInsn` the throw goes on to the caller, and nothing is pulled.
`unLoses` becomes true where the code can lose a write: a stop on int3 or on an unmapped page with
writes not pulled, a store into two pages, a handler that writes and declines, and the two throws;
up to then both sides must see `unFlat`.
Calls do not nest here, and guest paging and the truncated aliases are left out.

### Cpu, CpuDecode, CpuMem, CpuRun

The interpreter in four parts. `Cpu` has the integer instructions beside what the architecture
says of each (`Arch...`, written independently: one bit at a time for shifts, on integers of
double width for products). A byte has `CpuByte` bits, so that the widths of 1, 2, 4 and 8 bytes
shrink together and every masking of a count stays what it is. `CpuMisses` lists, for each
instruction, the parts of the result in which the interpreter deviates; everything else must be
equal. `CpuDecode` has prefixes and ModRM/SIB operands beside what the encoding means, with the
same kind of list, and the immediate behind the operand, since an operand relative to RIP depends
on when it is resolved. `CpuMem` has the instructions that reach memory, with pages that fault in the
middle, and what a fault leaves; cells are as large as operands. Nothing is started again there: a
page fault carries the data address as its rip (`paging.mjs:55`), the search for a handler begins at
it (`seh.mjs:324`), and finds no function and no filter.
`CpuRun` is `run`, `step` with its gate and hooks, `callFunction` and `resumeFromFault`:
an instruction is one of a few kinds, `rip` is code, a breakpoint or the marker, and
`runHandled` is what `callFunctionSeh` of `kernel.mjs` is dispatching. Floating point and SSE,
CPUID, port and descriptor instructions are left out.

### Seh

The function table of an image, the calls that build a stack (prologues one step at a time), and
the search that undoes them: unwind codes by the offset reached, chained entries, frame pointers,
scopes in order, filters that continue, search on or execute. One callee-saved register stands
for all. The calls themselves are the reference: `SehSearchFollowsCalls` says the search looks at
frame k exactly where call k is. Tables are as a compiler and a linker leave them (`SehImage`):
entries apart, chained ones listed and one link deep, and a prologue that sets a frame register has
pushed it before and only makes room after. XMM registers, machine frames and the parsing of the unwind
bytes are left out.

### Smm and ArchState

`Smm.tla` has the config ports, SMRAMC with its lock, the latch of port B2, the entry into SMM
with the save area, the handler (which may change the saved context and SMBASE), RSM, and a
throw out of the handler. A context stands for all registers. `smmSealed` remembers that SMRAM
was locked closed before ring 0 patched a handler.

`ArchState.tla` has WRMSR with intercepts and the refusal under memory integrity, IDT and GDT
entries, and the two oracles that look for a redirected system call: the scan against the
baseline and the probe.

### ProcessList and ApiTable

`ProcessList.tla` has the links the bootstrap writes, single writes of a driver in any order,
the unlinking helper, the table of ids and the scan. `PlIsRing` is the reference: some order of
the seeded processes in which the links close.

`ApiTable.tla` has two halves. One is the table: imports, `MmGetSystemRoutineAddress`,
stubs, shallow exports, models, services and detours, with what the reports list. A service table
that is given a name nobody has defines a thunk for it, from what it is passed or as a default that
returns 0 and that no report lists (`AtAddService`). The other half is the code hook that serves a
call, with implementations that call the guest, which calls an API again. A throw of the host leaves
all calls down to some depth (`AtThrows`); a fault inside a guest call is a status to the
implementation around it, which goes on.

### Pool, Handles, GuestLists

`Pool.tla` is both kernels' bump allocator, in cells of 8 bytes: headers, guards, jitter,
rounding with 32-bit operators (`HpSigned`), `krealloc`, frees and their bugcheck in strict mode,
and the routines that move bytes, which are how a driver writes past a block. `hpForeign` are
the cells a driver wrote.

`Handles.tla` has registry handles with the write log and what `ZwOpenKey` makes up, and process
handles in their two tables, with protection switched on in between. A key is its name as it is
spelled (`HnFold` forgets the case): `ObOpenObjectByName` gives a handle on the spelling of the caller,
and a set through it is logged and stored nowhere (`hnStray`). The list of keys made up has room for
`HnAutoLimit` (128 in the code), and does not have the keys above one, those with `services` in
their name, that are made with it (`HnAbove`). The process with pid 4 (`HnSystem`) is opened although
protected. `GuestLists.tla` has
`LIST_ENTRY` rings and SLISTs as words in guest memory (entries keep stale links), KQUEUEs,
and generic tables with an enumeration in progress; the model removes an entry only from the
container it is in, and inserts it only in one.

### PageTableSpace

Every table is in a frame (`ptPhys`) and in a window (`ptAlias`). `createProcess` and
`mapPage` go through several steps, any of which may throw and leave what was done; walks copy
what the windows hold to the frames first. Edits by hand go to either copy. `ptExpected` is the
frame each page should reach.

### LinuxRegistry, LinuxCalls, KoLoader

`LinuxRegistry.tla` has the registrations of devices, misc devices, ftrace, kprobes, tracepoints
and eBPF programs, their removals, and `getAllHarvestedOps` with what driving an entry calls.
`tracepoint_probe_unregister` succeeds and removes nothing; `lxLeft` has the hooks that so stay.
Removals and the harvest filter arrays; `Kept.tla` has what `Array.prototype.filter` returns, as a
recursive function, for them and for the removals of `Callbacks`.
`LinuxCalls.tla` is `callLinuxFunction` on the three back ends, with returns, faults, traps, int3, hlt
and budgets, and the hook on the thunks. What an engine keeps between calls is kept: `lastDebugStop`
of the interpreter is never cleared, so that an int3 in a later call ends it, and the hybrid has none,
so that it reports no debug stop; `halted` stays; and so does the fault of Unicorn, with which
`callLinuxFunction` runs in circles (`LcSpin`). A return under Unicorn or the hybrid meets the hook on
the marker over and over until the budget is used up, so that the calls after it time out. Breakpoints of a
debugger are not modelled. `KoLoader.tla` is the loading of a
relocatable module: the placing of sections one by one, then relocations; addresses
count words of 8 bytes and a field of 32 bits distinguishes `KoRange` of them.

### IoUring

`IoUring.tla` is one ring. `sendFileOp` is the one place of the modelled code where
JavaScript itself waits: it writes its entries and the tail (`DriveBegins`), waits for
an import, and only then reads head and tail and submits what is between them
(`DriveSubmits`). Another drive, guest code that queues entries, and `io_uring_enter` may
come in between. A submission is a number, given out in the order they are written, and its
completion carries that number. In `reorder` mode the completions of a batch come in any
order; the shuffle of the code is one of them. Ghosts: `posted`, every completion in
order, and `driven`, what drives have completed. What a submission does and returns is left
out, and so are inputs longer than the ring, which the code writes past its end.

## What TLC checks

A run of several modules (`engines`, `machine`, `kernels`) composes them in one MC module with a
variable `focus` (`chosen` in `engines`): the components share no variable and every property
reads one of them, so a behaviour moves one component and leaves the others as they began. The state spaces add instead
of being multiplied, and nothing a property can tell apart is lost. `irp` does the same for its
two scenarios with `only`.

| Run | Question | Instance | States |
|---|---|---|---|
| `dispatcher_queues` | Is a DPC queued and delivered once, and the timer list consistent with what was set, although routines set, cancel and re-arm timers inside the loops? | 1 DPC, 2 timers, 1 secondary core, periods 0 and 1, 2 DPC records, 2 timer records, 2 expirations per loop, 2 passes | 3,537,000 |
| `dispatcher_clock` | Does PatchGuard catch each patch that lasts a window, however the clock jumps? Does every loop return? | 1 DPC, 1 timer, a level above DISPATCH_LEVEL, ticks 1 and 3, period 2, phase 3, 1 work item, APC or thread | 734,000 |
| `irp` | Does `CurrentIrp` outlive its dispatch routine, does `completeIrp` leave the stack array, is a pended IRP reported finished only if its own drain completed it? | 2 devices, an IRP of up to 2 locations, depth 3; or 1 device and 2 pended IRPs, depth 2 | 915,000 |
| `paging` | Is the cache coherent, and do tables, walk and cache implement `AddressSpace`? | 2 x 2 pages, one of them in the identity range, a non-canonical page, a cache of 1 entry, 5 frames, 2 spaces | 61,000 |
| `engines` | Does `run` continue where the interpreter stopped? Is a debug exception ever lost, is `stopOnRip` put back, and does every call end? | all guest functions of one or two instructions, 3 calls deep; the run loop with a budget of 2 steps, 2 calls deep | 267,000 |
| `machine` | Instructions and addresses against the architecture, faults in the middle, Unicorn's copy of memory, page-table windows, SMRAM, handler search, scans, callbacks | 2-bit bytes; 4 memory cells in 2 pages; 3 pages with a copy; 3 levels of 3 entries, 2 processes, 5 frames, 1 edit; 2 SMBASEs, 2 SMIs; 2 images of 3 functions; 3 processes, 3 writes; 2 MSRs, 4 writes; 2 routines, 2 registered at once | 766,000 |
| `kernels` | Containers, handles, pool, exports, registrations, calls, module files, io_uring: what each keeps beside what the driver did | 3 entries; 3 keys, one spelled in two ways, a log of 3, a list of 1; 2 processes, one with pid 4; 3 blocks, sizes 1 and 2, jitters 0 and 2; calls 2 deep; 3 registrations; 2 calls of 5 steps; 2 or 3 sections, 1 relocation; 2 drives, a ring of 2, 5 submissions, 4 completions | 1,062,000 |
| `rearmed_timer`, `irp_routine_skipped`, `ob_callback_skipped`, `hybrid_handoff`, `cpu_misexecutes` | Promises of comments that fail: see below | the smallest that shows it | |

Several properties are conjunctions of parts that are about one thing and read together:
`TypedInArray` and `TypedCoherent` (types with `CompletionInArray`, `TlbCoherent`),
`InterpreterExact` (`CpuExact` and `DecExact`), `UnHandsBack` (memory and the status of a call),
`HnExact` (log and handles), `GlContainersExact` (links and enumeration), `AtReportsTrue` (lists,
scans, calls) and `EnginesTypeOK`, `MCTypeOK` (the type invariants of a composition).

What the properties of the compositions say:

* `PtTablesKept`: no process loses a page or its top table by what others map, fail to map, or
  edit in their own windows.
* `SmmSealHolds`, `SmmResumes`: once SMRAM is locked closed over good handlers, no order of
  config writes, SMIs and relocations gets ring 0 to one (turning decoding off excepted, which the
  lock of the code does not cover); RSM resumes what its SMI interrupted.
* `InterpreterExact`: results, operands and the length of immediates are the architecture's outside
  `CpuMisses` and `DecMisses`. `CpuMemPrecise`: an instruction is done whole, or has changed nothing
  but `rsp` or flags when it faults; a repetition stops between two elements, with the rest to do.
* `SehSearchFollowsCalls`: no frame is skipped or looked at twice.
* `PlScanExact`: the scan accepts exactly the rings of the seeded processes. `ArOraclesAgree`:
  scan and probe agree unless a hypervisor stands between them.
* `UnHandsBack`: host, handlers and guest find each other's writes, up to the first loss that
  `unLoses` names.
* `EveryRoutineNotified`, `BlockedIsFinal`: a routine that stays registered is called, unless one before
  it refuses or throws out of the loop, and a refused process creation stays refused, unless the routine
  that refused threw in the host and its verdict was not read.
* `RunOrderly`, `RunEnds`: the trap of an armed instruction is not lost behind MOV SS, `stopOnRip`
  is put back through faults and resumptions, and every call ends.
* `GlContainersExact`: the two directions of a ring agree, and an enumeration during which nothing is
  deleted gives every element; with deletions it may pass one by (`winapi-extra.mjs:780`).
* `HnExact`: until it is full the write log tells what the driver did, but for sets through a spelling
  that is no key; keys come from somewhere, and those made up are listed while there is room; closed
  handles stay closed, and nobody but pid 4 is written to who was protected when opened.
* `HpGuardsTell`: a block is reported exactly when the driver wrote past it, for sizes below 2^31.
* `AtReportsTrue`: an export without a model is listed once and for what it is, except for the defaults of a
  service table, which are in no list; scan and trace are true; and the return address of every call in
  progress stays where its caller put it.
* `LxHarvestTells`: a hook that is held is harvested once and driven right, and one that was removed is
  not harvested, but for tracepoints, which stay.
* `LcOutcomeTrue`: "ok" and fault are reported exactly when they happened, on every back end; a debug stop
  only by the interpreter with one remembered, "halted" only by one that has met hlt, in this call or an
  earlier one; a timeout only with the budget used up.
* `KoImageWhole`: sections do not overlap, unpatched words are the file's, and patched ones lead where their symbol is. `RingHoldsLog`, `DrivenOnce`: no completion is overwritten by
  another writer of the ring, and no submission is driven twice.

Why these bounds: every hazard listed in `PROJECT.json` needs two actors (two timers, a
timer and a driver that share a DPC, two IRPs, two callbacks, two engines, two processes) and one
re-entry, and the instances have that with room for a third step. The caps the code
has (64 expirations, 8 passes, 4096 cached translations, 16 frames of a search, 512 processes of
a walk) are constants, set so low that they are reached; the proofs do not depend on their values.
Bounds the code does not have are named `Max...` and marked `bound:` in the constants. For the
arithmetic, a byte of 2 bits leaves widths of 2, 4, 8 and 16 bits, in which each operand edge
(0, 1, the sign bit, all ones) and counts on both sides of the width occur.

Deadlock is checked for `Dispatcher` and in the violation runs that do not say otherwise. It is
switched off where the bounds stop the system: IRPs, frames, submissions, allocations, writes and
calls run out, and the instruction modules execute one instruction from each start.

Fairness is stated twice. `Dispatcher` (`LoopsReturn`) has weak fairness of the loop's own steps
and of the return of the routine on the CPU. The first is plain JavaScript between two calls. The
second holds because `cpu.run` stops at a step budget and `callFunction` then comes back with a
status, which the loops treat like any other return. `CpuRun` (`RunEnds`) has weak fairness of the
loop of `run`, plain JavaScript too, and strong fairness of an API's return or throw and of the end
of a dispatch, at each depth: an implementation makes finitely many calls, and each of them returns
the turn to it. Guest calls and host calls are not fair, and nothing forces `reset`, which is the
only step that gives steps back.

Each property of a passing run has a faulty variant of one definition, marked `Fault:` or
`Mutant:` beside the definition it would replace; TLC refutes the property for it under the same
configuration.

### Where the code does not do what it says

* `rearmed_timer`: a one-shot timer that its own routine sets again is taken off the
  list when the routine returns (`kernel.mjs:1072`), and never fires.
* `irp_routine_skipped`: `IoCopyCurrentIrpStackLocationToNext` moves the current location
  down and the completion routine set there is not visited (`devices.mjs:507`).
* `ob_callback_skipped`: an object callback that unregisters itself makes the loop pass over
  the next registration (`callbacks.mjs:70`). Thread and image routines are exposed to the
  same; process routines and registry callbacks are not, which `machine` shows.
* `hybrid_handoff`: Unicorn starts behind the prefixes of the instruction the interpreter
  refused (`cpu.mjs:499`), and in `callFunction` at the start of the function, so that API
  calls made before the hand-off happen twice (`hybrid.mjs:304`).
* `cpu_misexecutes`: the condition "less" holds of equal numbers (`cpu.mjs:443`), against
  "never silently misexecute" (`cpu.mjs:5`).

Smaller disagreements the modules follow without a run of their own:

* The IRQL that masks timers and DPCs is read once per loop (`kernel.mjs:1033`, `1078`); the status
  completion routines are invited by is read before the first of them (`devices.mjs:490`).
* Attaching two devices over one target gives both the same lower device, against "the device at
  the TOP" (`winapi-ext.mjs:132`). Detaching from a
  nested attachment clears the index and the saved process of the outer one (`winapi-ext.mjs:406`).
* A process routine registered twice the Ex way and removed once is called with the legacy
  arguments (`notify.mjs:116`).
* A drive of an io_uring sets the tail to the number of its own entries while the head counts all
  that were submitted, so the second drive submits fewer than it wrote (`file-ops.mjs:286`), and
  `io_uring_enter` never moves the head and completes the same entries again
  (`linux-api.mjs:499`).
* The scan of the process list says it verifies that the first Blink is the list head
  (`integrity.mjs:71`), and accepts anything but null there.
* "Pages sync OUT after" execution (`backend.mjs:13`), but not after a stop on int3 or on an
  unmapped page: the host then reads the old bytes, and a push overwrites the guest's.
* A key `ZwOpenKey` makes up is listed as auto-created while there is room for 128, the keys above it
  that are made with it are not (`winapi.mjs:553`, `556`).
* `ObOpenObjectByName` finds a key in any case and gives a handle on the spelling it was asked for;
  `ZwSetValueKey` through it logs a set that stores nothing (`winapi-ext.mjs:1209`, `605`).
* `tracepoint_probe_unregister` returns 0 and removes nothing (`linux-api.mjs:437`).
* After a fault under Unicorn the next `callLinuxFunction` never returns (`backend.mjs:572`,
  `linux-kernel.mjs:504`); after a return, the next ones time out (`backend.mjs:681`). On the hybrid no
  debug stop is ever reported (`linux-kernel.mjs:509`), on the interpreter one is remembered for good.
* A code hook that throws under Unicorn has what it wrote overwritten by `syncOut` where the guest
  had written the page too (`backend.mjs:586`).
* A service table reports nothing of the default stubs it defines (`ssdt.mjs:43`).
* `callLinuxFunction` moves the stack pointer to a boundary and never back
  (`linux-kernel.mjs:488`).
* "A driver's own `__except` handler works" for a page fault (`paging.mjs:19`), but the search for one
  starts at the data address and asks nobody (`paging.mjs:55`, `seh.mjs:324`); and `push`, `call`,
  `leave`, `pop` to memory, `adc` and `cmpxchg` have changed `rsp` or flags by then (`CpuMemKeeps`).
* A detour farther away than 32 bits is installed truncated and reported as leading elsewhere
  (`kernel.mjs:1347`; a test says that the displacement must decode back to the target).
* Outside of SMRAMC, a write to a config register through CFC passes two of the five arguments of
  `setCfg` (`smm.mjs:245`, `247`), and is lost.
* The trace of a module's memory writes names a variable of another function, and the error is
  swallowed (`linux-kernel.mjs:159`).
* `CpuMisses` and `DecMisses` are the full list for instructions: among them the upper half of a
  register after a 32-bit `cmov`, `cdqe` with a 16-bit operand, flags after `cmpxchg`, shifts by
  zero, carries of `adc` and `sbb`, ZF and SF of `test rax, imm32` with a negative immediate (a9), an
  index of r12, r13 as a SIB base, a negative absolute displacement, operands relative to RIP of `imul`
  with an immediate (69, 6b), `test` (f6 /0, f7 /0) and 0f ba, which are resolved before the immediate
  is fetched, and operands in memory with the prefix 67 or with a segment fs or gs, which are
  ignored. With the prefix 66, f7 /0 fetches four bytes of immediate instead of two, and so do a9 and
  68, which have no ModRM operand and are outside `CpuDecode`.

Hazards of the code that the list in `PROJECT.json` leaves out for others that weigh more:
`winapi.mjs:394`, `kernel.mjs:1088`, `1674`, `devices.mjs:490`, `winapi-ext.mjs:137`,
`notify.mjs:94`, `hybrid.mjs:26`, `293`, `304`, `paging.mjs:295`, `446`, `linux-api.mjs:194`,
`kernel.mjs:1037`, `file-ops.mjs:286`, `linux-kernel.mjs:488`. The models have the behaviour of those at
`kernel.mjs:1037`, `1088`, `devices.mjs:490`, `winapi-ext.mjs:137`, `notify.mjs:94`,
`hybrid.mjs:304`, `file-ops.mjs:286` and `linux-kernel.mjs:488`. Four hazards in the list have no
property, and a note there says why: an enumeration under which elements are removed, pool sizes that
wrap, `.bss` over an earlier module, and the endless loop of `callLinuxFunction`.

## What is proved

In each case from the assumptions of the module on its constants alone, for any number of
DPCs, timers, cores, registers, callbacks, devices, IRPs, pages, blocks, keys, entries, drives
and guest functions, and any value of the caps. Seven modules hold the proofs of a group of
components each (`RequestProofs`, `MmuProofs`, `EnginesProofs`, `CpuProofs`, `MachineProofs`,
`PlatformProofs`, `KernelsProofs`); `StackLemmas` has what several of them need of sequences, of filtered
arrays (`Kept`) and of recursion: induction is a statement about sets of numbers there
(`SetInduction`), and `Recursion` gives, for a step on a set, the function that iterates it, which is
how a recursive function of a model is shown to be what its equation says.

| Theorem | Statement |
|---|---|
| `RequestProofs.TypeCorrect` | `Spec => []TypeOK` |
| `SweepOnSchedule` | `Spec => []SweepScheduled`: while protected bytes differ from their baseline, the sweep that sees them is at most a window after they appeared |
| `PatchesCaught` | `Spec => CaughtInTime` |
| `DpcQueuedOnce`, `DpcDeliveredOnce` | no DPC waits twice; each accepted insertion is run once, withdrawn once, or still waits |
| `TimerListedOnce`, `ListedTimersArmed` | no timer is listed twice, and every listed timer is armed |
| `IrpTypeCorrect`, `CompletionStaysInArray`, `TypedInArrayHolds` | the types; `completeIrp` stays inside the stack array of its IRP; both together |
| `CurrentIrpOwned`, `FinishedIsCompleted` | `CurrentIrp` is set only while its dispatch routine is in progress; a pending IRP that is called finished was completed in the drain |
| `MmuProofs.TypedCoherentHolds` | the types; whatever is cached is what a walk of the tables would give now, permissions included |
| `PagingImplements` | `Spec => ImplementsAddressSpace`: every step of paging is a step of `AddressSpace`, or leaves it as it is |
| `EnginesProofs.RunsOrderly`, `RunTypeCorrect` | no trap is lost and `stopOnRip` is put back; the types, with the bound on the window behind MOV SS |
| `HybridTypeCorrect`, `RunGoesOn`, `OnlyAroundFaults` | the types; `run` executes its function in order across the hand-off; `Spec => FaultsOnlyAround` |
| `EnginesTyped` | the types of both in the composition `MCEngines` |
| `PtTypeCorrect`, `TablesKept` | the types; walks, windows and frames agree about the tables of every process, whatever was mapped, edited or asked for |
| `CpuProofs.CpuTypeCorrect`, `CpuComputesExactly` | the types; what an instruction leaves in registers and defined flags is what the architecture defines, outside `CpuMisses` |
| `DecodesExactly` | an operand is found where its encoding puts it, outside `DecMisses`, its immediate is as long as it should be but for f7 /0 with 66, and the prefixes select its size |
| `MachineProofs.CallbacksTyped`, `AllNotified` | the types; `fireProcessNotify` and `fireCmSetValueKey` call every routine that was registered when they began and still is, unless one refuses or throws out of the loop |
| `VerdictStands` | a creation is reported blocked exactly when its status was left failing and was read |
| `ListTypeCorrect`, `ScanExact` | the types; the scan accepts the rings through every seeded process and nothing else |
| `SehTypeCorrect`, `SearchFollows` | the types; the search for a handler follows the calls, innermost first and none skipped |
| `CpuMemTypeCorrect`, `FaultsPrecise` | the types; an instruction that faults has changed nothing but `rsp` or flags, a repetition has exactly the rest to do, and one that does not fault is done whole |
| `PlatformProofs.SmmTypeCorrect`, `SealHolds`, `RsmResumes` | the types; no sequence of steps unseals SMRAM; RSM resumes what was interrupted |
| `ArTypeCorrect`, `OraclesAgree` | the types; scan and probe agree, and memory integrity keeps every register |
| `UnTypeCorrect`, `HandsBack` | the types; host, guest and handlers find each other's writes until `unLoses`, and "halted" means a hlt |
| `MachineTyped`, `ComputesExactly` | the types of all parts, and `InterpreterExact`, in the composition `MCMachine` |
| `KernelsProofs.AtTypeCorrect`, `ReportsTrue` | the types; lists, scan and trace of the exports are true, and return addresses stay in place; the defaults of service tables are in no list |
| `HpTypeCorrect`, `GuardsTell` | the types, for sizes that wrap too; a block is reported exactly when the driver wrote past it, and no two blocks share a cell |
| `HnTypeCorrect`, `LogAndHandlesExact` | the types; the write log and both handle tables tell what the driver did, with the exceptions of `HnExact` |
| `GlTypeCorrect`, `ContainersExact` | the types; the two directions of a list agree with its contents, an undisturbed enumeration gives every element |
| `IoTypeCorrect`, `RingKeepsLog`, `DrivesOnce` | the types; the completion ring holds the last completions; no submission is driven twice |
| `LcTypeCorrect`, `OutcomesTrue` | the types; a call reports how it ended, as `LcOutcomeTrue` says it, and leaves no hook behind |
| `KoTypeCorrect`, `ImageWhole` | the types; sections are apart, unpatched words are the file's, patched ones lead to their symbol |
| `LxTypeCorrect`, `HarvestTells` | the types; every hook a module holds is harvested once and drives its handler, a removed one is not unless it is on a tracepoint, and every handler of a registered device is harvested |
| `KernelsTyped` | the types of all parts in the composition `MCKernels` |

None of these but `TypeOK` of `Dispatcher` is inductive as it stands. `SweepInv` adds to
`SweepScheduled` that the period of an armed sweep is no longer than its window and that the age of a
patch is zero while there is none, which is what the rescheduling after a sweep needs.
`DeliveryInv` adds what a pass in progress holds: only the two delivery loops have a batch,
the records in it have not run, `drainDeferred` has marked all of its own in advance, and one
that `retireDpcs` finds drained was withdrawn by a routine of the same pass; a record that is
drained, not withdrawn and not in the batch ran once. `TimerInv` says which timer the expiry
loop is at: between two routines with a count above zero the first timer of the sweep is
periodic, and while a routine runs the only listed timer that may be unarmed is the one being
expired, which is then one-shot and on its last expiration, so the loop is about to drop it.
Without it nothing says that a timer its own routine sets again is listed once.

For SMM, `SmmTypeInv` adds to the types that the SMBASE field of the current save area is a base,
without which RSM could lead anywhere; `SmmSealInv` that a sealed SMRAM is locked, decoded and
closed, which every writer of SMRAMC keeps; `SmmOwedInv` that the context that is owed stands in
the save area of the current base, which only RSM changes. `ArOracleInv` adds that the registers of
the baseline are in the file, so that scan and probe read the same thing. `VerdictInv` says that
between two routines the verdict is the status, unless nobody has read it (`unread`), and that a
routine runs only while nobody has refused, the status being failing only where a routine of the Ex kind can have set it.

`RunInv` is the largest. `RunOrderly` speaks of the moment when nothing runs; the invariant says
of every frame what `stopOnRip` was when it was entered (`RunExpects`, by the kind of the frame
below), that the variable is what the innermost frame needs, and that the faults being dispatched
keep the value for their depth. For a resumption to find it, dispatched faults must be nested
strictly by depth and every frame below the innermost must be in an API (`RunNested`). Steps that
push a frame, pop one, dispatch, settle or throw each have a lemma; the step lemma has a case
per action.

`IrpInv` says what the stack of `calls` looks like (`CallsNested`): a completion routine stands on
the loop that called it, which is not through with its locations, so that a routine which returns
STATUS_MORE_PROCESSING_REQUIRED takes a loop along and never a dispatch routine; that is what
`CurrentIrpInDispatch` needs to survive it. `PointersBounded` (the helpers only move an IRP's
pointer down) is what `CompletionInArray` rests on, and `DrainTells` what `FinishedWasCompleted`
does: a completion the drain can see by comparing `lastCompleted` was made in it. All steps of the
module do one of four things to the stack, and one relation (`Shape`) states them: `ShapeKeeps` shows
once that it keeps the three invariants, and each action is shown to have it.

`MmuInv` tells tables from data without saying how either got there: there is a function `lev` that
gives every frame of the allocator the level of the table it serves as, 0 for data (`Tables`). An entry
at a level leads to a table one level down, or at level 1 to data; each table below the top is pointed
to by one entry; frames the allocator has not reached are blank. Without it nothing keeps a write to a
page from being a write to a table under it, and neither the cache nor the refinement could be
argued. `mapPage` builds its tables into entries that are empty and gives the new frames their
level (`BuildStep`, `MapPageKeeps`); a write through a page lands in data, so all walks are as they were
(`WalksKept`); a large page goes into an empty slot, which no cached walk looks at (`AbsentUnseen`).
`RefInv` adds that no two spaces share a top-level table. With it two walks that come by the same
table started from the same space, and their pages agree above it (`SamePath`), so that an entry that
is written is on the walks of the pages it serves and on no other (`OthersKept`, `EntryWritten`).
Each action then has a lemma that names its abstract step: `Access` for an access, on demand or not,
`RemapPage` for `mapPage` and `unmap`, `MapBlock` for a large page, `Switch` for the rest.

`HybridInv` adds to `RunContinues` that every frame below the innermost is in an API, that only the
outermost can come from `run`, and that a frame on another engine than the active one was switched
(`FramesNested`). With it an API that returns after a hand-off writes the engine its caller is on, or
the caller is one that was switched; and a refusal by the interpreter while Unicorn is active can only
come from such a frame.

`UnInv` says of each page which copy is right at which moment (`UnLink`): outside of a handler the
host's unless the page is dirty, then the engine's (`UnBacked`); in a handler the host's where there is
one (`UnHandled`), and a throw out of it keeps that for pages the guest had not written; and while the pump has pulled and not yet pushed, the
two are equal. `UnEngineInv` has the steps and the fault flag of the call. The invariant holds of pages up to the first loss that
`unLoses` names, of the engine always.

`CpuInv` says only that what stands in `cpu` is what the instruction made of the state before it: an
execution of `Cpu` is one instruction. The work is in what is left, an equality of numbers for each
instruction between what the code does and the architecture's definition (`CpuDoAgreed`, with a
lemma for each group). All numbers are quotients and remainders by powers of two (`PowerAdds`,
`NestedParts`), which the provers know nothing of and which get there as sizes of sets
(`PowerCounts`). `CpuWriteIs` has what a write leaves of a register at each width. Sums and
differences go by their true value and what it exceeds (`CpuOverflowExact`, `CpuComparedExact`);
products and quotients by the halves of a double operand (`HalvesSigned`, `ArchTruncatesOnce`); and,
or, xor and the double shifts by bits (`CpuGathersSame`, `CpuOrSums`). Shifts and rotates are
defined by the architecture one bit at a time, and the code does them at once: `RingTurn`, `WholeTurns`
and `SarStep` are one such step, and an induction over the count makes the whole of them
(`RolTurns`, `RorTurns`, `CarryTurns`, `ShlTurns`, `ShrTurns`, `SarTurns`). `DecInv` is the same for the
decoder; the prefixes are followed to the last by induction (`DecSizeExact`).

`CpuMemInv` is `CpuMemPrecise` with the types. Each instruction has a lemma of two parts: if it comes to
its end, it does here what it does in the same state without faults; and if it does not, it has changed
nothing but what `CpuMemKeeps` allows it (`CpuMemAgrees`). For a string instruction the rounds of its loop
are set beside those of the loop that never faults (`CpuMemSimulated`), and a loop begun with the count
that is left does the rounds that are left (`CpuMemContinued`).

`PtInv` is about the two copies of a table, the one in its frame and the one in its window, which a
step may leave different. `PtBooks` says which frame has which window: each at most one, frames
not handed out none, and the window of a table tells the indices that lead to it. `PtTree` says where
entries lead, whichever copy is read: one table down, or just above the last tables to data; and that
two tables never share one below them. `PtTopsBut` keeps the self-reference of the top tables. What is
known of a page (`PtKnown`) is a path through the tables (`PtReaches`), and each action is shown
to keep the paths of the pages it is not asked for: a write goes to one entry (`PtWrote`), and a path
either misses that entry or comes by it the same way (`PtPaired`). Where `mapPage` took the frame of a
large page for a table, the last table of a path is data; paths without one are called tidy, and what
goes on through data is only ever disturbed below the entry that was written (`PtSafe`). `PtLevels` is
assumed to be 3 or 4: the code has 4, and a large page sits where `translate` looks for one only from
3 on.

`AtInv` has three parts. `AtListsInv`: a name that a report lists has a thunk, is in one list and once
(`AtOnce`). `AtDetoursInv`: a prologue differs from a pristine one exactly where there is a detour, and
where the target is near its bytes decode to it. `AtCallsInv` is `AtCallsReturn` and `AtFramesKept` with
the types of the frames in progress, each of which keeps the stack pointer it was entered with.

`HpInv` says that the blocks of the pool lie below the bump pointer, each with its header and guards
before the next, and that a cell of a guard holds the pattern unless the driver wrote it
(`HpGuarded`); the blocks a scenario places lie past the end of the pool. `HpAlignedBounds` is the arithmetic: rounding with 32-bit operators keeps a size or
adds a cell, below 2^31 and only there; what `GuardsTell` claims of larger sizes is nothing, as the
property says. `HnInv` adds to `HnExact` that no handle in a table has a number beyond those
issued, so that a new one is never one that was closed; that a key handle is on a spelling of a key there
is; and that a key there never was has no values, so that nothing is missing from the log about it.

`GlRingsInv` says that the k-th node of a container links to the next one, and back (`GlNode`,
`GlLinked`), and that an entry is in one place of one container (`GlApart`); stale links of removed
entries are allowed to say anything. `GlTableInv` is about an enumeration nothing was deleted under:
what was given stands before the index, and what is due is still on the table.

`IoInv` adds to `RingHoldsLog` that the positions between head and tail are less than a ring apart, hold
different submissions, and none that a drive has completed; two positions less than a ring apart have
different slots (`SlotsDiffer`, by `MultiplesApart`). `LcInv` says that a hook stands exactly where the
call in progress put one, and that a debug stop and hlt are remembered by the interpreter alone, a fault
by Unicorn alone. `KoInv` has the
extents of the sections placed so far (`KoPlacedInv`), the words no relocation is listed for
(`KoWordsInv`) and the ones patched so far (`KoPatchInv`). It rests on `KoLinkedApart`, an assumption on
files: in one that is laid out already the loaded sections do not overlap, which the loader does not
check and a linker guarantees; and on relocations having different places, which is how `KoLists`
chooses files.

`NotifyInv` follows the deliveries of `Callbacks` (`LoopInv`): loops over processes go over a copy, one over
registry callbacks over an array that only grows, since a removal replaces the list and leaves the loop with
the array it had; either has reached what is before `next`, and who stayed registered is in the array.

`PlTrail` follows the scan of the process list round by round: after k rounds what it has reached are the
nodes on the way from the head, one behind the other. A scan that is content has met every seeded process
with both links right, so the way is a ring; and along a ring no round finds a reason to stop.

`LxMirrors` says that the hooks modules hold (`lxHeld`) or could not remove (`lxLeft`) are those in the
kernel's lists, sort by sort; the
harvest is then followed stage by stage, each of which adds the entries of one list and leaves out those
an earlier stage has.

`SehInv` has a row of registers for every call in progress: what they are as its prologue is undone, from the
code it has got to down to the return address (`SehStack`). Rows meet: where one ends its caller's begins. A
push or an allocation puts a code on the row of the innermost call; setting a frame register replaces the rest
of its row, which `SehFramed` allows since the register was pushed before; what the body does to rsp afterwards
changes the row only above that code. `SehAt` says the context of the search is the beginning of a row, and
unwinding follows the row to the next (`SehUndone`).

Each invariant has a lemma for the initial state and one for the step with a case per action, and
the theorem combines them. In `MCMachine` a component out of focus is at one of its beginnings, and
`MachineInvariant` is the conjunction of all the invariants; `MachineAssumption` says that there is an
operand to decode and a state of memory to begin with.

Only model-checked: `LoopsReturn` and `RunEnds`. Liveness under fairness is out of the prover's
reach. Every invariant and every action property that a passing run checks is the statement of a
theorem.

## Not modelled

* Floating point, SSE, CPUID, port and descriptor instructions of the interpreter, and
  `SparseMemory`: tables, or a map from pages to bytes.
* PE, PDB, ELF, dump and structure-table parsing and building, reports and formatting
  (`bugcheck.mjs` beyond halting the CPU, `diag.mjs`, `sysquery.mjs`, `tracer.mjs`,
  `etwkernel.mjs`), the asset scripts: sequential transformations of bytes and text. The contract
  data of `winapi-meta.mjs` is one table of 3000 lines.
* Exported functions that are stubs or string and memory helpers. Events, mutexes and waits are
  among them: they return at once and keep nothing a property could be about.
* `IoCancelIrp`, buffers and transfer methods of IRPs, files and sections, the eBPF verifier (it
  accepts everything) and the VM.

## What is left

Models next: cancellation and transfer buffers of IRPs, files and sections, and the budgets of the
hybrid (`hybrid.mjs:293`).

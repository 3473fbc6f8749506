------------------------------ MODULE LinuxRegistry ------------------------------
(***************************************************************************)
(* What a Linux module registers with the simulated kernel, and what of it   *)
(* is harvested and driven: packages/linux-sim/src/linux-api.mjs and          *)
(* file-ops.mjs.                                                            *)
(*                                                                         *)
(* A file_operations structure is a name whose handlers LxTable gives; an     *)
(* address nobody put there is "0".                                          *)
(***************************************************************************)
EXTENDS Integers, FiniteSets, SequencesExt, Kept

CONSTANTS
  LxTable,    \* the handlers of a structure: [structure -> [operation -> handler]]
  LxMajors,   \* majors a module asks for by number
  LxOps,      \* ftrace_ops and kprobe structures
  LxFuncs,    \* handlers of hooks
  LxMaxCalls  \* bound: registrations and removals

LxFops == DOMAIN LxTable

\* The operations harvested, in their order.
LxRawOps == <<"read", "write", "unlocked_ioctl", "compat_ioctl", "mmap", "open", "release">>

ASSUME LxAssumption ==
  /\ \A f \in LxFops : Range(LxRawOps) \subseteq DOMAIN LxTable[f]
  /\ 0 \notin LxMajors /\ LxMajors \subseteq Nat /\ LxMaxCalls \in Nat
  /\ "0" \notin LxFuncs /\ "0" \notin LxOps

VARIABLES
  lxDevs,    \* deviceRegistry: [major, fops, type]
  lxMisc,    \* miscDevices: the structures registered
  lxHooks,   \* opsRegistry: [sub, ops, va, fops]
  lxFtrace,  \* ftraceHooks: [ops, func, addr]
  lxKprobes, \* kprobes: [kp, pre, post]
  lxTps,     \* tracepoints: [tp, probe]
  lxProgs,   \* how many eBPF programs were loaded: ebpfProgs
  lxRings,   \* how many rings were set up: ioUringRings
  lxCalls,
  lxHeld,    \* ghost: hooks registered and not removed: <<subsystem, structure, handler>>
  lxLeft     \* ghost: tracepoint hooks removed, which nothing takes out

lxHookVars == <<lxHooks, lxFtrace, lxKprobes, lxTps, lxHeld, lxLeft>>
lxVars == <<lxDevs, lxMisc, lxHookVars, lxProgs, lxRings, lxCalls>>

-----------------------------------------------------------------------------
LxInit ==
  /\ lxDevs = <<>> /\ lxMisc = <<>> /\ lxHooks = <<>> /\ lxFtrace = <<>> /\ lxKprobes = <<>>
  /\ lxTps = <<>> /\ lxProgs = 0 /\ lxRings = 0 /\ lxCalls = 0 /\ lxHeld = {} /\ lxLeft = {}

LxCall == lxCalls < LxMaxCalls /\ lxCalls' = lxCalls + 1

LxNewDevice(major, fops, type) ==
  lxDevs' = Append(lxDevs, [major |-> major, fops |-> fops, type |-> type])

\* The first of the elements at hits is taken out.
LxWithoutFirst(s, hits) ==
  IF hits = {} THEN s ELSE RemoveAt(s, CHOOSE i \in hits : \A k \in hits : i <= k)

\* A device whose major is to be chosen is kept under major 0.
register_chrdev(major, fops) ==
  /\ LxCall /\ LxNewDevice(major, fops, "chrdev")
  /\ UNCHANGED <<lxMisc, lxHookVars, lxProgs, lxRings>>

unregister_chrdev(major) ==
  /\ LxCall /\ lxDevs' = LxWithoutFirst(lxDevs, {i \in DOMAIN lxDevs : lxDevs[i].major = major})
  /\ UNCHANGED <<lxMisc, lxHookVars, lxProgs, lxRings>>

alloc_chrdev_region ==
  /\ LxCall /\ LxNewDevice(1, "0", "alloc_region")
  /\ UNCHANGED <<lxMisc, lxHookVars, lxProgs, lxRings>>

misc_register(fops) ==
  /\ LxCall /\ LxNewDevice(10, fops, "misc") /\ lxMisc' = Append(lxMisc, fops)
  /\ UNCHANGED <<lxHookVars, lxProgs, lxRings>>

\* The device registry keeps it.
misc_deregister(fops) ==
  /\ LxCall /\ lxMisc' = LxWithoutFirst(lxMisc, {i \in DOMAIN lxMisc : lxMisc[i] = fops})
  /\ UNCHANGED <<lxDevs, lxHookVars, lxProgs, lxRings>>

\* proc_create; remove_proc_entry and proc_remove do nothing.
proc_create(fops) ==
  /\ LxCall /\ LxNewDevice(0, fops, "proc")
  /\ UNCHANGED <<lxMisc, lxHookVars, lxProgs, lxRings>>

\* The input routine stands for a structure: what is read there is its code.
netlink_kernel_create(input) ==
  /\ LxCall /\ LxNewDevice(0, input, "netlink")
  /\ UNCHANGED <<lxMisc, lxHookVars, lxProgs, lxRings>>

-----------------------------------------------------------------------------
LxHook(sub, ops, va, fops) ==
  lxHooks' = Append(lxHooks, [sub |-> sub, ops |-> ops, va |-> va, fops |-> fops])

register_ftrace_function(ops, func) ==
  /\ LxCall /\ LxHook("ftrace", ops, func, ops)
  /\ lxFtrace' = Append(lxFtrace, [ops |-> ops, func |-> func, addr |-> "0"])
  /\ lxHeld' = lxHeld \cup {<<"ftrace", ops, func>>}
  /\ UNCHANGED <<lxDevs, lxMisc, lxKprobes, lxTps, lxProgs, lxRings, lxLeft>>

LxReleased(sub, ops) == lxHeld' = {h \in lxHeld : h[1] # sub \/ h[2] # ops}
LxHooksWithout(sub, ops) ==
  Kept(lxHooks, {i \in DOMAIN lxHooks : lxHooks[i].sub # sub \/ lxHooks[i].ops # ops})
LxFtraceWithout(ops) == Kept(lxFtrace, {i \in DOMAIN lxFtrace : lxFtrace[i].ops # ops})

\* Mutant: opsRegistry keeps the hook.
LxUnregisterOneList(ops) ==
  /\ LxCall /\ lxFtrace' = LxFtraceWithout(ops) /\ LxReleased("ftrace", ops)
  /\ UNCHANGED <<lxDevs, lxMisc, lxHooks, lxKprobes, lxTps, lxProgs, lxRings, lxLeft>>

unregister_ftrace_function(ops) ==
  /\ LxCall
  /\ lxFtrace' = LxFtraceWithout(ops)
  /\ lxHooks' = LxHooksWithout("ftrace", ops) /\ LxReleased("ftrace", ops)
  /\ UNCHANGED <<lxDevs, lxMisc, lxKprobes, lxTps, lxProgs, lxRings, lxLeft>>

\* The address goes to the first hook of the structure, and to none that is
\* registered later.
ftrace_set_filter_ip(ops, ip) ==
  /\ LxCall
  /\ LET mine == {i \in DOMAIN lxFtrace : lxFtrace[i].ops = ops}
     IN lxFtrace' = [i \in DOMAIN lxFtrace |->
          IF i \in mine /\ \A k \in mine : i <= k THEN [lxFtrace[i] EXCEPT !.addr = ip]
          ELSE lxFtrace[i]]
  /\ UNCHANGED <<lxDevs, lxMisc, lxHooks, lxKprobes, lxTps, lxProgs, lxRings, lxHeld, lxLeft>>

\* The entry for opsRegistry names a variable that is not declared: what is thrown is
\* caught, and success is returned.
register_kprobe(kp, pre, post) ==
  /\ LxCall
  /\ lxKprobes' = Append(lxKprobes, [kp |-> kp, pre |-> pre, post |-> post])
  /\ lxHeld' = lxHeld \cup ({<<"kprobe", kp, pre>>, <<"kprobe", kp, post>>}
                              \ {<<"kprobe", kp, "0">>})
  /\ UNCHANGED <<lxDevs, lxMisc, lxHooks, lxFtrace, lxTps, lxProgs, lxRings, lxLeft>>

unregister_kprobe(kp) ==
  /\ LxCall
  /\ lxKprobes' = Kept(lxKprobes, {i \in DOMAIN lxKprobes : lxKprobes[i].kp # kp})
  /\ lxHooks' = LxHooksWithout("kprobe", kp) /\ LxReleased("kprobe", kp)
  /\ UNCHANGED <<lxDevs, lxMisc, lxFtrace, lxTps, lxProgs, lxRings, lxLeft>>

tracepoint_probe_register(tp, probe) ==
  /\ LxCall /\ LxHook("tracepoint", tp, probe, tp)
  /\ lxTps' = Append(lxTps, [tp |-> tp, probe |-> probe])
  /\ lxHeld' = lxHeld \cup {<<"tracepoint", tp, probe>>}
  /\ lxLeft' = lxLeft \ {<<"tracepoint", tp, probe>>}
  /\ UNCHANGED <<lxDevs, lxMisc, lxFtrace, lxKprobes, lxProgs, lxRings>>

\* Success is returned, and the hook stays in both lists.
tracepoint_probe_unregister(tp, probe) ==
  /\ LxCall
  /\ lxHeld' = lxHeld \ {<<"tracepoint", tp, probe>>}
  /\ lxLeft' = lxLeft \cup (lxHeld \cap {<<"tracepoint", tp, probe>>})
  /\ UNCHANGED <<lxDevs, lxMisc, lxHooks, lxFtrace, lxKprobes, lxTps, lxProgs, lxRings>>

LxProgFd(n) == "prog" \o ToString(100 + n)
LxRingFd(n) == "ring" \o ToString(300 + n)
LxSqRing(n) == "sq" \o LxRingFd(n)

\* BPF_PROG_LOAD of the instructions at insns.
bpf(insns) ==
  /\ LxCall /\ lxProgs' = lxProgs + 1 /\ LxHook("ebpf", "attr", insns, LxProgFd(lxProgs))
  /\ UNCHANGED <<lxDevs, lxMisc, lxFtrace, lxKprobes, lxTps, lxRings, lxHeld, lxLeft>>

io_uring_setup ==
  /\ LxCall /\ lxRings' = lxRings + 1
  /\ LxHook("io_uring", "params", LxSqRing(lxRings), LxRingFd(lxRings))
  /\ UNCHANGED <<lxDevs, lxMisc, lxFtrace, lxKprobes, lxTps, lxProgs, lxHeld, lxLeft>>

-----------------------------------------------------------------------------
(* The harvest.                                                             *)

LxEntry(sub, op, va, fops) == [sub |-> sub, op |-> op, va |-> va, fops |-> fops]

\* The handlers of the devices: each has as many as LxRawOps, none when it has no
\* structure.
LxFileEntries ==
  LET n == Len(LxRawOps)
      slots == [i \in 1..n * Len(lxDevs) |->
                  LET fops == lxDevs[(i - 1) \div n + 1].fops
                      op == LxRawOps[((i - 1) % n) + 1]
                  IN LxEntry("file", op, IF fops = "0" THEN "0" ELSE LxTable[fops][op], fops)]
  IN Kept(slots, {i \in DOMAIN slots : slots[i].va # "0"})

\* Elements that differ from every one before them: as this is transitive, those that
\* a loop adds that compares with what it has added.
LxSame(x, y) == x.fops = y.fops /\ x.va = y.va /\ x.sub = y.sub
LxNew(s, i) == \A j \in 1..(i - 1) : ~LxSame(s[j], s[i])

\* A hook is added unless there is an entry of the same structure, handler and
\* subsystem.
getHarvestedOps ==
  LET files == LxFileEntries
      all == files \o [i \in DOMAIN lxHooks |->
               LxEntry(lxHooks[i].sub, lxHooks[i].sub, lxHooks[i].va, lxHooks[i].fops)]
  IN Kept(all, {i \in DOMAIN all : i <= Len(files) \/ (all[i].va # "0" /\ LxNew(all, i))})

\* An ftrace hook is added unless there is an entry of the same handler.
LxWithFtrace ==
  LET base == getHarvestedOps
      all == base \o [i \in DOMAIN lxFtrace |->
               LxEntry("ftrace", "ftrace", lxFtrace[i].func, lxFtrace[i].ops)]
  IN Kept(all, {i \in DOMAIN all : i <= Len(base) \/ \A j \in 1..(i - 1) : all[j].va # all[i].va})

LxKprobeEntries ==
  LET slots == [i \in 1..2 * Len(lxKprobes) |->
                  LET k == lxKprobes[(i - 1) \div 2 + 1]
                  IN IF i % 2 = 1 THEN LxEntry("kprobe", "kprobe_pre", k.pre, k.kp)
                     ELSE LxEntry("kprobe", "kprobe_post", k.post, k.kp)]
  IN Kept(slots, {i \in DOMAIN slots : slots[i].va # "0"})

\* Of two entries with the same subsystem, structure and handler the first counts.
getAllHarvestedOps ==
  LET tps == [i \in DOMAIN lxTps |->
                LxEntry("tracepoint", "tracepoint", lxTps[i].probe, lxTps[i].tp)]
      progs == [i \in 1..lxProgs |-> LxEntry("ebpf", "ebpf", LxProgFd(i - 1), LxProgFd(i - 1))]
      rings == [i \in 1..lxRings |->
                  LxEntry("io_uring", "io_uring", LxSqRing(i - 1), LxRingFd(i - 1))]
      all == LxWithFtrace \o LxKprobeEntries \o tps \o progs \o rings
  IN Kept(all, {i \in DOMAIN all : LxNew(all, i)})

\* What sendFileOp calls for operation op of an entry with structure fops and, for a
\* hook, handler va: an entry without structure gets that of the first device.
LxTarget(op, fops, va) ==
  LET of == IF fops # "0" THEN fops ELSE IF lxDevs # <<>> THEN lxDevs[1].fops ELSE "0"
  IN IF of = "0" THEN "0"
     ELSE IF op \in {"ftrace", "kprobe", "kprobe_pre", "kprobe_post", "tracepoint"} THEN va
     ELSE IF op = "netlink" THEN of
     ELSE IF of \in LxFops /\ op \in DOMAIN LxTable[of] THEN LxTable[of][op] ELSE "0"

LxDeviceStep ==
  \/ \E f \in LxFops : misc_register(f) \/ misc_deregister(f) \/ proc_create(f)
                       \/ netlink_kernel_create(f)
  \/ \E m \in LxMajors \cup {0}, f \in LxFops : register_chrdev(m, f)
  \/ \E m \in LxMajors : unregister_chrdev(m)
  \/ alloc_chrdev_region

LxHookStep ==
  \/ \E o \in LxOps, f \in LxFuncs :
       \/ register_ftrace_function(o, f)
       \/ tracepoint_probe_register(o, f) \/ tracepoint_probe_unregister(o, f)
       \/ \E g \in LxFuncs \cup {"0"} : register_kprobe(o, f, g) \/ register_kprobe(o, g, f)
  \/ \E o \in LxOps :
       unregister_ftrace_function(o) \/ unregister_kprobe(o) \/ ftrace_set_filter_ip(o, "ip")
  \/ \E f \in LxFuncs : bpf(f)
  \/ io_uring_setup

LxNext == LxDeviceStep \/ LxHookStep
LxSpec == LxInit /\ [][LxNext]_lxVars

-----------------------------------------------------------------------------
LxHookFds == {LxProgFd(n) : n \in 0..LxMaxCalls} \cup {LxRingFd(n) : n \in 0..LxMaxCalls}
LxHookVas == LxFuncs \cup {LxSqRing(n) : n \in 0..LxMaxCalls}

LxDevSet == [major : Nat, fops : LxFops \cup {"0"},
             type : {"chrdev", "alloc_region", "misc", "proc", "netlink"}]
LxHookSet == [sub : {"ftrace", "tracepoint", "ebpf", "io_uring"},
              ops : LxOps \cup {"attr", "params"}, va : LxHookVas, fops : LxOps \cup LxHookFds]
LxFtraceSet == [ops : LxOps, func : LxFuncs, addr : {"0", "ip"}]
LxKprobeSet == [kp : LxOps, pre : LxFuncs \cup {"0"}, post : LxFuncs \cup {"0"}]
LxTpSet == [tp : LxOps, probe : LxFuncs]

LxTypeOK ==
  /\ lxDevs \in Seq(LxDevSet) /\ lxMisc \in Seq(LxFops) /\ lxHooks \in Seq(LxHookSet)
  /\ lxFtrace \in Seq(LxFtraceSet) /\ lxKprobes \in Seq(LxKprobeSet) /\ lxTps \in Seq(LxTpSet)
  /\ lxHeld \subseteq {"ftrace", "kprobe", "tracepoint"} \X LxOps \X LxFuncs
  /\ lxLeft \subseteq {"tracepoint"} \X LxOps \X LxFuncs
  /\ lxCalls \in 0..LxMaxCalls /\ lxProgs \in 0..lxCalls /\ lxRings \in 0..lxCalls
  /\ Len(lxDevs) + Len(lxHooks) <= lxCalls

\* The hooks that are there: those held, and those whose removal did nothing.
LxStanding == lxHeld \cup lxLeft

(* However hooks of several kinds share structures and handlers and come and go,  *)
(* a hook a module holds is harvested exactly once and driving that entry calls   *)
(* its handler; a hook it removed is not harvested any more, but for tracepoints, *)
(* whose removal leaves the hook (still harvested once) until the end.  A handler *)
(* of a device in the registry is harvested, and driving it calls that handler.   *)
LxHarvestTells ==
  LET all == getAllHarvestedOps
      hooks == {i \in DOMAIN all : all[i].sub \in {"ftrace", "kprobe", "tracepoint"}}
  IN /\ {<<all[i].sub, all[i].fops, all[i].va>> : i \in hooks} = LxStanding
     /\ Cardinality(hooks) = Cardinality(LxStanding)
     /\ \A i \in DOMAIN all : all[i].sub \in {"file", "ftrace", "kprobe", "tracepoint"} =>
          LxTarget(all[i].op, all[i].fops, all[i].va) = all[i].va
     /\ \A i \in DOMAIN lxDevs : lxDevs[i].fops # "0" =>
          \A op \in Range(LxRawOps) : LxTable[lxDevs[i].fops][op] # "0" =>
            \E k \in DOMAIN all : /\ all[k].fops = lxDevs[i].fops
                                  /\ all[k].va = LxTable[lxDevs[i].fops][op]
=============================================================================

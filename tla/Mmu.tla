---------------------------------- MODULE Mmu ----------------------------------
(***************************************************************************)
(* Guest paging in the simulated kernel (packages/ntsim/src/paging.mjs):   *)
(* the Mmu with its page tables in physical memory, its cache of           *)
(* translations (tlb) and its frame allocator, and TranslatedMemory, which *)
(* maps pages on demand.  mapPage sets A and D in every 4 KB entry, so      *)
(* translate never finds one to set (lines 211-221), and they are left out. *)
(*                                                                         *)
(* A page is its table indices, one per level, and a frame is an array of  *)
(* words, which are entries in the frames that serve as tables.  An access *)
(* that spans pages is one access per page, in order, as in the code.      *)
(*                                                                         *)
(* Nothing in the sources clears CR0.PG or changes CR4 once paging is on.  *)
(* The host maps and unmaps single pages where no large page is: mapPage   *)
(* and walkToPte do not look at PS (paging.mjs:292-302, 325-330) and would *)
(* take the large page's own memory for a table.                           *)
(***************************************************************************)
EXTENDS Integers, Sequences, FiniteSets

CONSTANTS
  Idx,         \* table indices, 0..511 in the code
  Levels,      \* levels of tables, 4 in the code
  Hole,        \* a non-canonical page
  TsegPages,   \* pages of the identity range (TSEG)
  TlbLimit,    \* entries the cache takes, 4096 in the code
  UsedPages,   \* pages programs access, Hole among them
  HostPages,   \* pages the host maps and unmaps itself
  HostFlags,   \* flags the host maps pages with
  DemandMap,   \* demandMap: unmapped pages are mapped when they are accessed
  Smep,        \* CR4.SMEP
  MaxFrames,   \* bound: frames the allocator hands out
  MaxSpaces    \* bound: address spaces

N == Cardinality(Idx)

ASSUME MmuAssumption ==
  /\ N \in Nat \ {0} /\ Idx = 0..(N - 1)
  /\ Levels \in 2..4
  /\ Hole \notin [1..Levels -> Idx]
  /\ TsegPages \subseteq [1..Levels -> Idx]
  /\ TlbLimit \in Nat
  /\ UsedPages \subseteq [1..Levels -> Idx] \cup {Hole}
  /\ HostPages \subseteq [1..Levels -> Idx]
  /\ HostFlags \subseteq [write : BOOLEAN, user : BOOLEAN, nx : BOOLEAN]
  /\ DemandMap \in BOOLEAN
  /\ Smep \in BOOLEAN
  /\ MaxFrames \in Nat \ {0}
  /\ MaxSpaces \in Nat \ {0}

VARIABLES
  mem,       \* physical memory
  nextFrame, \* the frame allocator, which never takes a frame back
  cr3,       \* the current top-level table
  spaces,    \* the top-level tables there are
  tlb,       \* (page, kind of access) -> frame
  last       \* ghost: the access just made and the frame it reached

vars == <<mem, nextFrame, cr3, spaces, tlb, last>>

-----------------------------------------------------------------------------
Pages == [1..Levels -> Idx]
Kinds == {"read", "write", "fetch"}

\* Physical frames: the allocator's, those of one large page, and the frames of
\* the identity range, where the physical address is the virtual one.
LargeBase == N * MaxFrames
Number(p) ==
  LET number[l \in 1..Levels] ==
        IF l = Levels THEN p[l] ELSE number[l + 1] * N + p[l]
  IN number[1]
IdentityPa(p) == LargeBase + N + Number(p)

Frames == 0..(MaxFrames - 1) \cup LargeBase..(LargeBase + N - 1)
            \cup {IdentityPa(p) : p \in TsegPages}

\* An entry that is not present is Zero: the sources write no other.
Entry == [frame : Frames, present : BOOLEAN, write : BOOLEAN, user : BOOLEAN,
          nx : BOOLEAN, ps : BOOLEAN]
Zero == [frame |-> 0, present |-> FALSE, write |-> FALSE, user |-> FALSE,
         nx |-> FALSE, ps |-> FALSE]
\* A word programs write, which as an entry would map frame 0.
Mark == [Zero EXCEPT !.present = TRUE, !.write = TRUE]
Blank == [i \in Idx |-> Zero]

NoFrame == -1
NoPage == <<>>
Access == [page : Pages \cup {Hole, NoPage}, kind : Kinds,
           frame : Frames \cup {NoFrame}]
Idle == [page |-> NoPage, kind |-> "read", frame |-> NoFrame]

TypeOK ==
  /\ mem \in [Frames -> [Idx -> Entry]]
  /\ nextFrame \in 0..MaxFrames
  /\ cr3 \in Frames
  /\ spaces \in Seq(Frames)
  /\ DOMAIN tlb \subseteq Pages \X Kinds
  /\ \A a \in DOMAIN tlb : tlb[a] \in Frames
  /\ Cardinality(DOMAIN tlb) <= TlbLimit
  /\ last \in Access

\* newAddressSpace, enablePaging.
Init ==
  /\ mem = [f \in Frames |-> Blank]
  /\ nextFrame = 1
  /\ cr3 = 0
  /\ spaces = <<0>>
  /\ tlb = <<>>
  /\ last = Idle

-----------------------------------------------------------------------------
(***************************************************************************)
(* translate.                                                              *)
(***************************************************************************)

\* The walk for p, level by level: where it is, or where it ended above that
\* level, at an entry that is not present or is a large page.
Levelwise(m, top, p) ==
  LET At(l, t) == [level |-> l, table |-> t, entry |-> m[t][p[l]]]
      walk[l \in 1..Levels] ==
        IF l = Levels THEN At(Levels, top)
        ELSE LET above == walk[l + 1]
                 e == above.entry
             IN IF above.level = l + 1 /\ e.present /\ ~e.ps
                THEN At(l, e.frame) ELSE above
  IN walk

Walk(m, top, p) == Levelwise(m, top, p)[1]

\* A page's place in a large page: 1 GB at level 3, 2 MB at any other.
Offset(p, level) ==
  CASE level = 1 -> 0
    [] level = 3 -> p[2] * N + p[1]
    [] OTHER -> p[1]

\* The leaf entry alone decides.
Permits(e, kind) ==
  /\ kind = "write" => e.write
  /\ kind = "fetch" => ~e.nx /\ ~(Smep /\ e.user)

Cached(t, a, f) ==
  IF Cardinality(DOMAIN t) < TlbLimit
  THEN [b \in DOMAIN t \cup {a} |-> IF b = a THEN f ELSE t[b]]
  ELSE t

Outcome(fault, frame, t) == [fault |-> fault, frame |-> frame, tlb |-> t]

\* A hit is returned as it is.  A miss is walked, checked and cached.
Translate(m, t, p, kind) ==
  LET walk == Walk(m, cr3, p)
      f == walk.entry.frame + Offset(p, walk.level)
  IN CASE p = Hole -> Outcome("noncanonical", NoFrame, t)
       [] p # Hole /\ <<p, kind>> \in DOMAIN t ->
            Outcome("none", t[<<p, kind>>], t)
       [] p # Hole /\ <<p, kind>> \notin DOMAIN t /\ ~walk.entry.present ->
            Outcome("absent", NoFrame, t)
       [] p # Hole /\ <<p, kind>> \notin DOMAIN t /\ walk.entry.present
            /\ ~Permits(walk.entry, kind) ->
            Outcome("protection", NoFrame, t)
       [] OTHER -> Outcome("none", f, Cached(t, <<p, kind>>, f))

-----------------------------------------------------------------------------
(***************************************************************************)
(* The builder.  Each operator returns the memory and the next free frame; *)
(* the cache is empty afterwards, since every entry written empties it.    *)
(***************************************************************************)

TableEntry(f) == [Zero EXCEPT !.frame = f, !.present = TRUE, !.write = TRUE,
                              !.user = TRUE]

\* mapPage: missing tables are allocated from the top down.
MapPage(m, next, p, f, flags) ==
  LET built[l \in 1..Levels] ==
        IF l = Levels THEN [mem |-> m, next |-> next, table |-> cr3]
        ELSE LET above == built[l + 1]
                 e == above.mem[above.table][p[l + 1]]
             IN IF e.present THEN [above EXCEPT !.table = e.frame]
                ELSE [mem |-> [above.mem EXCEPT
                                 ![above.table][p[l + 1]] =
                                    TableEntry(above.next),
                                 ![above.next] = Blank],
                      next |-> above.next + 1, table |-> above.next]
      leaf == [frame |-> f, present |-> TRUE, write |-> flags.write,
               user |-> flags.user, nx |-> flags.nx, ps |-> FALSE]
  IN [mem |-> [built[1].mem EXCEPT ![built[1].table][p[1]] = leaf],
      next |-> built[1].next]

\* How many tables mapPage allocates for p.
Missing(m, p) ==
  LET walk == Walk(m, cr3, p) IN IF walk.entry.present THEN 0 ELSE walk.level - 1

Rwx == [write |-> TRUE, user |-> FALSE, nx |-> FALSE]

\* Fault: the frame is handed out and the allocator does not move on.
DemandMappedTwice(m, p) == MapPage(m, nextFrame, p, nextFrame, Rwx)

\* ensureRange for one unmapped page: the frame comes first, then the tables.
DemandMapped(m, p) ==
  IF p \in TsegPages
  THEN MapPage(m, nextFrame, p, IdentityPa(p), Rwx)
  ELSE MapPage(m, nextFrame + 1, p, nextFrame, Rwx)

-----------------------------------------------------------------------------
(***************************************************************************)
(* Accesses through TranslatedMemory.                                      *)
(***************************************************************************)

\* A write stores one word in the frame the access reached: the first one, since
\* nothing here tells the words of a frame apart.
Effect(m, kind, f) ==
  mem' = IF kind = "write" THEN [m EXCEPT ![f][0] = Mark] ELSE m

Reach(p, kind, f) == last' = [page |-> p, kind |-> kind, frame |-> f]

\* The access gets through, or faults for good.
AccessTranslated(p, kind) ==
  LET o == Translate(mem, tlb, p, kind) IN
  /\ ~(DemandMap /\ o.fault = "absent")
  /\ tlb' = o.tlb
  /\ IF o.fault = "none" THEN Effect(mem, kind, o.frame) ELSE mem' = mem
  /\ Reach(p, kind, o.frame)
  /\ UNCHANGED <<nextFrame, cr3, spaces>>

\* Not present, and mapped on demand: ensureRange looks the page up, maps it,
\* and the access is translated again.
AccessOnDemand(p, kind) ==
  LET looked == Translate(mem, tlb, p, "read")
      demand == DemandMapped(mem, p)
      o == Translate(demand.mem, <<>>, p, kind)
  IN /\ DemandMap /\ Translate(mem, tlb, p, kind).fault = "absent"
     /\ looked.fault # "none"
     /\ nextFrame + 1 + Missing(mem, p) <= MaxFrames
     /\ nextFrame' = demand.next
     /\ tlb' = o.tlb
     /\ Effect(demand.mem, kind, o.frame)
     /\ Reach(p, kind, o.frame)
     /\ UNCHANGED <<cr3, spaces>>

\* lookup (vtop, hasPage, canRead): a read that faults quietly.
Lookup(p) ==
  LET o == Translate(mem, tlb, p, "read") IN
  /\ tlb' = o.tlb
  /\ last' = Idle
  /\ UNCHANGED <<mem, nextFrame, cr3, spaces>>

-----------------------------------------------------------------------------
(***************************************************************************)
(* The host: the kernel's boot, the chipset and the labs.                  *)
(***************************************************************************)

\* The mapping the tables of space r give page p.
Resolved(r, p) ==
  LET walk == Walk(mem, spaces[r], p)
      e == walk.entry
  IN IF r \in DOMAIN spaces /\ p # Hole /\ e.present
     THEN [frame |-> e.frame + Offset(p, walk.level), write |-> e.write,
           user |-> e.user, exec |-> ~e.nx]
     ELSE [frame |-> NoFrame, write |-> FALSE, user |-> FALSE, exec |-> FALSE]

UnderLarge(p) ==
  LET walk == Walk(mem, cr3, p) IN walk.level > 1 /\ walk.entry.present

\* Frames some page maps now, in any space.
Mapped ==
  {Resolved(r, p).frame : r \in DOMAIN spaces, p \in Pages} \ {NoFrame}

\* mapPage of a new frame, or of one that is mapped already, as the boot does
\* for the two views of KUSER_SHARED_DATA.
HostMaps(p, flags) ==
  /\ ~UnderLarge(p)
  /\ \E f \in (Mapped \cap 0..(MaxFrames - 1)) \cup {nextFrame} :
       LET next == IF f = nextFrame THEN nextFrame + 1 ELSE nextFrame
           m == MapPage(mem, next, p, f, flags)
       IN /\ next + Missing(mem, p) <= MaxFrames
          /\ mem' = m.mem
          /\ nextFrame' = m.next
  /\ tlb' = <<>>
  /\ last' = Idle
  /\ UNCHANGED <<cr3, spaces>>

\* Fault: the entry is cleared and the cache keeps the translation.
UnmapUnflushed(p) ==
  LET walk == Walk(mem, cr3, p) IN
  /\ ~UnderLarge(p)
  /\ walk.level = 1
  /\ mem' = [mem EXCEPT ![walk.table][p[1]] = Zero]
  /\ last' = Idle
  /\ UNCHANGED <<nextFrame, cr3, spaces, tlb>>

\* unmap: the leaf entry, if there is a table for it.
Unmap(p) ==
  LET walk == Walk(mem, cr3, p) IN
  /\ ~UnderLarge(p)
  /\ walk.level = 1
  /\ mem' = [mem EXCEPT ![walk.table][p[1]] = Zero]
  /\ tlb' = <<>>
  /\ last' = Idle
  /\ UNCHANGED <<nextFrame, cr3, spaces>>

\* A large page written by hand into an empty slot, without a flush: an absent
\* translation is never cached.
HostWritesLarge(p, flags) ==
  LET walk == Walk(mem, cr3, p) IN
  /\ walk.level = 2 /\ ~walk.entry.present
  /\ LargeBase \notin Mapped
  /\ mem' = [mem EXCEPT ![walk.table][p[2]] =
       [frame |-> LargeBase, present |-> TRUE, write |-> flags.write,
        user |-> flags.user, nx |-> flags.nx, ps |-> TRUE]]
  /\ last' = Idle
  /\ UNCHANGED <<nextFrame, cr3, spaces, tlb>>

\* newAddressSpace, then the switch with its flush.
NewAddressSpace ==
  /\ Len(spaces) < MaxSpaces
  /\ nextFrame < MaxFrames
  /\ mem' = [mem EXCEPT ![nextFrame] = Blank]
  /\ nextFrame' = nextFrame + 1
  /\ spaces' = Append(spaces, nextFrame)
  /\ cr3' = nextFrame
  /\ tlb' = <<>>
  /\ last' = Idle

SwitchTo(r) ==
  /\ cr3' = spaces[r]
  /\ tlb' = <<>>
  /\ last' = Idle
  /\ UNCHANGED <<mem, nextFrame, spaces>>

-----------------------------------------------------------------------------
Next ==
  \/ \E p \in UsedPages, kind \in Kinds :
       AccessTranslated(p, kind) \/ AccessOnDemand(p, kind)
  \/ \E p \in UsedPages : Lookup(p)
  \/ \E p \in HostPages : Unmap(p)
  \/ \E p \in HostPages, flags \in HostFlags :
       HostMaps(p, flags) \/ HostWritesLarge(p, flags)
  \/ NewAddressSpace
  \/ \E r \in DOMAIN spaces : SwitchTo(r)

Spec == Init /\ [][Next]_vars

-----------------------------------------------------------------------------
(***************************************************************************)
(* Properties.                                                             *)
(***************************************************************************)

\* Whatever is cached is what a walk of the tables would give now, permissions
\* included, although entries are written by mapPage, unmap and demand mapping,
\* the current space changes, and a large page is written behind the cache.
TlbCoherent ==
  \A a \in DOMAIN tlb :
    LET walk == Walk(mem, cr3, a[1]) IN
    /\ walk.entry.present
    /\ tlb[a] = walk.entry.frame + Offset(a[1], walk.level)
    /\ Permits(walk.entry, a[2])

\* Every variable has its type, and what is cached is what the tables say now.
TypedCoherent == TypeOK /\ TlbCoherent

\* The pages of a large page.
Block(p) == {q \in Pages : \A l \in 2..Levels : q[l] = p[l]}

\* What AddressSpace sees: the mappings of every space, the current one, and the
\* words programs wrote.
Maps == [r \in 1..MaxSpaces |-> [p \in Pages \cup {Hole} |-> Resolved(r, p)]]
Root == CHOOSE r \in DOMAIN spaces : spaces[r] = cr3
Written == [f \in Frames |-> [i \in Idx |-> IF mem[f][i] = Mark THEN Mark ELSE Zero]]

Abstract == INSTANCE AddressSpace WITH
  Pages <- Pages \cup {Hole},
  Slots <- Idx,
  Words <- {Mark},
  Blocks <- {Block(p) : p \in Pages},
  Roots <- 1..MaxSpaces,
  Identity <- [p \in TsegPages |-> IdentityPa(p)],
  maps <- Maps,
  root <- Root,
  data <- Written

\* Paging implements AddressSpace: the cache and the marks are invisible, a
\* page mapped on demand gets a frame to itself, in every space, and a write
\* never lands in a table.
ImplementsAddressSpace == Abstract!Spec

=============================================================================

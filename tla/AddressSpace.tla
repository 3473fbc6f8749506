----------------------------- MODULE AddressSpace -----------------------------
(***************************************************************************)
(* What guest paging promises: address spaces that map pages to frames     *)
(* with permissions, and a memory of frames.  There are no tables, no      *)
(* table walk and no cache of translations here, and a page that is mapped *)
(* on demand gets a frame nobody else has.                                 *)
(***************************************************************************)
EXTENDS Naturals

CONSTANTS
  Pages,      \* virtual pages
  Frames,     \* physical frames
  Slots,      \* the words of a frame
  Words,      \* what a word may hold
  Zero,       \* the word of memory nobody has written
  NoPage,     \* not a page
  NoFrame,    \* not a frame
  Blocks,     \* the sets of pages a large page covers
  Roots,      \* address spaces
  Identity,   \* pages that map the frame of their own number, and that frame
  Smep        \* kernel fetches from user pages fault

VARIABLES
  maps,    \* maps[r][p]: the mapping of page p in space r
  root,    \* the current space
  data,    \* data[f][s]: the words of the frames
  last     \* the access just made and the frame it reached, NoFrame if it faulted

vars == <<maps, root, data, last>>

Mapping == [frame : Frames, write : BOOLEAN, user : BOOLEAN, exec : BOOLEAN]
Kinds == {"read", "write", "fetch"}

\* A page that is not mapped.
Unmapped == [frame |-> NoFrame, write |-> FALSE, user |-> FALSE,
             exec |-> FALSE]

Idle == [page |-> NoPage, kind |-> "read", frame |-> NoFrame]
Blank == [s \in Slots |-> Zero]

Init ==
  /\ maps = [r \in Roots |-> [p \in Pages |-> Unmapped]]
  /\ root \in Roots
  /\ data = [f \in Frames |-> Blank]
  /\ last = Idle

-----------------------------------------------------------------------------
Current(p) == maps[root][p]

\* A frame no page of any space maps.
Fresh(f) ==
  /\ \A r \in Roots, p \in Pages : maps[r][p].frame # f
  /\ data[f] = Blank

Permits(m, kind) ==
  /\ kind = "write" => m.write
  /\ kind = "fetch" => m.exec /\ ~(Smep /\ m.user)

\* A write stores one word in the frame it reaches.
Effect(kind, f) ==
  IF kind = "write"
  THEN \E s \in Slots, w \in Words : data' = [data EXCEPT ![f][s] = w]
  ELSE UNCHANGED data

Reach(p, kind, f) ==
  /\ Current(p).frame = f
  /\ Permits(Current(p), kind)
  /\ Effect(kind, f)
  /\ UNCHANGED maps

\* An access to an unmapped page maps it, read-write-execute, for the kernel.
ReachOnDemand(p, kind, f) ==
  /\ Current(p) = Unmapped
  /\ IF p \in DOMAIN Identity THEN f = Identity[p] ELSE Fresh(f)
  /\ maps' = [maps EXCEPT ![root][p] = [frame |-> f, write |-> TRUE,
                                        user |-> FALSE, exec |-> TRUE]]
  /\ Effect(kind, f)

Fault(p, kind) ==
  /\ \/ Current(p) = Unmapped
     \/ ~Permits(Current(p), kind)
  /\ UNCHANGED <<maps, data>>

Access(p, kind, f) ==
  /\ last' = [page |-> p, kind |-> kind, frame |-> f]
  /\ IF f = NoFrame THEN Fault(p, kind)
     ELSE Reach(p, kind, f) \/ ReachOnDemand(p, kind, f)
  /\ UNCHANGED root

\* The kernel and the labs change the mappings of the current space only.
OnlyRemaps(S) ==
  /\ last' = Idle
  /\ UNCHANGED root
  /\ \A r \in Roots, p \in Pages :
       maps'[r][p] # maps[r][p] => r = root /\ p \in S
  /\ \A p \in S : maps'[root][p] \in Mapping \cup {Unmapped}
  /\ UNCHANGED data

RemapPage(p) == OnlyRemaps({p})

\* A large page maps a block of pages nothing maps yet: each to a frame of its
\* own, all with the same permissions.
SamePermissions(m, n) == [m EXCEPT !.frame = n.frame] = n

MapBlock(S) ==
  /\ OnlyRemaps(S)
  /\ \A p \in S : Current(p) = Unmapped
  /\ \A p, q \in S : /\ SamePermissions(maps'[root][p], maps'[root][q])
                     /\ p # q => maps'[root][p].frame # maps'[root][q].frame

\* The current space is any other one, or a new one.
Switch(r) ==
  /\ root' = r
  /\ last' = Idle
  /\ UNCHANGED <<maps, data>>

Next ==
  \/ \E p \in Pages, kind \in Kinds, f \in Frames \cup {NoFrame} :
       Access(p, kind, f)
  \/ \E p \in Pages : RemapPage(p)
  \/ \E S \in Blocks : MapBlock(S)
  \/ \E r \in Roots : Switch(r)

Spec == Init /\ [][Next]_vars

=============================================================================

----------------------------- MODULE PageTableSpace -----------------------------
(***************************************************************************)
(* The page tables of the paging labs: PageTableSpace of                   *)
(* packages/ntsim/src/paging.mjs.  Every table is kept twice, in a         *)
(* physical frame and in a window of virtual memory where students read    *)
(* and edit it; the tables of all processes share one frame allocator and  *)
(* one space of windows.                                                   *)
(*                                                                         *)
(* A page is its table indices, one per level.  A table's window is the    *)
(* index of the self-reference followed by the indices that lead to the    *)
(* table, filled up with the sentinel index.  An entry is a frame with the *)
(* bits P and PS; frame 0 is none.  Names begin with Pt, so that the       *)
(* module can be checked together with others.                             *)
(***************************************************************************)
EXTENDS Integers

CONSTANTS
  PtIdx,       \* table indices, 0..511 in the code; the last is the sentinel
  PtLevels,    \* levels of tables, 4 in the code
  PtProcesses, \* names of processes
  PtSelfRefs,  \* self-reference indices processes are created with
  PtPages,     \* pages that are mapped
  PtMaxFrames, \* bound: frames the allocator hands out
  PtMaxEdits   \* bound: edits by hand

PtSentinel == CHOOSE i \in PtIdx : \A j \in PtIdx : j <= i

ASSUME PtAssumption ==
  /\ PtSentinel \in Nat /\ PtIdx = 0..PtSentinel
  /\ PtLevels \in 3..4
  /\ PtSelfRefs \subseteq PtIdx \ {PtSentinel}
  /\ PtPages \subseteq [1..PtLevels -> PtIdx]
  /\ PtMaxFrames \in Nat /\ PtMaxEdits \in Nat

VARIABLES
  ptPhys,     \* what the physical frames hold
  ptAlias,    \* what the windows hold, PtNoPage where nothing was written yet
  ptMirrors,  \* the window of a frame that is a table, NoWindow for others
  ptNext,     \* the next frame
  ptProcs,    \* the records of the processes
  ptEdits,    \* how many edits were made
  ptExpected  \* ghost: the frame each page should translate to

ptVars == <<ptPhys, ptAlias, ptMirrors, ptNext, ptProcs, ptEdits, ptExpected>>

-----------------------------------------------------------------------------
\* A frame the host passes as pa, which the allocator did not hand out.
PtForeign == PtMaxFrames + PtLevels

PtFrames == 1..PtForeign
PtEntries == [frame : 0..PtForeign, p : BOOLEAN, ps : BOOLEAN]
PtZero == [frame |-> 0, p |-> FALSE, ps |-> FALSE]
PtBlank == [i \in PtIdx |-> PtZero]

PtWindows == [1..PtLevels -> PtIdx]
NoWindow == <<>>
PtNoPage == <<>>
NoProc == [dtb |-> 0, selfRef |-> 0]

\* A page nobody can say anything about, and one that is not mapped.
Unknown == -1
Unmapped == 0

\* The window of the table that the first d indices of a path lead to.
PtWindow(selfRef, path, d) ==
  [l \in 1..PtLevels |-> IF l = 1 THEN selfRef
                         ELSE IF l <= d + 1 THEN path[l - 1] ELSE PtSentinel]

PtTypeOK ==
  /\ ptPhys \in [PtFrames -> [PtIdx -> PtEntries]]
  /\ ptAlias \in [PtWindows -> [PtIdx -> PtEntries] \cup {PtNoPage}]
  /\ ptMirrors \in [PtFrames -> PtWindows \cup {NoWindow}]
  /\ ptNext \in 1..(PtMaxFrames + 1)
  /\ ptProcs \in [PtProcesses -> [dtb : 0..PtMaxFrames, selfRef : PtIdx]]
  /\ ptEdits \in 0..PtMaxEdits
  /\ ptExpected \in [PtProcesses -> [PtPages -> Unknown..PtForeign]]

PtInit ==
  /\ ptPhys = [f \in PtFrames |-> PtBlank]
  /\ ptAlias = [w \in PtWindows |-> PtNoPage]
  /\ ptMirrors = [f \in PtFrames |-> NoWindow]
  /\ ptNext = 1
  /\ ptProcs = [p \in PtProcesses |-> NoProc]
  /\ ptEdits = 0
  /\ ptExpected = [p \in PtProcesses |-> [a \in PtPages |-> Unmapped]]

-----------------------------------------------------------------------------
\* createProcess and mapPage go through several steps, any of which may throw
\* and leave behind what the steps before it did.  A state of them is a record
\* of the variables they change, the table they are at, and whether they threw.
PtNow(table) ==
  [phys |-> ptPhys, alias |-> ptAlias, mirrors |-> ptMirrors, next |-> ptNext,
   table |-> table, threw |-> FALSE]

PtBecomes(s) ==
  /\ ptPhys' = s.phys
  /\ ptAlias' = s.alias
  /\ ptMirrors' = s.mirrors
  /\ ptNext' = s.next

\* allocFrame and allocLarge: the next frame, zeroed.
PtAllocFrame(s) ==
  [s EXCEPT !.phys[s.next] = PtBlank, !.next = @ + 1]

\* Fault: windows are handed out without a look at who has them.
PtAllocStructUnchecked(s, window) ==
  [PtAllocFrame(s) EXCEPT !.mirrors[s.next] = window, !.table = s.next]

\* _allocStructFrame: a frame for a table, unless its window is taken.  The
\* frame is gone either way.
PtAllocStruct(s, window) ==
  IF \E f \in PtFrames : s.mirrors[f] = window
  THEN [PtAllocFrame(s) EXCEPT !.threw = TRUE]
  ELSE [PtAllocFrame(s) EXCEPT !.mirrors[s.next] = window, !.table = s.next]

\* poke64: an entry is written to the frame and, for a table, to its window.
PtPoke(s, f, i, entry) ==
  LET w == s.mirrors[f]
      page == IF s.alias[w] = PtNoPage THEN PtBlank ELSE s.alias[w]
  IN  IF w = NoWindow THEN [s EXCEPT !.phys[f][i] = entry]
      ELSE [s EXCEPT !.phys[f][i] = entry,
                     !.alias[w] = [page EXCEPT ![i] = entry]]

\* One level of mapPage above the leaf: the entry of s.table is made to point
\* to a table, the one it has or a new one, and that is where it goes on.
\* What the entry points to is taken for a table even where PS says it is data.
PtDescend(s, selfRef, a, d) ==
  LET frame == s.phys[s.table][a[d]].frame
      below == IF frame # 0 THEN [s EXCEPT !.table = frame]
               ELSE PtAllocStruct(s, PtWindow(selfRef, a, d))
  IN  IF s.threw THEN s
      ELSE IF below.threw THEN below
      ELSE PtPoke(below, s.table, a[d],
                  [frame |-> below.table, p |-> TRUE, ps |-> FALSE])

\* mapPage writes the last entry, of the n-th level, when nothing threw.
PtMapping(s, selfRef, a, n, leaf) ==
  LET below[d \in 0..(n - 1)] ==
        IF d = 0 THEN s ELSE PtDescend(below[d - 1], selfRef, a, d)
      last == below[n - 1]
  IN  IF last.threw THEN last ELSE PtPoke(last, last.table, a[n], leaf)

\* Any walk copies first what the windows hold to the frames.
PtSynced ==
  [f \in PtFrames |->
     IF ptMirrors[f] # NoWindow /\ ptAlias[ptMirrors[f]] # PtNoPage
     THEN ptAlias[ptMirrors[f]] ELSE ptPhys[f]]

\* The walk of translate over tables, from dtb: the frame a page reaches.
PtStep(tables, s, i, d) ==
  LET e == tables[s.table][i]
  IN  CASE s.done -> s
        [] ~s.done /\ ~e.p -> [table |-> Unmapped, done |-> TRUE]
        [] ~s.done /\ e.p ->
             [table |-> e.frame,
              done |-> e.ps /\ d > 1 /\ d \in {PtLevels - 2, PtLevels - 1}]
PtWalk(tables, dtb, a) ==
  LET at[d \in 0..PtLevels] ==
        IF d = 0 THEN [table |-> dtb, done |-> FALSE]
        ELSE PtStep(tables, at[d - 1], a[d], d)
  IN  at[PtLevels].table

\* scanSelfRefFrames: the frames that hold an entry pointing at themselves.
PtSelfRefFrames(tables) ==
  {f \in 1..(ptNext - 1) :
     \E i \in PtIdx : tables[f][i].p /\ tables[f][i].frame = f}

-----------------------------------------------------------------------------
PtCreateProcess(p, selfRef) ==
  LET s == PtAllocStruct(PtNow(0), PtWindow(selfRef, <<>>, 0))
      self == [frame |-> s.table, p |-> TRUE, ps |-> FALSE]
  IN  /\ ptNext <= PtMaxFrames
      /\ IF s.threw
         THEN PtBecomes(s) /\ UNCHANGED <<ptProcs, ptExpected>>
         ELSE /\ PtBecomes(PtPoke(s, s.table, selfRef, self))
              /\ ptProcs' = [ptProcs EXCEPT
                               ![p] = [dtb |-> s.table, selfRef |-> selfRef]]
              /\ ptExpected' = [ptExpected EXCEPT
                                  ![p] = [a \in PtPages |-> Unmapped]]
      /\ UNCHANGED ptEdits

\* The pages mapPage refuses before it changes anything.
PtRefused(selfRef, a) ==
  \/ a[1] = selfRef
  \/ \E l \in 2..PtLevels : a[l] = PtSentinel

\* The table the first n indices lead to, mapped or not.
PtFollow(dtb, a, n) ==
  LET at[d \in 0..n] ==
        IF d = 0 THEN dtb
        ELSE IF at[d - 1] = 0 THEN 0 ELSE PtSynced[at[d - 1]][a[d]].frame
  IN  at[n]

\* The pages that share the last table with a.
PtNeighbours(a) ==
  {b \in PtPages : \A l \in 1..(PtLevels - 1) : b[l] = a[l]}

\* mapPage of a small page, on a new frame or on one that is passed.  Where a
\* large page was, its frame becomes a table, and what the program keeps there
\* decides about all that share it.
PtMapPage(p, a, foreign, present) ==
  LET rec == ptProcs[p]
      start == IF foreign THEN PtNow(rec.dtb)
               ELSE PtAllocFrame(PtNow(rec.dtb))
      pa == IF foreign THEN PtForeign ELSE ptNext
      s == PtMapping(start, rec.selfRef, a, PtLevels,
                     [frame |-> pa, p |-> present, ps |-> FALSE])
      table == PtFollow(rec.dtb, a, PtLevels - 1)
      inData == table # 0 /\ ptMirrors[table] = NoWindow
  IN  /\ rec # NoProc
      /\ ~PtRefused(rec.selfRef, a)
      /\ ptNext <= PtMaxFrames /\ s.next <= PtMaxFrames + 1
      /\ PtBecomes(s)
      /\ ptExpected' =
           IF s.threw THEN ptExpected
           ELSE [ptExpected EXCEPT ![p] =
                   [b \in PtPages |->
                      IF inData /\ b \in PtNeighbours(a) THEN Unknown
                      ELSE IF b # a THEN @[b]
                      ELSE IF present THEN pa ELSE Unmapped]]
      /\ UNCHANGED <<ptProcs, ptEdits>>

\* mapPage of a large page: the entry one level up points to the data.
PtMapLarge(p, a) ==
  LET rec == ptProcs[p]
      s == PtMapping(PtAllocFrame(PtNow(rec.dtb)), rec.selfRef, a,
                     PtLevels - 1,
                     [frame |-> ptNext, p |-> TRUE, ps |-> TRUE])
  IN  /\ rec # NoProc
      /\ ~PtRefused(rec.selfRef, a)
      /\ ptNext <= PtMaxFrames /\ s.next <= PtMaxFrames + 1
      /\ PtBecomes(s)
      /\ ptExpected' =
           IF s.threw THEN ptExpected
           ELSE [ptExpected EXCEPT ![p] =
                   [b \in PtPages |->
                      IF b \in PtNeighbours(a) THEN ptNext ELSE @[b]]]
      /\ UNCHANGED <<ptProcs, ptEdits>>

\* translate, leafEntryPa and scanSelfRefFrames leave the frames synchronised.
PtSyncAliases ==
  /\ ptPhys' = PtSynced
  /\ UNCHANGED <<ptAlias, ptMirrors, ptNext, ptProcs, ptEdits, ptExpected>>

\* The edits the labs ask for: the bit P is turned, or the entry cleared.
PtEdited(entry) == {[entry EXCEPT !.p = ~@], PtZero}

\* A student edits an entry through its window.  The pages of the process
\* that has the self-reference index are for the student to answer for.
PtEditWindow(w, i) ==
  /\ ptAlias[w] # PtNoPage
  /\ ptEdits < PtMaxEdits /\ ptEdits' = ptEdits + 1
  /\ i # w[1] /\ ptAlias[w][i] # PtZero
  /\ \E e \in PtEdited(ptAlias[w][i]) : ptAlias' = [ptAlias EXCEPT ![w][i] = e]
  /\ ptExpected' = [p \in PtProcesses |->
                      IF ptProcs[p] = NoProc \/ ptProcs[p].selfRef # w[1]
                      THEN ptExpected[p]
                      ELSE [a \in PtPages |-> Unknown]]
  /\ UNCHANGED <<ptPhys, ptMirrors, ptNext, ptProcs>>

\* Somebody edits an entry of a table at its physical address.
PtEditFrame(f, i) ==
  /\ ptEdits < PtMaxEdits /\ ptEdits' = ptEdits + 1
  /\ ptMirrors[f] # NoWindow /\ ptPhys[f][i] # PtZero
  /\ \E e \in PtEdited(ptPhys[f][i]) : ptPhys' = [ptPhys EXCEPT ![f][i] = e]
  /\ UNCHANGED <<ptAlias, ptMirrors, ptNext, ptProcs, ptExpected>>

PtNextStep ==
  \/ \E p \in PtProcesses, s \in PtSelfRefs : PtCreateProcess(p, s)
  \/ \E p \in PtProcesses, a \in PtPages :
       \/ \E foreign \in BOOLEAN : PtMapPage(p, a, foreign, TRUE)
       \/ PtMapPage(p, a, TRUE, FALSE)
       \/ PtMapLarge(p, a)
  \/ PtSyncAliases
  \/ \E w \in PtWindows, i \in PtIdx : PtEditWindow(w, i)
  \/ \E f \in PtFrames, i \in PtIdx : PtEditFrame(f, i)

PtSpec == PtInit /\ [][PtNextStep]_ptVars

-----------------------------------------------------------------------------
(***************************************************************************)
(* Properties.                                                             *)
(***************************************************************************)

\* A walk reaches the frame a page was last mapped to.
PtWalksReach ==
  \A p \in PtProcesses, a \in PtPages :
    /\ ptProcs[p] # NoProc /\ ~PtRefused(ptProcs[p].selfRef, a)
    /\ ptExpected[p][a] # Unknown
    => PtWalk(PtSynced, ptProcs[p].dtb, a) = ptExpected[p][a]

\* The scan for shuffled CR3 values finds the top table of every process, and
\* takes no other frame for one.
PtScanFinds ==
  /\ \A p \in PtProcesses :
       ptProcs[p] # NoProc => ptProcs[p].dtb \in PtSelfRefFrames(PtSynced)
  /\ \A f \in PtSelfRefFrames(PtSynced) :
       \E s \in PtSelfRefs : ptMirrors[f] = PtWindow(s, <<>>, 0)

\* No process loses a page or its top table by what others do: their mappings,
\* mapPage and createProcess that throw half-way, entries read from frames the
\* windows are ahead of, edits of other processes' windows, and edits at
\* physical addresses, which the next walk undoes.
PtTablesKept == PtWalksReach /\ PtScanFinds

=============================================================================

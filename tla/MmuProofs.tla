------------------------------- MODULE MmuProofs -------------------------------
(***************************************************************************)
(* What TLAPS proves of guest paging, for every number of levels the code  *)
(* could have and any pages, frames, spaces and accesses.  Tables are told *)
(* from data by a level each frame has (lev): the walk stays in tables,    *)
(* mapPage adds tables nothing points to yet, and what programs write is   *)
(* in none.  From there follow the cache's coherence, and that paging      *)
(* implements AddressSpace.                                                *)
(***************************************************************************)
EXTENDS Mmu, StackLemmas, FiniteSetTheorems

\* The frames of the allocator.
Small == 0..(MaxFrames - 1)

\* They lie below the frames of the large page.
LEMMA SmallApart ==
  /\ N \in Nat \ {0} /\ MaxFrames \in Nat \ {0} /\ Levels \in 2..4
  /\ LargeBase \in Nat /\ LargeBase >= MaxFrames
  /\ Small \subseteq Frames /\ LargeBase..(LargeBase + N - 1) \subseteq Frames
  /\ 0 \in Small /\ 0 \in Idx
<1>1. /\ N \in Nat \ {0} /\ MaxFrames \in Nat \ {0} /\ Levels \in 2..4 /\ Idx = 0..(N - 1)
  BY MmuAssumption
<1>2. PICK k \in Nat, f \in Nat : N = k + 1 /\ f = MaxFrames
  <2>1. N - 1 \in Nat /\ N = (N - 1) + 1
    BY <1>1
  <2> QED  BY <1>1, <2>1
<1>3. N * MaxFrames = k * f + f /\ k * f \in Nat
  BY <1>2
<1>4. LargeBase \in Nat /\ LargeBase >= MaxFrames
  BY <1>2, <1>3 DEF LargeBase
<1> QED  BY <1>1, <1>4 DEF Small, Frames

-----------------------------------------------------------------------------
\* The walk, level by level.
WalkAt(m, p, l, t) == [level |-> l, table |-> t, entry |-> m[t][p[l]]]
WalkBelow(m, p, l, above) ==
  IF above.level = l + 1 /\ above.entry.present /\ ~above.entry.ps
  THEN WalkAt(m, p, l, above.entry.frame) ELSE above

\* The function of Levelwise is the one its equation defines.
LEMMA LevelwiseIs ==
  ASSUME NEW m, NEW top, NEW p
  PROVE  /\ Levelwise(m, top, p)[Levels] = WalkAt(m, p, Levels, top)
         /\ \A l \in 1..(Levels - 1) :
              Levelwise(m, top, p)[l] = WalkBelow(m, p, l, Levelwise(m, top, p)[l + 1])
<1> DEFINE Step(w) == [l \in 1..Levels |-> IF l = Levels THEN WalkAt(m, p, Levels, top)
                                           ELSE WalkBelow(m, p, l, w[l + 1])]
           v4 == WalkAt(m, p, Levels, top)
           v3 == WalkBelow(m, p, Levels - 1, v4)
           v2 == WalkBelow(m, p, Levels - 2, v3)
           v1 == WalkBelow(m, p, Levels - 3, v2)
           v == [l \in 1..Levels |-> CASE l = Levels -> v4 [] l = Levels - 1 -> v3
                                       [] l = Levels - 2 -> v2 [] OTHER -> v1]
<1>1. Levels \in 2..4
  BY SmallApart
<1>2. Levelwise(m, top, p) = CHOOSE w : w = Step(w)
  BY DEF Levelwise, WalkAt, WalkBelow
<1>3. v = Step(v)
  <2>8. /\ v[Levels] = v4 /\ v[Levels - 1] = v3
        /\ Levels - 2 \in 1..Levels => v[Levels - 2] = v2
        /\ Levels - 3 \in 1..Levels => v[Levels - 3] = v1
    <3> HIDE DEF v1, v2, v3, v4
    <3> QED  BY <1>1
  <2>9. \A l \in 1..Levels : Step(v)[l] = IF l = Levels THEN WalkAt(m, p, Levels, top)
                                         ELSE WalkBelow(m, p, l, v[l + 1])
    <3> HIDE DEF v
    <3> QED  OBVIOUS
  <2> HIDE DEF Step, v
  <2>1. \A l \in 1..Levels : v[l] = Step(v)[l]
    <3> TAKE l \in 1..Levels
    <3>1. l = Levels \/ l = Levels - 1 \/ l = Levels - 2 \/ l = Levels - 3
      BY <1>1
    <3>2. CASE l = Levels
      BY <2>8, <2>9, <3>2
    <3>3. CASE l = Levels - 1
      <4>1. l # Levels /\ l + 1 = Levels
        BY <1>1, <3>3
      <4> QED  BY <2>8, <2>9, <3>3, <4>1
    <3>4. CASE l = Levels - 2
      <4>1. l # Levels /\ l + 1 = Levels - 1
        BY <1>1, <3>4
      <4> QED  BY <2>8, <2>9, <3>4, <4>1
    <3>5. CASE l = Levels - 3
      <4>1. l # Levels /\ l + 1 = Levels - 2 /\ Levels - 2 \in 1..Levels
        BY <1>1, <3>5
      <4> QED  BY <2>8, <2>9, <3>5, <4>1
    <3> QED  BY <3>1, <3>2, <3>3, <3>4, <3>5
  <2>2. v = [l \in 1..Levels |-> v[l]] /\ Step(v) = [l \in 1..Levels |-> Step(v)[l]]
    BY DEF v, Step
  <2> QED  BY <2>1, <2>2
<1> HIDE DEF v
<1>4. \E w : w = Step(w)
  BY <1>3
<1>5. Levelwise(m, top, p) = Step(Levelwise(m, top, p))
  <2> HIDE DEF Step
  <2> QED  BY <1>2, <1>4
<1> QED  BY <1>1, <1>5

\* What holds at the top, and under every level where it holds, holds at all of them.
LEMMA DownLevels ==
  ASSUME NEW S, Levels \in S, \A l \in 1..(Levels - 1) : l + 1 \in S => l \in S
  PROVE  1..Levels \subseteq S
<1>1. Levels \in 2..4
  BY SmallApart
<1>2. Levels - 1 \in S
  <2>1. Levels - 1 \in 1..(Levels - 1) /\ (Levels - 1) + 1 = Levels
    BY <1>1
  <2> QED  BY <2>1
<1>3. Levels - 2 \in 1..Levels => Levels - 2 \in S
  <2>1. Levels - 2 \in 1..Levels => Levels - 2 \in 1..(Levels - 1) /\ (Levels - 2) + 1 = Levels - 1
    BY <1>1
  <2> QED  BY <1>2, <2>1
<1>4. Levels - 3 \in 1..Levels => Levels - 3 \in S
  <2>1. Levels - 3 \in 1..Levels => /\ Levels - 3 \in 1..(Levels - 1) /\ (Levels - 3) + 1 = Levels - 2
                                    /\ Levels - 2 \in 1..Levels
    BY <1>1
  <2> QED  BY <1>3, <2>1
<1>5. \A l \in 1..Levels : l = Levels \/ l = Levels - 1 \/ l = Levels - 2 \/ l = Levels - 3
  BY <1>1
<1> QED  BY <1>2, <1>3, <1>4, <1>5

\* A walk is the same in memories that agree on the entries it looks at.
LEMMA WalkLocal ==
  ASSUME NEW m, NEW n, NEW top, NEW p,
         \A l \in 1..Levels :
           LET w == Levelwise(m, top, p)[l] IN w.level = l => n[w.table][p[l]] = w.entry
  PROVE  \A l \in 1..Levels : Levelwise(n, top, p)[l] = Levelwise(m, top, p)[l]
<1> DEFINE W(l) == Levelwise(m, top, p)[l]
           V(l) == Levelwise(n, top, p)[l]
           S == {l \in 1..Levels : V(l) = W(l)}
<1>1. Levels \in 2..4
  BY SmallApart
<1>2. /\ W(Levels) = WalkAt(m, p, Levels, top) /\ V(Levels) = WalkAt(n, p, Levels, top)
      /\ \A l \in 1..(Levels - 1) :
           W(l) = WalkBelow(m, p, l, W(l + 1)) /\ V(l) = WalkBelow(n, p, l, V(l + 1))
  BY LevelwiseIs
<1>3. \A l \in 1..Levels : W(l).level = l => n[W(l).table][p[l]] = W(l).entry
  OBVIOUS
<1> HIDE DEF W, V
<1>4. Levels \in S
  <2>1. W(Levels).level = Levels /\ W(Levels).table = top /\ W(Levels).entry = m[top][p[Levels]]
    BY <1>2 DEF WalkAt
  <2>2. n[top][p[Levels]] = m[top][p[Levels]]
    BY <1>1, <1>3, <2>1
  <2> QED  BY <1>1, <1>2, <2>2 DEF WalkAt
<1>5. ASSUME NEW l \in 1..(Levels - 1), l + 1 \in S
      PROVE  l \in S
  <2>1. V(l + 1) = W(l + 1) /\ l \in 1..Levels
    BY <1>1, <1>5
  <2>2. CASE W(l + 1).level = l + 1 /\ W(l + 1).entry.present /\ ~W(l + 1).entry.ps
    <3>1. PICK t : t = W(l + 1).entry.frame
      OBVIOUS
    <3>2. W(l) = WalkAt(m, p, l, t) /\ V(l) = WalkAt(n, p, l, t)
      BY <1>2, <2>1, <2>2, <3>1 DEF WalkBelow
    <3>3. W(l).level = l /\ W(l).table = t /\ W(l).entry = m[t][p[l]]
      BY <3>2 DEF WalkAt
    <3>4. n[t][p[l]] = m[t][p[l]]
      BY <1>3, <2>1, <3>3
    <3> QED  BY <2>1, <3>2, <3>4 DEF WalkAt
  <2>3. CASE ~(W(l + 1).level = l + 1 /\ W(l + 1).entry.present /\ ~W(l + 1).entry.ps)
    <3>1. W(l) = W(l + 1) /\ V(l) = V(l + 1)
      BY <1>2, <2>1, <2>3 DEF WalkBelow
    <3> QED  BY <2>1, <3>1
  <2> QED  BY <2>2, <2>3
<1>6. 1..Levels \subseteq S
  <2> HIDE DEF S
  <2> QED  BY <1>4, <1>5, DownLevels
<1> QED  BY <1>6 DEF V, W

-----------------------------------------------------------------------------
\* What an entry of a table at level l may hold.
Leads(e, l, next, lev) ==
  IF l = 1 THEN ~e.ps /\ (e.frame \in Small => e.frame < next /\ lev[e.frame] = 0)
  ELSE IF e.ps THEN l = 2 /\ e.frame = LargeBase
  ELSE e.frame \in Small /\ e.frame < next /\ lev[e.frame] = l - 1

Points(m, lev, t, i) == lev[t] >= 2 /\ m[t][i].present /\ ~m[t][i].ps

\* Frames that serve as tables have a level, those below the top one are pointed to by
\* one entry, and no page is mapped to a table.
Tables(m, next, lev) ==
  /\ lev \in [Small -> 0..Levels] /\ lev[0] = Levels
  /\ \A t \in Small : lev[t] # 0 => t < next
  /\ \A t \in Small : t >= next => m[t] = Blank
  /\ \A t \in Small, i \in Idx :
       lev[t] # 0 /\ m[t][i].present => Leads(m[t][i], lev[t], next, lev)
  /\ \A t, u \in Small, i, j \in Idx :
       Points(m, lev, t, i) /\ Points(m, lev, u, j) /\ m[t][i].frame = m[u][j].frame
         => t = u /\ i = j

Memories == [Frames -> [Idx -> Entry]]

\* What is cached is what a walk gives.
Backs(w, p, kind, f) == w.entry.present /\ f = w.entry.frame + Offset(p, w.level) /\ Permits(w.entry, kind)
Coherent(m, top, t) == \A a \in DOMAIN t : Backs(Walk(m, top, a[1]), a[1], a[2], t[a])

TlbTyped(t) ==
  /\ DOMAIN t \subseteq Pages \X Kinds /\ \A a \in DOMAIN t : t[a] \in Frames
  /\ IsFiniteSet(DOMAIN t) /\ Cardinality(DOMAIN t) <= TlbLimit

\* Tables, those of the spaces at the top.
Rooted(m, next, roots, lev) == Tables(m, next, lev) /\ \A r \in DOMAIN roots : lev[roots[r]] = Levels

\* The inductive invariant.
MmuInv ==
  /\ mem \in Memories /\ nextFrame \in 0..MaxFrames
  /\ spaces \in Seq(Small) /\ \E r \in DOMAIN spaces : cr3 = spaces[r]
  /\ \E lev \in [Small -> 0..Levels] : Rooted(mem, nextFrame, spaces, lev)
  /\ TlbTyped(tlb) /\ Coherent(mem, cr3, tlb)
  /\ last \in Access

\* The place a walk is at.
Found(m, lev, p, w, l) ==
  /\ w.level \in l..Levels /\ w.table \in Small /\ lev[w.table] = w.level
  /\ w.entry = m[w.table][p[w.level]]
  /\ w.level # l => ~w.entry.present \/ w.entry.ps

\* A walk that starts at a top-level table goes through tables of the right level.
LEMMA WalkFound ==
  ASSUME NEW m \in Memories, NEW next, NEW lev, Tables(m, next, lev),
         NEW top \in Small, lev[top] = Levels, NEW p \in Pages
  PROVE  \A l \in 1..Levels : Found(m, lev, p, Levelwise(m, top, p)[l], l)
<1> DEFINE W(l) == Levelwise(m, top, p)[l]
           S == {l \in 1..Levels : Found(m, lev, p, W(l), l)}
<1>1. Levels \in 2..4
  BY SmallApart
<1>2. /\ W(Levels) = WalkAt(m, p, Levels, top)
      /\ \A l \in 1..(Levels - 1) : W(l) = WalkBelow(m, p, l, W(l + 1))
  BY LevelwiseIs
<1> HIDE DEF W
<1>3. Levels \in S
  <2>1. W(Levels).level = Levels /\ W(Levels).table = top /\ W(Levels).entry = m[top][p[Levels]]
    BY <1>2 DEF WalkAt
  <2> QED  BY <1>1, <2>1 DEF Found
<1>4. ASSUME NEW l \in 1..(Levels - 1), l + 1 \in S
      PROVE  l \in S
  <2>1. Found(m, lev, p, W(l + 1), l + 1) /\ l \in 1..Levels
    BY <1>1, <1>4
  <2>2. CASE W(l + 1).level = l + 1 /\ W(l + 1).entry.present /\ ~W(l + 1).entry.ps
    <3>1. PICK e, t : e = W(l + 1).entry /\ t = W(l + 1).table
      OBVIOUS
    <3>2. t \in Small /\ lev[t] = l + 1 /\ e = m[t][p[l + 1]] /\ e.present /\ ~e.ps
      BY <2>1, <2>2, <3>1 DEF Found
    <3>3. p[l + 1] \in Idx /\ l + 1 # 0 /\ l + 1 # 1 /\ (l + 1) - 1 = l
      BY <1>1 DEF Pages
    <3>4. e.frame \in Small /\ lev[e.frame] = l
      BY <3>2, <3>3 DEF Tables, Leads
    <3>5. W(l) = WalkAt(m, p, l, e.frame)
      BY <1>2, <2>2, <3>1 DEF WalkBelow
    <3>6. W(l).level = l /\ W(l).table = e.frame /\ W(l).entry = m[e.frame][p[l]]
      BY <3>5 DEF WalkAt
    <3> QED  BY <1>1, <2>1, <3>4, <3>6 DEF Found
  <2>3. CASE ~(W(l + 1).level = l + 1 /\ W(l + 1).entry.present /\ ~W(l + 1).entry.ps)
    <3>1. W(l) = W(l + 1)
      BY <1>2, <2>3 DEF WalkBelow
    <3> QED  BY <1>1, <2>1, <2>3, <3>1 DEF Found
  <2> QED  BY <2>2, <2>3
<1>5. 1..Levels \subseteq S
  <2> HIDE DEF S
  <2> QED  BY <1>3, <1>4, DownLevels
<1> QED  BY <1>5 DEF W

-----------------------------------------------------------------------------
\* Identity frames are apart from the allocator's.
LEMMA NumberType == \A p \in Pages : Number(p) \in Nat
<1> TAKE p \in Pages
<1> DEFINE Step(w) == [l \in 1..Levels |-> IF l = Levels THEN p[l] ELSE w[l + 1] * N + p[l]]
           v4 == p[Levels]
           v3 == v4 * N + p[Levels - 1]
           v2 == v3 * N + p[Levels - 2]
           v1 == v2 * N + p[Levels - 3]
           v == [l \in 1..Levels |-> CASE l = Levels -> v4 [] l = Levels - 1 -> v3
                                       [] l = Levels - 2 -> v2 [] OTHER -> v1]
           number == CHOOSE w : w = Step(w)
<1>1. Levels \in 2..4 /\ N \in Nat /\ \A l \in 1..Levels : p[l] \in Nat
  BY MmuAssumption DEF Pages
<1>2. Number(p) = number[1]
  BY DEF Number
<1>3. v = Step(v)
  <2>8. /\ v[Levels] = v4 /\ v[Levels - 1] = v3
        /\ Levels - 2 \in 1..Levels => v[Levels - 2] = v2
        /\ Levels - 3 \in 1..Levels => v[Levels - 3] = v1
    <3> HIDE DEF v1, v2, v3, v4
    <3> QED  BY <1>1
  <2>9. \A l \in 1..Levels : Step(v)[l] = IF l = Levels THEN p[l] ELSE v[l + 1] * N + p[l]
    <3> HIDE DEF v
    <3> QED  OBVIOUS
  <2> HIDE DEF Step, v
  <2>1. \A l \in 1..Levels : v[l] = Step(v)[l]
    <3> TAKE l \in 1..Levels
    <3>1. l = Levels \/ l = Levels - 1 \/ l = Levels - 2 \/ l = Levels - 3
      BY <1>1
    <3>2. CASE l = Levels
      BY <2>8, <2>9, <3>2
    <3>3. CASE l = Levels - 1
      <4>1. l # Levels /\ l + 1 = Levels
        BY <1>1, <3>3
      <4> QED  BY <2>8, <2>9, <3>3, <4>1
    <3>4. CASE l = Levels - 2
      <4>1. l # Levels /\ l + 1 = Levels - 1
        BY <1>1, <3>4
      <4> QED  BY <2>8, <2>9, <3>4, <4>1
    <3>5. CASE l = Levels - 3
      <4>1. l # Levels /\ l + 1 = Levels - 2 /\ Levels - 2 \in 1..Levels
        BY <1>1, <3>5
      <4> QED  BY <2>8, <2>9, <3>5, <4>1
    <3> QED  BY <3>1, <3>2, <3>3, <3>4, <3>5
  <2>2. v = [l \in 1..Levels |-> v[l]] /\ Step(v) = [l \in 1..Levels |-> Step(v)[l]]
    BY DEF v, Step
  <2> QED  BY <2>1, <2>2
<1> HIDE DEF v
<1>4. \E w : w = Step(w)
  BY <1>3
<1>20. number = CHOOSE w : w = Step(w)
  OBVIOUS
<1> HIDE DEF number
<1>5. number = Step(number)
  <2> HIDE DEF Step
  <2> QED  BY <1>4, <1>20
<1> DEFINE S == {l \in 1..Levels : number[l] \in Nat}
<1>6. /\ number[Levels] = p[Levels]
      /\ \A l \in 1..(Levels - 1) : number[l] = number[l + 1] * N + p[l]
  BY <1>1, <1>5
<1>7. Levels \in S
  BY <1>1, <1>6
<1>8. ASSUME NEW l \in 1..(Levels - 1), l + 1 \in S
      PROVE  l \in S
  <2>1. PICK k \in Nat, q \in Nat, n \in Nat : k = number[l + 1] /\ q = p[l] /\ n = N
    BY <1>1, <1>8
  <2>2. k * n + q \in Nat
    OBVIOUS
  <2> QED  BY <1>1, <1>6, <2>1, <2>2
<1>9. 1 \in S
  <2> HIDE DEF S
  <2> QED  BY <1>1, <1>7, <1>8, DownLevels
<1> QED  BY <1>2, <1>9

LEMMA FramesTypes == /\ Frames \subseteq Nat
                     /\ \A p \in TsegPages : IdentityPa(p) \in Frames /\ IdentityPa(p) \notin Small
                     /\ \A i \in Idx : LargeBase + i \in Frames /\ LargeBase + i \notin Small
<1>1. \A p \in TsegPages : Number(p) \in Nat
  BY NumberType, MmuAssumption DEF Pages
<1>2. \A p \in TsegPages : IdentityPa(p) \in Nat /\ IdentityPa(p) > MaxFrames
  BY <1>1, SmallApart DEF IdentityPa
<1>3. Idx = 0..(N - 1)
  BY MmuAssumption
<1> QED  BY <1>2, <1>3, SmallApart DEF Frames, Small

-----------------------------------------------------------------------------
\* A frame that pages are mapped to.
Data(f, next, lev) == f \in Frames /\ (f \in Small => f < next /\ lev[f] = 0)

\* The frame a walk leads to.
Reached(p, w) == w.entry.frame + Offset(p, w.level)

\* Where a walk ends, and that a page is mapped to data.
LEMMA WalkEnds ==
  ASSUME NEW m \in Memories, NEW next, NEW lev, Tables(m, next, lev),
         NEW top \in Small, lev[top] = Levels, NEW p \in Pages
  PROVE  LET w == Walk(m, top, p) IN
         /\ w.level \in 1..Levels /\ w.table \in Small /\ w.table < next /\ lev[w.table] = w.level
         /\ w.entry = m[w.table][p[w.level]] /\ w.entry \in Entry /\ p[w.level] \in Idx
         /\ w.entry.present =>
              /\ Data(Reached(p, w), next, lev)
              /\ (w.level = 1 /\ ~w.entry.ps) \/ (w.level = 2 /\ w.entry.ps)
<1>0. PICK w : w = Walk(m, top, p)
  OBVIOUS
<1>1. Levels \in 2..4 /\ 1 \in 1..Levels
  BY SmallApart
<1>2. Found(m, lev, p, w, 1)
  BY <1>0, <1>1, WalkFound DEF Walk
<1>3. /\ w.level \in 1..Levels /\ w.table \in Small /\ lev[w.table] = w.level
      /\ w.entry = m[w.table][p[w.level]] /\ (w.level # 1 => ~w.entry.present \/ w.entry.ps)
  BY <1>2 DEF Found
<1>4. p[w.level] \in Idx /\ w.entry \in Entry /\ w.table < next
  <2>1. p[w.level] \in Idx
    BY <1>3 DEF Pages
  <2>2. w.table < next
    BY <1>1, <1>3 DEF Tables
  <2> QED  BY <1>3, <2>1, <2>2, SmallApart DEF Memories
<1>5. ASSUME w.entry.present
      PROVE  /\ Data(Reached(p, w), next, lev)
             /\ (w.level = 1 /\ ~w.entry.ps) \/ (w.level = 2 /\ w.entry.ps)
  <2>1. Leads(w.entry, w.level, next, lev)
    <3>1. w.level # 0
      BY <1>3
    <3> QED  BY <1>3, <1>4, <1>5, <3>1 DEF Tables
  <2>2. w.entry.frame \in Frames /\ w.entry.frame \in Nat
    BY <1>4, FramesTypes DEF Entry
  <2>3. CASE w.level = 1
    <3>1. Reached(p, w) = w.entry.frame
      BY <2>2, <2>3 DEF Reached, Offset
    <3> QED  BY <2>1, <2>2, <2>3, <3>1 DEF Leads, Data
  <2>4. CASE w.level # 1
    <3>1. w.level = 2 /\ w.entry.ps /\ w.entry.frame = LargeBase
      BY <1>3, <1>5, <2>1, <2>4 DEF Leads
    <3>2. Reached(p, w) = LargeBase + p[1] /\ p[1] \in Idx
      BY <1>1, <3>1 DEF Reached, Offset, Pages
    <3> QED  BY <3>1, <3>2, FramesTypes DEF Data
  <2> QED  BY <2>3, <2>4
<1> QED  BY <1>0, <1>3, <1>4, <1>5

\* A word is written in a frame that is no table, or an entry of a leaf table, or one that
\* points to no table.
WithWord(m, t, i, e) == [m EXCEPT ![t][i] = e]

LEMMA WordStep ==
  ASSUME NEW m \in Memories, NEW next \in Nat, NEW lev, Tables(m, next, lev),
         NEW t \in Frames, NEW i \in Idx, NEW e \in Entry,
         t \in Small => /\ t < next
                        /\ lev[t] # 0 /\ e.present => Leads(e, lev[t], next, lev)
                        /\ lev[t] >= 2 => ~e.present \/ e.ps
  PROVE  LET n == WithWord(m, t, i, e) IN
         /\ n \in Memories /\ n[t][i] = e
         /\ \A u \in Frames, j \in Idx : u # t \/ j # i => n[u][j] = m[u][j]
         /\ Tables(n, next, lev)
<1> DEFINE n == WithWord(m, t, i, e)
<1>1. /\ n \in Memories /\ n[t][i] = e
      /\ \A u \in Frames, j \in Idx : u # t \/ j # i => n[u][j] = m[u][j]
      /\ \A u \in Frames : u # t => n[u] = m[u]
  BY DEF Memories, WithWord
<1> HIDE DEF n
<1>2. Small \subseteq Frames /\ Small \subseteq Nat /\ \A u \in Small : lev[u] \in Nat
  <2>1. lev \in [Small -> 0..Levels] /\ Levels \in Nat
    BY SmallApart DEF Tables
  <2> QED  BY <2>1, SmallApart DEF Small
<1>3. \A u \in Small, j \in Idx : lev[u] # 0 /\ n[u][j].present => Leads(n[u][j], lev[u], next, lev)
  <2> TAKE u \in Small, j \in Idx
  <2>1. CASE u = t /\ j = i
    BY <1>1, <2>1
  <2>2. CASE u # t \/ j # i
    <3>1. n[u][j] = m[u][j]
      BY <1>1, <1>2, <2>2
    <3> QED  BY <3>1 DEF Tables
  <2> QED  BY <2>1, <2>2
<1>4. \A u \in Small, j \in Idx : Points(n, lev, u, j) => Points(m, lev, u, j) /\ n[u][j] = m[u][j]
  <2> TAKE u \in Small, j \in Idx
  <2>1. CASE u = t /\ j = i
    BY <1>1, <2>1 DEF Points
  <2>2. CASE u # t \/ j # i
    <3>1. n[u][j] = m[u][j]
      BY <1>1, <1>2, <2>2
    <3> QED  BY <3>1 DEF Points
  <2> QED  BY <2>1, <2>2
<1>5. \A u, v \in Small, j, k \in Idx :
         Points(n, lev, u, j) /\ Points(n, lev, v, k) /\ n[u][j].frame = n[v][k].frame => u = v /\ j = k
  BY <1>4 DEF Tables
<1>6. \A u \in Small : u >= next => n[u] = Blank
  <2> TAKE u \in Small
  <2>1. u >= next => u # t
    BY <1>2
  <2> QED  BY <1>1, <1>2, <2>1 DEF Tables
<1>7. Tables(n, next, lev)
  BY <1>3, <1>5, <1>6 DEF Tables
<1> QED  BY <1>1, <1>7 DEF n

\* Above the level it ends at a walk goes through present entries of tables, and below it
\* stays where it ended.
LEMMA WalkStops ==
  ASSUME NEW m \in Memories, NEW next, NEW lev, Tables(m, next, lev),
         NEW top \in Small, lev[top] = Levels, NEW p \in Pages,
         NEW W, W = Levelwise(m, top, p)
  PROVE  \A l \in 1..Levels :
           /\ l <= W[1].level => W[l] = W[1]
           /\ l > W[1].level => /\ W[l].level = l /\ W[l].entry = m[W[l].table][p[l]]
                                /\ W[l].entry.present /\ ~W[l].entry.ps
                                /\ W[l - 1] = WalkAt(m, p, l - 1, W[l].entry.frame)
<1> DEFINE P(l) == \A k \in l..Levels :
                     /\ k <= W[l].level => W[k] = W[l]
                     /\ k > W[l].level => W[k].level = k /\ W[k].entry.present /\ ~W[k].entry.ps
           S == {l \in 1..Levels : P(l)}
<1>1. Levels \in 2..4
  BY SmallApart
<1>2. \A l \in 1..(Levels - 1) : W[l] = WalkBelow(m, p, l, W[l + 1])
  BY LevelwiseIs
<1>3. \A l \in 1..Levels : Found(m, lev, p, W[l], l)
  BY WalkFound
<1>4. Levels \in S
  <2>1. \A k \in Levels..Levels : k = Levels
    BY <1>1
  <2>2. W[Levels].level = Levels
    <3>1. W[Levels].level \in Levels..Levels
      BY <1>1, <1>3 DEF Found
    <3> QED  BY <2>1, <3>1
  <2> QED  BY <1>1, <2>1, <2>2
<1>5. ASSUME NEW l \in 1..(Levels - 1), l + 1 \in S
      PROVE  l \in S
  <2>1. P(l + 1) /\ l \in 1..Levels /\ l + 1 \in 1..Levels /\ l \in Nat /\ Levels \in Nat
    BY <1>1, <1>5
  <2>2. \A k \in l..Levels : k = l \/ k \in (l + 1)..Levels
    BY <2>1
  <2>3. CASE W[l + 1].level = l + 1 /\ W[l + 1].entry.present /\ ~W[l + 1].entry.ps
    <3>0. W[l] = WalkAt(m, p, l, W[l + 1].entry.frame)
      BY <1>2, <2>3 DEF WalkBelow
    <3>1. W[l].level = l
      BY <3>0 DEF WalkAt
    <3>2. \A k \in (l + 1)..Levels : W[k].level = k /\ W[k].entry.present /\ ~W[k].entry.ps
      <4> TAKE k \in (l + 1)..Levels
      <4>1. CASE k = l + 1
        BY <2>3, <4>1
      <4>2. CASE k # l + 1
        BY <2>1, <2>3, <4>2
      <4> QED  BY <4>1, <4>2
    <3> QED  BY <2>1, <2>2, <3>1, <3>2
  <2>4. CASE ~(W[l + 1].level = l + 1 /\ W[l + 1].entry.present /\ ~W[l + 1].entry.ps)
    <3>1. W[l] = W[l + 1]
      BY <1>2, <2>4 DEF WalkBelow
    <3>2. W[l + 1].level \in (l + 1)..Levels
      BY <1>3, <2>1 DEF Found
    <3> QED  BY <2>1, <2>2, <3>1, <3>2
  <2> QED  BY <2>3, <2>4
<1>6. P(1)
  <2>1. 1 \in S
    <3> HIDE DEF S
    <3> QED  BY <1>1, <1>4, <1>5, DownLevels
  <2> QED  BY <2>1
<1> HIDE DEF P, S
<1>7. ASSUME NEW l \in 1..Levels
      PROVE  /\ l <= W[1].level => W[l] = W[1]
             /\ l > W[1].level => /\ W[l].level = l /\ W[l].entry = m[W[l].table][p[l]]
                                  /\ W[l].entry.present /\ ~W[l].entry.ps
                                  /\ W[l - 1] = WalkAt(m, p, l - 1, W[l].entry.frame)
  <2>1. /\ l <= W[1].level => W[l] = W[1]
        /\ l > W[1].level => W[l].level = l /\ W[l].entry.present /\ ~W[l].entry.ps
    BY <1>6 DEF P
  <2>2. ASSUME l > W[1].level
        PROVE  /\ W[l].entry = m[W[l].table][p[l]]
               /\ W[l - 1] = WalkAt(m, p, l - 1, W[l].entry.frame)
    <3>1. W[1].level \in 1..Levels /\ W[l].entry = m[W[l].table][p[W[l].level]]
      BY <1>1, <1>3 DEF Found
    <3>2. l - 1 \in 1..(Levels - 1) /\ (l - 1) + 1 = l
      BY <1>1, <2>2, <3>1
    <3>3. W[l - 1] = WalkBelow(m, p, l - 1, W[l])
      BY <1>2, <3>2
    <3> QED  BY <2>1, <2>2, <3>1, <3>2, <3>3 DEF WalkBelow
  <2> QED  BY <2>1, <2>2
<1> QED  BY <1>7

-----------------------------------------------------------------------------
\* mapPage, level by level.
BuildBelow(p, l, above) ==
  IF above.mem[above.table][p[l + 1]].present
  THEN [above EXCEPT !.table = above.mem[above.table][p[l + 1]].frame]
  ELSE [mem |-> [above.mem EXCEPT ![above.table][p[l + 1]] = TableEntry(above.next),
                                  ![above.next] = Blank],
        next |-> above.next + 1, table |-> above.next]

BuildAt(m, next, p, w) ==
  [l \in 1..Levels |-> IF l = Levels THEN [mem |-> m, next |-> next, table |-> cr3]
                       ELSE BuildBelow(p, l, w[l + 1])]

Built(m, next, p) == CHOOSE w : w = BuildAt(m, next, p, w)

Leaf(f, flags) == [frame |-> f, present |-> TRUE, write |-> flags.write,
                   user |-> flags.user, nx |-> flags.nx, ps |-> FALSE]

\* The function of MapPage is the one its equation defines.
LEMMA BuiltIs ==
  ASSUME NEW m, NEW next, NEW p, NEW B, B = Built(m, next, p)
  PROVE  /\ B[Levels] = [mem |-> m, next |-> next, table |-> cr3]
         /\ \A l \in 1..(Levels - 1) : B[l] = BuildBelow(p, l, B[l + 1])
<1> DEFINE Step(w) == BuildAt(m, next, p, w)
           v4 == [mem |-> m, next |-> next, table |-> cr3]
           v3 == BuildBelow(p, Levels - 1, v4)
           v2 == BuildBelow(p, Levels - 2, v3)
           v1 == BuildBelow(p, Levels - 3, v2)
           v == [l \in 1..Levels |-> CASE l = Levels -> v4 [] l = Levels - 1 -> v3
                                       [] l = Levels - 2 -> v2 [] OTHER -> v1]
<1>1. Levels \in 2..4
  BY SmallApart
<1>3. v = Step(v)
  <2>8. /\ v[Levels] = v4 /\ v[Levels - 1] = v3
        /\ Levels - 2 \in 1..Levels => v[Levels - 2] = v2
        /\ Levels - 3 \in 1..Levels => v[Levels - 3] = v1
    <3> HIDE DEF v1, v2, v3, v4
    <3> QED  BY <1>1
  <2>9. \A l \in 1..Levels : Step(v)[l] = IF l = Levels THEN v4 ELSE BuildBelow(p, l, v[l + 1])
    <3> HIDE DEF v
    <3> QED  BY DEF BuildAt
  <2>2. v = [l \in 1..Levels |-> v[l]] /\ Step(v) = [l \in 1..Levels |-> Step(v)[l]]
    <3>1. v = [l \in 1..Levels |-> v[l]]
      BY DEF v
    <3> HIDE DEF v
    <3> QED  BY <3>1 DEF BuildAt
  <2> HIDE DEF Step, v
  <2>1. \A l \in 1..Levels : v[l] = Step(v)[l]
    <3> TAKE l \in 1..Levels
    <3>1. l = Levels \/ l = Levels - 1 \/ l = Levels - 2 \/ l = Levels - 3
      BY <1>1
    <3> HIDE DEF v1, v2, v3, v4
    <3>2. CASE l = Levels
      BY <2>8, <2>9, <3>2
    <3>3. CASE l = Levels - 1
      <4>1. l # Levels /\ l + 1 = Levels
        BY <1>1, <3>3
      <4> QED  BY <2>8, <2>9, <3>3, <4>1 DEF v3
    <3>4. CASE l = Levels - 2
      <4>1. l # Levels /\ l + 1 = Levels - 1
        BY <1>1, <3>4
      <4> QED  BY <2>8, <2>9, <3>4, <4>1 DEF v2
    <3>5. CASE l = Levels - 3
      <4>1. l # Levels /\ l + 1 = Levels - 2 /\ Levels - 2 \in 1..Levels
        BY <1>1, <3>5
      <4> QED  BY <2>8, <2>9, <3>5, <4>1 DEF v1
    <3> QED  BY <3>1, <3>2, <3>3, <3>4, <3>5
  <2> QED  BY <2>1, <2>2
<1> HIDE DEF v
<1>4. \E w : w = BuildAt(m, next, p, w)
  BY <1>3
<1>5. Built(m, next, p) = BuildAt(m, next, p, Built(m, next, p))
  BY <1>4 DEF Built
<1>7. B = BuildAt(m, next, p, B)
  BY <1>5
<1>8. \A l \in 1..Levels : B[l] = IF l = Levels THEN v4 ELSE BuildBelow(p, l, B[l + 1])
  BY <1>7 DEF BuildAt
<1>9. Levels \in 1..Levels /\ \A l \in 1..(Levels - 1) : l \in 1..Levels /\ l # Levels
  BY <1>1
<1> QED  BY <1>8, <1>9

LEMMA MapPageIs ==
  ASSUME NEW m, NEW next, NEW p, NEW f, NEW flags
  PROVE  LET b == Built(m, next, p)[1] IN
         /\ MapPage(m, next, p, f, flags).mem = WithWord(b.mem, b.table, p[1], Leaf(f, flags))
         /\ MapPage(m, next, p, f, flags).next = b.next
BY DEF MapPage, Built, BuildAt, BuildBelow, Leaf, WithWord

-----------------------------------------------------------------------------
\* A table that is allocated for an entry that is not present.
WithTable(m, t, i, next) == [m EXCEPT ![t][i] = TableEntry(next), ![next] = Blank]
WithLevel(lev, next, l) == [lev EXCEPT ![next] = l]

\* A new table under an empty entry, which nothing else points to.
LEMMA BuildStep ==
  ASSUME NEW m \in Memories, NEW next \in Nat, NEW lev, Tables(m, next, lev), next < MaxFrames,
         NEW l \in 1..(Levels - 1), NEW t \in Small, lev[t] = l + 1,
         NEW i \in Idx, ~m[t][i].present
  PROVE  LET n == WithTable(m, t, i, next)
             lew == WithLevel(lev, next, l)
         IN
         /\ n \in Memories /\ Tables(n, next + 1, lew)
         /\ next \in Small /\ lev[next] = 0 /\ lew[next] = l /\ n[next] = Blank
         /\ \A u \in Small : u < next => lew[u] = lev[u]
         /\ t # next /\ n[t][i] = TableEntry(next)
         /\ \A u \in Frames, j \in Idx : u # next /\ (u # t \/ j # i) => n[u][j] = m[u][j]
<1> DEFINE n == WithTable(m, t, i, next)
           lew == WithLevel(lev, next, l)
<1>1. /\ Small \subseteq Frames /\ Levels \in 2..4 /\ next \in Small /\ l \in Nat /\ l >= 1 /\ l < Levels
      /\ Small \subseteq Nat
  BY SmallApart DEF Small
<1>2. lev[next] = 0 /\ t < next /\ t # next /\ next # 0
  <2>1. lev[t] # 0 /\ lev[0] = Levels /\ 0 \in Small
    BY <1>1, SmallApart DEF Tables
  <2>2. t < next /\ (lev[next] # 0 => next < next)
    BY <1>1, <2>1 DEF Tables
  <2>3. t # next /\ ~(next < next)
    BY <1>1, <2>2
  <2>4. lev[next] = 0
    BY <2>2, <2>3
  <2> QED  BY <1>1, <2>1, <2>2, <2>3, <2>4
<1>3. TableEntry(next) \in Entry /\ Blank \in [Idx -> Entry]
  <2>1. Zero \in Entry
    BY FramesTypes, SmallApart DEF Zero, Entry
  <2> QED  BY <1>1, <2>1 DEF TableEntry, Blank, Entry, Zero
<1>4. /\ n \in Memories /\ n[next] = Blank /\ n[t][i] = TableEntry(next)
      /\ \A u \in Frames, j \in Idx : u # next /\ (u # t \/ j # i) => n[u][j] = m[u][j]
      /\ \A u \in Frames : u # next /\ u # t => n[u] = m[u]
  BY <1>1, <1>2, <1>3 DEF Memories, WithTable
<1>5. lew \in [Small -> 0..Levels] /\ lew[next] = l /\ \A u \in Small : u # next => lew[u] = lev[u]
  BY <1>1 DEF Tables, WithLevel
<1> HIDE DEF n, lew
<1>6. \A u \in Small : lev[u] \in Nat /\ lew[u] \in Nat
  BY <1>1, <1>5 DEF Tables
<1>7. \A u \in Small, j \in Idx : lew[u] # 0 /\ n[u][j].present /\ (u # t \/ j # i) =>
         u # next /\ lev[u] = lew[u] /\ n[u][j] = m[u][j]
  <2> SUFFICES ASSUME NEW u \in Small, NEW j \in Idx, n[u][j].present, u # t \/ j # i
               PROVE  u # next /\ lev[u] = lew[u] /\ n[u][j] = m[u][j]
    OBVIOUS
  <2>1. u # next
    <3>1. Blank[j].present = FALSE
      BY DEF Blank, Zero
    <3> QED  BY <1>4, <3>1
  <2> QED  BY <1>1, <1>4, <1>5, <2>1
<1>8. /\ TableEntry(next).present /\ ~TableEntry(next).ps /\ TableEntry(next).frame = next
  BY DEF TableEntry, Zero
<1>9. \A u \in Small, j \in Idx : lew[u] # 0 /\ n[u][j].present => Leads(n[u][j], lew[u], next + 1, lew)
  <2> SUFFICES ASSUME NEW u \in Small, NEW j \in Idx, lew[u] # 0, n[u][j].present
               PROVE  Leads(n[u][j], lew[u], next + 1, lew)
    OBVIOUS
  <2>1. CASE u = t /\ j = i
    <3>1. lew[t] = l + 1 /\ n[t][i].frame = next /\ ~n[t][i].ps /\ next < next + 1
      BY <1>1, <1>2, <1>4, <1>5, <1>8
    <3>2. l + 1 # 1 /\ (l + 1) - 1 = l
      BY <1>1
    <3> QED  BY <1>1, <1>5, <2>1, <3>1, <3>2 DEF Leads
  <2>2. CASE u # t \/ j # i
    <3>1. PICK e, k : e = n[u][j] /\ k = lew[u]
      OBVIOUS
    <3>2. u # next /\ lev[u] = k /\ e = m[u][j] /\ k # 0 /\ e.present
      BY <1>7, <2>2, <3>1
    <3>3. Leads(e, k, next, lev)
      BY <3>2 DEF Tables
    <3>4. e.frame \in Small /\ e.frame < next => e.frame < next + 1 /\ lew[e.frame] = lev[e.frame]
      BY <1>1, <1>5
    <3> QED  BY <3>1, <3>3, <3>4 DEF Leads
  <2> QED  BY <2>1, <2>2
<1>10. \A u \in Small, j \in Idx : Points(n, lew, u, j) =>
          \/ u = t /\ j = i /\ n[u][j].frame = next
          \/ Points(m, lev, u, j) /\ n[u][j] = m[u][j] /\ n[u][j].frame # next
  <2> SUFFICES ASSUME NEW u \in Small, NEW j \in Idx, Points(n, lew, u, j), u # t \/ j # i
               PROVE  Points(m, lev, u, j) /\ n[u][j] = m[u][j] /\ n[u][j].frame # next
    BY <1>4, <1>8
  <2>1. lew[u] # 0 /\ lew[u] # 1 /\ n[u][j].present /\ ~n[u][j].ps
    BY <1>6 DEF Points
  <2>2. lev[u] = lew[u] /\ n[u][j] = m[u][j]
    BY <1>7, <2>1
  <2>3. Leads(m[u][j], lev[u], next, lev)
    BY <2>1, <2>2 DEF Tables
  <2>4. m[u][j].frame \in Small /\ m[u][j].frame < next
    BY <2>1, <2>2, <2>3 DEF Leads
  <2> QED  BY <1>1, <2>2, <2>4 DEF Points
<1>11. \A u, v \in Small, j, k \in Idx :
         Points(n, lew, u, j) /\ Points(n, lew, v, k) /\ n[u][j].frame = n[v][k].frame => u = v /\ j = k
  BY <1>10 DEF Tables
<1>12. \A u \in Small : u >= next + 1 => n[u] = Blank
  <2> TAKE u \in Small
  <2>1. u >= next + 1 => u # t /\ u # next /\ u >= next
    BY <1>1, <1>2
  <2> QED  BY <1>1, <1>4, <2>1 DEF Tables
<1>13. lew[0] = Levels /\ \A u \in Small : lew[u] # 0 => u < next + 1
  <2>1. lew[0] = Levels
    BY <1>2, <1>5, SmallApart DEF Tables
  <2>2. ASSUME NEW u \in Small, lew[u] # 0
        PROVE  u < next + 1
    <3>1. u = next \/ u < next
      BY <1>5, <2>2 DEF Tables
    <3> QED  BY <1>1, <3>1
  <2> QED  BY <2>1, <2>2
<1>14. Tables(n, next + 1, lew)
  BY <1>5, <1>9, <1>11, <1>12, <1>13 DEF Tables
<1>15. \A u \in Small : u < next => lew[u] = lev[u]
  BY <1>1, <1>5
<1> QED  BY <1>1, <1>2, <1>4, <1>5, <1>14, <1>15 DEF n, lew

-----------------------------------------------------------------------------
\* Down to the level the walk ends at, mapPage follows it and allocates nothing.
LEMMA BuiltFollows ==
  ASSUME NEW m \in Memories, NEW next, NEW lev, Tables(m, next, lev),
         cr3 \in Small, lev[cr3] = Levels, NEW p \in Pages,
         NEW B, B = Built(m, next, p), NEW W, W = Levelwise(m, cr3, p)
  PROVE  \A l \in 1..Levels : l >= W[1].level => B[l] = [mem |-> m, next |-> next, table |-> W[l].table]
<1> DEFINE P(l) == l >= W[1].level => B[l] = [mem |-> m, next |-> next, table |-> W[l].table]
           S == {l \in 1..Levels : P(l)}
<1>1. Levels \in 2..4
  BY SmallApart
<1>2. /\ B[Levels] = [mem |-> m, next |-> next, table |-> cr3]
      /\ \A l \in 1..(Levels - 1) : B[l] = BuildBelow(p, l, B[l + 1])
  BY BuiltIs
<1>3. W[Levels].table = cr3
  <2>1. W[Levels] = WalkAt(m, p, Levels, cr3)
    BY LevelwiseIs
  <2> QED  BY <2>1 DEF WalkAt
<1>4. \A l \in 1..Levels :
         l > W[1].level => /\ W[l].level = l /\ W[l].entry = m[W[l].table][p[l]]
                          /\ W[l].entry.present /\ ~W[l].entry.ps
                          /\ W[l - 1] = WalkAt(m, p, l - 1, W[l].entry.frame)
  BY WalkStops
<1>20. W[1].level \in Nat
  <2>1. W[1].level \in 1..Levels
    BY <1>1, WalkFound DEF Found
  <2> QED  BY <1>1, <2>1
<1>5. Levels \in S
  BY <1>1, <1>2, <1>3
<1>6. ASSUME NEW l \in 1..(Levels - 1), l + 1 \in S
      PROVE  l \in S
  <2>1. P(l + 1) /\ l \in 1..Levels /\ l + 1 \in 1..Levels /\ (l + 1) - 1 = l /\ l \in Nat
    BY <1>1, <1>6
  <2>2. ASSUME l >= W[1].level
        PROVE  B[l] = [mem |-> m, next |-> next, table |-> W[l].table]
    <3>1. l + 1 > W[1].level /\ l + 1 >= W[1].level
      BY <1>20, <2>1, <2>2
    <3>2. B[l + 1] = [mem |-> m, next |-> next, table |-> W[l + 1].table]
      BY <2>1, <3>1
    <3>3. PICK t : t = W[l + 1].table
      OBVIOUS
    <3>8. /\ W[l + 1].entry = m[t][p[l + 1]] /\ W[l + 1].entry.present
          /\ W[l] = WalkAt(m, p, l, W[l + 1].entry.frame)
      BY <1>4, <2>1, <3>1, <3>3
    <3>4. m[t][p[l + 1]].present /\ W[l].table = m[t][p[l + 1]].frame
      BY <3>8 DEF WalkAt
    <3>5. B[l] = BuildBelow(p, l, [mem |-> m, next |-> next, table |-> t])
      BY <1>2, <3>2, <3>3
    <3> QED  BY <3>4, <3>5 DEF BuildBelow
  <2> QED  BY <2>1, <2>2
<1>7. 1..Levels \subseteq S
  <2> HIDE DEF S
  <2> QED  BY <1>5, <1>6, DownLevels
<1> QED  BY <1>7

\* The table of p at level k: below the level w its walk ended at, a new one.
Table(next, w, k) == IF k = w.level THEN w.table ELSE next + ((w.level - 1) - k)

OnPath(next, w, p, l, u, j) == \E k \in l..w.level : u = Table(next, w, k) /\ j = p[k]

\* What mapPage has built when it is at level l.
Grown(m, next, lev, p, w, b, l, lew) ==
  /\ b.mem \in Memories /\ b.next = next + (w.level - l) /\ Tables(b.mem, b.next, lew)
  /\ b.table = Table(next, w, l)
  /\ \A u \in Small : u < next => lew[u] = lev[u]
  /\ \A k \in l..w.level : Table(next, w, k) \in Small /\ lew[Table(next, w, k)] = k
  /\ \A k \in (l + 1)..w.level : b.mem[Table(next, w, k)][p[k]] = TableEntry(Table(next, w, k - 1))
  /\ \A u \in Frames, j \in Idx : ~OnPath(next, w, p, l + 1, u, j) => b.mem[u][j] = m[u][j]

\* Below the level the walk ended at, each level gets a new table.
LEMMA GrownStep ==
  ASSUME NEW m \in Memories, NEW next \in Nat, NEW lev, Tables(m, next, lev), NEW p \in Pages,
         NEW w, w.level \in 1..Levels, w.table \in Small, w.table < next,
         w.entry = m[w.table][p[w.level]], ~w.entry.present,
         next + (w.level - 1) <= MaxFrames,
         NEW l \in 1..(w.level - 1), NEW b, NEW lew, Grown(m, next, lev, p, w, b, l + 1, lew)
  PROVE  \E lex : Grown(m, next, lev, p, w, BuildBelow(p, l, b), l, lex)
<1>1. PICK n, x, t : n \in Memories /\ n = b.mem /\ x = b.next /\ t = b.table
  BY DEF Grown
<1>2. /\ Levels \in 2..4 /\ w.level \in Nat /\ l \in Nat /\ l >= 1 /\ l < w.level /\ w.level <= Levels
      /\ l \in 1..(Levels - 1) /\ l + 1 \in (l + 1)..w.level /\ MaxFrames \in Nat
      /\ Small \subseteq Frames /\ Small \subseteq Nat
  BY SmallApart DEF Small
<1>3. /\ x = next + (w.level - (l + 1)) /\ Tables(n, x, lew) /\ n \in Memories
      /\ t = Table(next, w, l + 1)
      /\ \A u \in Small : u < next => lew[u] = lev[u]
      /\ \A k \in (l + 1)..w.level : Table(next, w, k) \in Small /\ lew[Table(next, w, k)] = k
      /\ \A k \in ((l + 1) + 1)..w.level : n[Table(next, w, k)][p[k]] = TableEntry(Table(next, w, k - 1))
      /\ \A u \in Frames, j \in Idx : ~OnPath(next, w, p, (l + 1) + 1, u, j) => n[u][j] = m[u][j]
  BY <1>1 DEF Grown
<1>4. x \in Nat /\ x < MaxFrames /\ x >= next /\ x = Table(next, w, l) /\ x + 1 = next + (w.level - l)
  <2>1. x = next + (w.level - (l + 1))
    BY <1>3
  <2>2. x \in Nat /\ x < MaxFrames /\ x >= next /\ x + 1 = next + (w.level - l)
    BY <1>2, <2>1
  <2>3. Table(next, w, l) = next + ((w.level - 1) - l)
    BY <1>2 DEF Table
  <2> QED  BY <1>2, <2>1, <2>2, <2>3
<1>5. PICK i \in Idx : i = p[l + 1]
  BY <1>2 DEF Pages
<1>6. t \in Small /\ lew[t] = l + 1
  BY <1>2, <1>3
<1>7. ~n[t][i].present
  <2>1. CASE l + 1 = w.level
    <3>1. t = w.table
      BY <1>3, <2>1 DEF Table
    <3>2. ~OnPath(next, w, p, (l + 1) + 1, t, i)
      BY <1>2, <2>1 DEF OnPath
    <3>3. n[t][i] = m[t][i]
      BY <1>2, <1>3, <1>6, <3>2
    <3>4. m[t][i] = w.entry
      BY <1>5, <2>1, <3>1
    <3> QED  BY <3>3, <3>4
  <2>2. CASE l + 1 # w.level
    <3>1. ~OnPath(next, w, p, (l + 1) + 1, t, i)
      <4> SUFFICES ASSUME NEW k \in ((l + 1) + 1)..w.level, t = Table(next, w, k)
                   PROVE  FALSE
        BY DEF OnPath
      <4>1. k \in (l + 1)..w.level /\ k # l + 1
        BY <1>2
      <4> QED  BY <1>3, <1>6, <4>1
    <3>2. t >= next
      <4>1. t = next + ((w.level - 1) - (l + 1))
        BY <1>3, <2>2 DEF Table
      <4> QED  BY <1>2, <2>2, <4>1
    <3>3. m[t] = Blank
      BY <1>6, <3>2 DEF Tables
    <3>4. m[t][i].present = FALSE
      BY <3>3 DEF Blank, Zero
    <3> QED  BY <1>2, <1>3, <1>6, <3>1, <3>4
  <2> QED  BY <2>1, <2>2
<1> DEFINE o == WithTable(n, t, i, x)
           lex == WithLevel(lew, x, l)
<1>8. /\ o \in Memories /\ Tables(o, x + 1, lex)
      /\ x \in Small /\ lew[x] = 0 /\ lex[x] = l /\ o[x] = Blank
      /\ \A u \in Small : u < x => lex[u] = lew[u]
      /\ t # x /\ o[t][i] = TableEntry(x)
      /\ \A u \in Frames, j \in Idx : u # x /\ (u # t \/ j # i) => o[u][j] = n[u][j]
  <2>1. /\ x \in Nat /\ x < MaxFrames /\ l \in 1..(Levels - 1)
        /\ Tables(n, x, lew) /\ n \in Memories
    BY <1>2, <1>3, <1>4
  <2> QED  BY <1>6, <1>7, <2>1, BuildStep
<1>9. BuildBelow(p, l, b) = [mem |-> o, next |-> x + 1, table |-> x]
  BY <1>1, <1>5, <1>7 DEF BuildBelow, WithTable
<1>10. \A u \in Small : u # x => lex[u] = lew[u]
  BY <1>3 DEF Tables, WithLevel
<1> HIDE DEF o, lex
<1>11. \A u \in Small : u < next => lex[u] = lev[u]
  <2> TAKE u \in Small
  <2>1. u < next => u < x
    BY <1>2, <1>4
  <2> QED  BY <1>3, <1>8, <2>1
<1>12. \A k \in l..w.level : Table(next, w, k) \in Small /\ lex[Table(next, w, k)] = k
  <2> TAKE k \in l..w.level
  <2>1. CASE k = l
    BY <1>4, <1>8, <2>1
  <2>2. CASE k # l
    <3>1. k \in (l + 1)..w.level /\ k # 0
      BY <1>2, <2>2
    <3>2. PICK u : u = Table(next, w, k)
      OBVIOUS
    <3>3. u \in Small /\ lew[u] = k /\ u # x
      BY <1>3, <1>8, <3>1, <3>2
    <3> QED  BY <1>10, <3>2, <3>3
  <2> QED  BY <2>1, <2>2
<1>13. \A k \in (l + 1)..w.level : o[Table(next, w, k)][p[k]] = TableEntry(Table(next, w, k - 1))
  <2> TAKE k \in (l + 1)..w.level
  <2>1. CASE k = l + 1
    <3>1. k - 1 = l
      BY <1>2, <2>1
    <3> QED  BY <1>3, <1>4, <1>5, <1>8, <2>1, <3>1
  <2>2. CASE k # l + 1
    <3>1. k \in ((l + 1) + 1)..w.level /\ k # 0 /\ k \in 1..Levels
      BY <1>2, <2>2
    <3>2. PICK u : u = Table(next, w, k)
      OBVIOUS
    <3>3. u \in Small /\ u # x /\ u # t
      BY <1>3, <1>6, <1>8, <2>2, <3>1, <3>2
    <3>4. p[k] \in Idx
      BY <3>1 DEF Pages
    <3>5. o[u][p[k]] = n[u][p[k]]
      BY <1>2, <1>8, <3>3, <3>4
    <3> QED  BY <1>3, <3>1, <3>2, <3>5
  <2> QED  BY <2>1, <2>2
<1>14. \A u \in Frames, j \in Idx : ~OnPath(next, w, p, l + 1, u, j) => o[u][j] = m[u][j]
  <2> SUFFICES ASSUME NEW u \in Frames, NEW j \in Idx, ~OnPath(next, w, p, l + 1, u, j)
               PROVE  o[u][j] = m[u][j]
    OBVIOUS
  <2>1. /\ ~OnPath(next, w, p, (l + 1) + 1, u, j)
        /\ u # t \/ j # i
    <3>1. \A k \in ((l + 1) + 1)..w.level : k \in (l + 1)..w.level
      BY <1>2
    <3> QED  BY <1>2, <1>3, <1>5, <3>1 DEF OnPath
  <2>2. CASE u = x
    <3>1. m[u] = Blank
      BY <1>4, <1>8, <2>2 DEF Tables
    <3> QED  BY <1>8, <2>2, <3>1
  <2>3. CASE u # x
    BY <1>3, <1>8, <2>1, <2>3
  <2> QED  BY <2>2, <2>3
<1>15. Grown(m, next, lev, p, w, [mem |-> o, next |-> x + 1, table |-> x], l, lex)
  BY <1>4, <1>8, <1>11, <1>12, <1>13, <1>14 DEF Grown
<1> QED  BY <1>9, <1>15

\* All of them, down to the leaf table.
LEMMA BuiltGrown ==
  ASSUME NEW m \in Memories, NEW next \in Nat, NEW lev, Tables(m, next, lev),
         cr3 \in Small, lev[cr3] = Levels, NEW p \in Pages,
         NEW w, w = Walk(m, cr3, p), w.level = 1 \/ ~w.entry.present,
         next + (w.level - 1) <= MaxFrames
  PROVE  \E lew : Grown(m, next, lev, p, w, Built(m, next, p)[1], 1, lew)
<1>1. PICK B, W : B = Built(m, next, p) /\ W = Levelwise(m, cr3, p)
  OBVIOUS
<1>2. /\ w.level \in 1..Levels /\ w.table \in Small /\ w.table < next /\ lev[w.table] = w.level
      /\ w.entry = m[w.table][p[w.level]]
  BY WalkEnds
<1>3. Levels \in 2..4 /\ w.level \in Nat /\ w = W[1]
  BY <1>1, <1>2, SmallApart DEF Walk
<1>4. B[w.level] = [mem |-> m, next |-> next, table |-> w.table]
  <2>1. W[w.level] = w /\ w.level >= W[1].level
    <3>1. w.level <= W[1].level => W[w.level] = W[1]
      BY <1>1, <1>2, WalkStops
    <3> QED  BY <1>3, <3>1
  <2> QED  BY <1>1, <1>2, <2>1, BuiltFollows
<1>9. /\ B[Levels] = [mem |-> m, next |-> next, table |-> cr3]
      /\ \A k \in 1..(Levels - 1) : B[k] = BuildBelow(p, k, B[k + 1])
  BY <1>1, BuiltIs
<1>5. Grown(m, next, lev, p, w, B[w.level], w.level, lev)
  <2>1. \A k \in w.level..w.level : k = w.level
    BY <1>3
  <2>2. \A k \in (w.level + 1)..w.level : FALSE
    BY <1>3
  <2>3. next + (w.level - w.level) = next /\ Table(next, w, w.level) = w.table
    BY <1>3 DEF Table
  <2>4. PICK b : b = B[w.level]
    OBVIOUS
  <2>5. b.mem = m /\ b.next = next /\ b.table = w.table
    BY <1>4, <2>4
  <2> QED  BY <1>2, <2>1, <2>2, <2>3, <2>4, <2>5 DEF Grown
<1> DEFINE S == {l \in 1..Levels : l <= w.level => \E lew : Grown(m, next, lev, p, w, B[l], l, lew)}
<1>6. Levels \in S
  <2>1. Levels <= w.level => Levels = w.level
    BY <1>2, <1>3
  <2> QED  BY <1>3, <1>5, <2>1
<1>7. ASSUME NEW l \in 1..(Levels - 1), l + 1 \in S
      PROVE  l \in S
  <2>1. /\ l \in 1..Levels /\ l \in Nat
        /\ l + 1 <= w.level => \E lew : Grown(m, next, lev, p, w, B[l + 1], l + 1, lew)
    BY <1>3, <1>7
  <2>2. ASSUME l <= w.level
        PROVE  \E lew : Grown(m, next, lev, p, w, B[l], l, lew)
    <3>1. CASE l = w.level
      BY <1>5, <3>1
    <3>2. CASE l # w.level
      <4>1. l \in 1..(w.level - 1) /\ l + 1 <= w.level /\ ~w.entry.present
        BY <1>3, <2>1, <2>2, <3>2
      <4>2. PICK lew : Grown(m, next, lev, p, w, B[l + 1], l + 1, lew)
        BY <2>1, <4>1
      <4>3. \E lex : Grown(m, next, lev, p, w, BuildBelow(p, l, B[l + 1]), l, lex)
        BY <1>2, <4>1, <4>2, GrownStep
      <4>4. B[l] = BuildBelow(p, l, B[l + 1])
        BY <1>9
      <4> QED  BY <4>3, <4>4
    <3> QED  BY <3>1, <3>2
  <2> QED  BY <2>1, <2>2
<1>8. 1 \in S
  <2> HIDE DEF S
  <2> QED  BY <1>3, <1>6, <1>7, DownLevels
<1> QED  BY <1>1, <1>2, <1>8

\* What mapPage leaves: new tables down to the leaf, and everything else as it was.
PageMapped(m, next, lev, p, w, leaf, r, lew) ==
  /\ r.mem \in Memories /\ r.next = next + (w.level - 1) /\ Tables(r.mem, r.next, lew)
  /\ \A u \in Small : u < next => lew[u] = lev[u]
  /\ \A k \in 1..w.level : Table(next, w, k) \in Small /\ lew[Table(next, w, k)] = k
  /\ \A k \in 2..w.level : r.mem[Table(next, w, k)][p[k]] = TableEntry(Table(next, w, k - 1))
  /\ r.mem[Table(next, w, 1)][p[1]] = leaf
  /\ \A u \in Frames, j \in Idx : ~OnPath(next, w, p, 1, u, j) => r.mem[u][j] = m[u][j]

\* Flags of mapPage.
Flags == [write : BOOLEAN, user : BOOLEAN, nx : BOOLEAN]

\* mapPage keeps tables and data apart, and changes entries of one path.
LEMMA MapPageKeeps ==
  ASSUME NEW m \in Memories, NEW next \in Nat, NEW lev, Tables(m, next, lev),
         cr3 \in Small, lev[cr3] = Levels, NEW p \in Pages,
         NEW w, w = Walk(m, cr3, p), w.level = 1 \/ ~w.entry.present,
         next + (w.level - 1) <= MaxFrames,
         NEW f, Data(f, next, lev), NEW flags \in Flags
  PROVE  \E lew : PageMapped(m, next, lev, p, w, Leaf(f, flags), MapPage(m, next, p, f, flags), lew)
<1>1. PICK b : b = Built(m, next, p)[1]
  OBVIOUS
<1>2. PICK lew : Grown(m, next, lev, p, w, b, 1, lew)
  BY <1>1, BuiltGrown
<1>3. w.level \in 1..Levels /\ w.level \in Nat /\ 1 \in 1..w.level /\ Levels \in 2..4 /\ w.level >= 1
  BY SmallApart, WalkEnds
<1>4. PICK n, x, t : n \in Memories /\ n = b.mem /\ x = b.next /\ t = b.table
  BY <1>2 DEF Grown
<1>5. PICK i \in Idx : i = p[1]
  BY <1>3 DEF Pages
<1>6. PICK leaf \in Entry : leaf = Leaf(f, flags)
  BY DEF Leaf, Entry, Data, Flags
<1>7. PICK r : r = MapPage(m, next, p, f, flags)
  OBVIOUS
<1>20. r.mem = WithWord(b.mem, b.table, p[1], Leaf(f, flags)) /\ r.next = b.next
  BY <1>1, <1>7, MapPageIs
<1>8. /\ x = next + (w.level - 1) /\ Tables(n, x, lew) /\ t = Table(next, w, 1)
      /\ \A u \in Small : u < next => lew[u] = lev[u]
      /\ \A k \in 1..w.level : Table(next, w, k) \in Small /\ lew[Table(next, w, k)] = k
      /\ \A k \in (1 + 1)..w.level : n[Table(next, w, k)][p[k]] = TableEntry(Table(next, w, k - 1))
      /\ \A u \in Frames, j \in Idx : ~OnPath(next, w, p, 1 + 1, u, j) => n[u][j] = m[u][j]
  BY <1>2, <1>4 DEF Grown
<1>9. x \in Nat /\ x >= next
  BY <1>3, <1>8
<1>10. t \in Small /\ lew[t] = 1 /\ t \in Frames
  BY <1>3, <1>8, SmallApart
<1>11. t < x
  <2>1. lew[t] # 0 /\ Tables(n, x, lew)
    BY <1>8, <1>10
  <2> QED  BY <1>10, <2>1 DEF Tables
<1>12. Leads(leaf, 1, x, lew)
  <2>1. ~leaf.ps /\ leaf.frame = f
    BY <1>6 DEF Leaf
  <2>2. f \in Small => f < next /\ lew[f] = 0
    BY <1>8 DEF Data
  <2>3. f \in Small => f < x
    BY <1>9, <2>2 DEF Small
  <2> QED  BY <2>1, <2>2, <2>3 DEF Leads
<1> DEFINE o == WithWord(n, t, i, leaf)
<1>13. /\ o \in Memories /\ Tables(o, x, lew) /\ o[t][i] = leaf
       /\ \A u \in Frames, j \in Idx : u # t \/ j # i => o[u][j] = n[u][j]
  <2>1. Tables(n, x, lew)
    BY <1>8
  <2>2. t \in Small => /\ t < x
                       /\ lew[t] # 0 /\ leaf.present => Leads(leaf, lew[t], x, lew)
                       /\ lew[t] >= 2 => ~leaf.present \/ leaf.ps
    BY <1>10, <1>11, <1>12
  <2>3. n \in Memories
    BY <1>4
  <2> QED  BY <2>3, <1>9, <1>10, <2>1, <2>2, WordStep
<1> HIDE DEF o
<1>15. \A k \in 2..w.level : o[Table(next, w, k)][p[k]] = TableEntry(Table(next, w, k - 1))
  <2> TAKE k \in 2..w.level
  <2>1. k \in (1 + 1)..w.level /\ k \in 1..w.level /\ k # 1 /\ k \in 1..Levels
    BY <1>3
  <2>2. PICK u : u = Table(next, w, k)
    OBVIOUS
  <2>3. u \in Frames /\ u # t /\ p[k] \in Idx
    <3>1. u \in Small /\ lew[u] = k
      BY <1>8, <2>1, <2>2
    <3> QED  BY <1>10, <2>1, <3>1, SmallApart DEF Pages
  <2> QED  BY <1>8, <1>13, <2>1, <2>2, <2>3
<1>16. \A u \in Frames, j \in Idx : ~OnPath(next, w, p, 1, u, j) => o[u][j] = m[u][j]
  <2> SUFFICES ASSUME NEW u \in Frames, NEW j \in Idx, ~OnPath(next, w, p, 1, u, j)
               PROVE  o[u][j] = m[u][j]
    OBVIOUS
  <2>1. ~OnPath(next, w, p, 1 + 1, u, j) /\ (u # t \/ j # i)
    <3>1. \A k \in (1 + 1)..w.level : k \in 1..w.level
      BY <1>3
    <3> QED  BY <1>3, <1>5, <1>8, <3>1 DEF OnPath
  <2> QED  BY <1>8, <1>13, <2>1
<1>18. r.mem = o /\ r.next = x
  BY <1>20, <1>4, <1>5, <1>6 DEF o
<1>19. PageMapped(m, next, lev, p, w, leaf, r, lew)
  BY <1>5, <1>8, <1>13, <1>15, <1>16, <1>18 DEF PageMapped
<1> QED  BY <1>6, <1>7, <1>19

-----------------------------------------------------------------------------
\* Memories that agree on the tables give the same walks.
LEMMA WalksKept ==
  ASSUME NEW m \in Memories, NEW n, NEW next, NEW lev, Tables(m, next, lev),
         NEW top \in Small, lev[top] = Levels, NEW p \in Pages,
         \A u \in Small, j \in Idx : lev[u] # 0 => n[u][j] = m[u][j]
  PROVE  Walk(n, top, p) = Walk(m, top, p)
<1>1. Levels \in 2..4 /\ 1 \in 1..Levels
  BY SmallApart
<1>2. ASSUME NEW l \in 1..Levels, NEW w, w = Levelwise(m, top, p)[l], w.level = l
      PROVE  n[w.table][p[l]] = w.entry
  <2>1. Found(m, lev, p, w, l)
    BY <1>2, WalkFound
  <2>2. w.table \in Small /\ lev[w.table] = l /\ w.entry = m[w.table][p[l]] /\ l # 0 /\ p[l] \in Idx
    BY <1>1, <1>2, <2>1 DEF Found, Pages
  <2> QED  BY <2>2
<1>3. \A l \in 1..Levels : LET w == Levelwise(m, top, p)[l] IN w.level = l => n[w.table][p[l]] = w.entry
  BY <1>2
<1>4. \A l \in 1..Levels : Levelwise(n, top, p)[l] = Levelwise(m, top, p)[l]
  BY <1>3, WalkLocal
<1> QED  BY <1>1, <1>4 DEF Walk

\* A word programs write is in no table, so that every walk is as it was.
Marked(m, f) == [m EXCEPT ![f][0] = Mark]

LEMMA DataWritten ==
  ASSUME NEW m \in Memories, NEW next \in Nat, NEW lev, Tables(m, next, lev),
         NEW f, f = NoFrame \/ Data(f, next, lev)
  PROVE  LET n == Marked(m, f) IN
         /\ n \in Memories /\ Tables(n, next, lev)
         /\ \A u \in Small, j \in Idx : lev[u] # 0 => n[u][j] = m[u][j]
<1>1. PICK n : n = Marked(m, f)
  OBVIOUS
<1>2. Small \subseteq Frames /\ 0 \in Idx
  BY SmallApart
<1>3. CASE f \notin Frames
  <2>1. n = m
    BY <1>1, <1>3 DEF Memories, Marked
  <2> QED  BY <1>1, <2>1
<1>4. CASE f \in Frames
  <2>1. f \in Small => f < next /\ lev[f] = 0
    <3>1. f # NoFrame
      BY <1>4, FramesTypes DEF NoFrame
    <3> QED  BY <3>1 DEF Data
  <2>2. Mark \in Entry
    BY FramesTypes, SmallApart DEF Mark, Zero, Entry
  <2>3. n = WithWord(m, f, 0, Mark)
    BY <1>1 DEF WithWord, Marked
  <2>4. f \in Small => /\ f < next
                       /\ lev[f] # 0 /\ Mark.present => Leads(Mark, lev[f], next, lev)
                       /\ lev[f] >= 2 => ~Mark.present \/ Mark.ps
    BY <2>1
  <2>5. /\ n \in Memories /\ Tables(n, next, lev)
        /\ \A u \in Frames, j \in Idx : u # f \/ j # 0 => n[u][j] = m[u][j]
    BY <1>2, <1>4, <2>2, <2>3, <2>4, WordStep
  <2> QED  BY <1>1, <1>2, <2>1, <2>5
<1> QED  BY <1>3, <1>4

\* What the cache takes is typed, and no more than its limit.
LEMMA CachedTyped ==
  ASSUME NEW t, TlbTyped(t), NEW a \in Pages \X Kinds, NEW f \in Frames
  PROVE  TlbTyped(Cached(t, a, f))
<1>1. CASE ~(Cardinality(DOMAIN t) < TlbLimit)
  BY <1>1 DEF Cached
<1>2. CASE Cardinality(DOMAIN t) < TlbLimit
  <2>1. PICK u : u = Cached(t, a, f)
    OBVIOUS
  <2>2. u = [b \in DOMAIN t \cup {a} |-> IF b = a THEN f ELSE t[b]]
    BY <1>2, <2>1 DEF Cached
  <2>3. DOMAIN u = DOMAIN t \cup {a} /\ \A b \in DOMAIN u : u[b] \in Frames
    BY <2>2 DEF TlbTyped
  <2>4. IsFiniteSet(DOMAIN t) /\ Cardinality(DOMAIN t) \in Nat
    BY FS_CardinalityType DEF TlbTyped
  <2>5. /\ IsFiniteSet(DOMAIN t \cup {a})
        /\ Cardinality(DOMAIN t \cup {a}) = Cardinality(DOMAIN t) \/ Cardinality(DOMAIN t \cup {a}) = Cardinality(DOMAIN t) + 1
    BY <2>4, FS_AddElement
  <2>6. Cardinality(DOMAIN t \cup {a}) <= TlbLimit
    BY <1>2, <2>4, <2>5, MmuAssumption
  <2> QED  BY <2>1, <2>3, <2>5, <2>6 DEF TlbTyped
<1> QED  BY <1>1, <1>2

\* What translate returns.
Translated(m, next, lev, p, o) ==
  /\ TlbTyped(o.tlb) /\ Coherent(m, cr3, o.tlb)
  /\ IF o.fault = "none" THEN p # Hole /\ Data(o.frame, next, lev) ELSE o.frame = NoFrame
  /\ o.fault = "absent" => p # Hole /\ ~Walk(m, cr3, p).entry.present

\* A hit gives what a walk gives, and what a miss adds to the cache is a walk.
LEMMA TranslateStep ==
  ASSUME NEW m \in Memories, NEW next, NEW lev, Tables(m, next, lev), cr3 \in Small, lev[cr3] = Levels,
         NEW t, TlbTyped(t), Coherent(m, cr3, t), NEW p \in Pages \cup {Hole}, NEW kind \in Kinds
  PROVE  Translated(m, next, lev, p, Translate(m, t, p, kind))
<1>1. PICK o : o = Translate(m, t, p, kind)
  OBVIOUS
<1> SUFFICES Translated(m, next, lev, p, o)
  BY <1>1
<1>2. PICK w, f : w = Walk(m, cr3, p) /\ f = Reached(p, w)
  OBVIOUS
<1>3. PICK a : a = <<p, kind>>
  OBVIOUS
<1>4. /\ p = Hole => o = Outcome("noncanonical", NoFrame, t)
      /\ p # Hole /\ a \in DOMAIN t => o = Outcome("none", t[a], t)
      /\ p # Hole /\ a \notin DOMAIN t /\ ~w.entry.present => o = Outcome("absent", NoFrame, t)
      /\ p # Hole /\ a \notin DOMAIN t /\ w.entry.present /\ ~Permits(w.entry, kind)
           => o = Outcome("protection", NoFrame, t)
      /\ p # Hole /\ a \notin DOMAIN t /\ w.entry.present /\ Permits(w.entry, kind)
           => o = Outcome("none", f, Cached(t, a, f))
  BY <1>1, <1>2, <1>3 DEF Translate, Reached
<1>5. ASSUME NEW x, o = Outcome(x, NoFrame, t), x # "none", x = "absent" => p # Hole /\ ~w.entry.present
      PROVE  Translated(m, next, lev, p, o)
  <2>1. o.fault = x /\ o.frame = NoFrame /\ o.tlb = t
    BY <1>5 DEF Outcome
  <2> QED  BY <1>2, <1>5, <2>1 DEF Translated
<1>6. p # Hole => /\ p \in Pages /\ a \in Pages \X Kinds
                  /\ w.entry.present => Data(f, next, lev)
  BY <1>2, <1>3, WalkEnds
<1>7. CASE p = Hole \/ (a \notin DOMAIN t /\ ~(w.entry.present /\ Permits(w.entry, kind)))
  BY <1>4, <1>5, <1>7
<1>8. CASE p # Hole /\ a \in DOMAIN t
  <2>1. o.fault = "none" /\ o.frame = t[a] /\ o.tlb = t
    BY <1>4, <1>8 DEF Outcome
  <2>2. Backs(w, p, kind, t[a])
    BY <1>2, <1>3, <1>8 DEF Coherent
  <2>3. Data(t[a], next, lev)
    BY <1>2, <1>6, <1>8, <2>2 DEF Backs, Reached
  <2> QED  BY <1>8, <2>1, <2>3 DEF Translated
<1>9. CASE p # Hole /\ a \notin DOMAIN t /\ w.entry.present /\ Permits(w.entry, kind)
  <2>1. PICK u : u = Cached(t, a, f)
    OBVIOUS
  <2>2. o.fault = "none" /\ o.frame = f /\ o.tlb = u
    BY <1>4, <1>9, <2>1 DEF Outcome
  <2>3. Data(f, next, lev) /\ f \in Frames
    BY <1>6, <1>9 DEF Data
  <2>4. TlbTyped(u)
    BY <1>6, <1>9, <2>1, <2>3, CachedTyped
  <2>5. ASSUME NEW b \in DOMAIN u
        PROVE  Backs(Walk(m, cr3, b[1]), b[1], b[2], u[b])
    <3>1. (b = a /\ u[b] = f) \/ (b \in DOMAIN t /\ u[b] = t[b])
      BY <2>1 DEF Cached
    <3>2. Backs(w, p, kind, f)
      BY <1>2, <1>9 DEF Backs, Reached
    <3>3. a[1] = p /\ a[2] = kind
      BY <1>3
    <3> QED  BY <1>2, <3>1, <3>2, <3>3 DEF Coherent
  <2> QED  BY <1>9, <2>2, <2>3, <2>4, <2>5 DEF Translated, Coherent
<1> QED  BY <1>7, <1>8, <1>9

-----------------------------------------------------------------------------
\* The tables of the current space are tables.
LEMMA TopFound ==
  ASSUME NEW m, NEW next, NEW lev, Rooted(m, next, spaces, lev), spaces \in Seq(Small),
         \E r \in DOMAIN spaces : cr3 = spaces[r]
  PROVE  /\ cr3 \in Small /\ lev[cr3] = Levels /\ cr3 < next
         /\ \A r \in DOMAIN spaces : spaces[r] \in Small /\ spaces[r] < next
<1>1. \A r \in DOMAIN spaces : spaces[r] \in Small /\ lev[spaces[r]] = Levels
  BY DEF Rooted
<1>2. Levels # 0
  BY SmallApart
<1>3. \A r \in DOMAIN spaces : spaces[r] < next
  BY <1>1, <1>2 DEF Rooted, Tables
<1> QED  BY <1>1, <1>3

\* An empty cache is coherent with any tables.
LEMMA EmptyCache == TlbTyped(<<>>) /\ \A m, top : Coherent(m, top, <<>>)
<1>1. DOMAIN <<>> = {}
  OBVIOUS
<1>2. IsFiniteSet({}) /\ Cardinality({}) = 0
  BY FS_EmptySet
<1>3. TlbTyped(<<>>)
  BY <1>1, <1>2, MmuAssumption DEF TlbTyped
<1>4. ASSUME NEW m, NEW top
      PROVE  Coherent(m, top, <<>>)
  BY <1>1 DEF Coherent
<1> QED  BY <1>3, <1>4

\* What an access leaves, of a state that may be the one demand mapping left.
LEMMA AccessStep ==
  ASSUME NEW m \in Memories, NEW next \in 0..MaxFrames,
         NEW lev \in [Small -> 0..Levels], Rooted(m, next, spaces, lev),
         spaces \in Seq(Small), \E r \in DOMAIN spaces : cr3 = spaces[r],
         NEW t, TlbTyped(t), Coherent(m, cr3, t),
         NEW p \in Pages \cup {Hole}, NEW kind \in Kinds,
         NEW o, o = Translate(m, t, p, kind),
         mem' = m \/ mem' = Marked(m, o.frame), nextFrame' = next, tlb' = o.tlb,
         Reach(p, kind, o.frame), UNCHANGED <<cr3, spaces>>
  PROVE  MmuInv'
<1>1. cr3 \in Small /\ lev[cr3] = Levels
  BY TopFound
<1>2. Tables(m, next, lev) /\ next \in Nat
  BY SmallApart DEF Rooted
<1>3. Translated(m, next, lev, p, o)
  BY <1>1, <1>2, TranslateStep
<1>4. o.frame = NoFrame \/ Data(o.frame, next, lev)
  BY <1>3 DEF Translated
<1>5. /\ mem' \in Memories /\ Tables(mem', next, lev)
      /\ \A u \in Small, j \in Idx : lev[u] # 0 => mem'[u][j] = m[u][j]
  <2>1. CASE mem' = m
    BY <1>2, <2>1
  <2>2. CASE mem' = Marked(m, o.frame)
    <3>1. PICK f : f = o.frame
      OBVIOUS
    <3> QED  BY <1>2, <1>4, <2>2, <3>1, DataWritten
  <2> QED  BY <2>1, <2>2
<1>6. TlbTyped(tlb')
  BY <1>3 DEF Translated
<1>7. Coherent(mem', cr3, tlb')
  <2>1. Coherent(m, cr3, tlb')
    BY <1>3 DEF Translated
  <2>2. \A q \in Pages : Walk(mem', cr3, q) = Walk(m, cr3, q)
    BY <1>1, <1>2, <1>5, WalksKept
  <2>3. \A a \in DOMAIN tlb' : a[1] \in Pages
    BY <1>6 DEF TlbTyped
  <2> QED  BY <2>1, <2>2, <2>3 DEF Coherent
<1>8. last' \in Access
  <2>1. o.frame \in Frames \cup {NoFrame}
    BY <1>4 DEF Data
  <2> QED  BY <2>1 DEF Reach, Access
<1>9. Rooted(mem', nextFrame', spaces', lev)
  BY <1>5 DEF Rooted
<1>10. cr3' = cr3 /\ spaces' = spaces
  OBVIOUS
<1>11. spaces' \in Seq(Small) /\ \E r \in DOMAIN spaces' : cr3' = spaces'[r]
  BY <1>10
<1>12. Coherent(mem', cr3', tlb')
  BY <1>7, <1>10
<1> QED  BY <1>5, <1>6, <1>8, <1>9, <1>11, <1>12 DEF MmuInv

\* AccessTranslated keeps the invariant.
LEMMA AccessTranslatedStep ==
  ASSUME MmuInv, NEW p \in UsedPages, NEW kind \in Kinds, AccessTranslated(p, kind)
  PROVE  MmuInv'
<1>1. p \in Pages \cup {Hole}
  BY MmuAssumption DEF Pages
<1>2. PICK o : o = Translate(mem, tlb, p, kind)
  OBVIOUS
<1>3. /\ tlb' = o.tlb /\ Reach(p, kind, o.frame) /\ nextFrame' = nextFrame /\ UNCHANGED <<cr3, spaces>>
      /\ mem' = mem \/ mem' = Marked(mem, o.frame)
  BY <1>2 DEF AccessTranslated, Effect, Marked
<1>4. PICK lev \in [Small -> 0..Levels] : Rooted(mem, nextFrame, spaces, lev)
  BY DEF MmuInv
<1>5. /\ mem \in Memories /\ nextFrame \in 0..MaxFrames
      /\ spaces \in Seq(Small) /\ \E r \in DOMAIN spaces : cr3 = spaces[r]
      /\ TlbTyped(tlb) /\ Coherent(mem, cr3, tlb)
  BY DEF MmuInv
<1> QED  BY <1>1, <1>2, <1>3, <1>4, <1>5, AccessStep

\* The allocator may be ahead of the tables.
LEMMA TablesAhead ==
  ASSUME NEW m, NEW next \in Nat, NEW lev, Tables(m, next, lev), next < MaxFrames
  PROVE  Tables(m, next + 1, lev) /\ Data(next, next + 1, lev)
<1>1. Small \subseteq Nat /\ next \in Small /\ next \in Frames
  BY SmallApart DEF Small
<1>2. \A u \in Small : (u < next => u < next + 1) /\ (u >= next + 1 => u >= next) /\ ~(next < next) /\ next < next + 1
  BY <1>1
<1>3. \A u \in Small : (lev[u] # 0 => u < next + 1) /\ (u >= next + 1 => m[u] = Blank)
  BY <1>2 DEF Tables
<1>4. lev[next] = 0
  BY <1>1, <1>2 DEF Tables
<1>5. \A u \in Small, j \in Idx :
         lev[u] # 0 /\ m[u][j].present => Leads(m[u][j], lev[u], next + 1, lev)
  <2> SUFFICES ASSUME NEW u \in Small, NEW j \in Idx, lev[u] # 0, m[u][j].present
               PROVE  Leads(m[u][j], lev[u], next + 1, lev)
    OBVIOUS
  <2>1. PICK e : e = m[u][j]
    OBVIOUS
  <2>2. Leads(e, lev[u], next, lev)
    BY <2>1 DEF Tables
  <2>3. e.frame \in Small /\ e.frame < next => e.frame < next + 1
    BY <1>2
  <2> QED  BY <2>1, <2>2, <2>3 DEF Leads
<1>6. Tables(m, next + 1, lev)
  BY <1>3, <1>5 DEF Tables
<1> QED  BY <1>1, <1>2, <1>4, <1>6 DEF Data

\* What mapPage allocates is what the walk is missing.
LEMMA MissingIs ==
  ASSUME NEW m, NEW p, NEW w, w = Walk(m, cr3, p), w.level = 1 \/ ~w.entry.present
  PROVE  Missing(m, p) = w.level - 1
BY DEF Missing

\* mapPage keeps the top-level tables of all spaces.
LEMMA MapPageRooted ==
  ASSUME NEW m \in Memories, NEW next \in Nat, NEW lev, Rooted(m, next, spaces, lev),
         spaces \in Seq(Small), \E r \in DOMAIN spaces : cr3 = spaces[r], NEW p \in Pages,
         NEW w, w = Walk(m, cr3, p), w.level = 1 \/ ~w.entry.present,
         next + Missing(m, p) <= MaxFrames,
         NEW f, Data(f, next, lev), NEW flags \in Flags,
         NEW r, r = MapPage(m, next, p, f, flags)
  PROVE  /\ r.mem \in Memories /\ r.next \in 0..MaxFrames /\ r.next >= next
         /\ \E lew \in [Small -> 0..Levels] :
              PageMapped(m, next, lev, p, w, Leaf(f, flags), r, lew) /\ Rooted(r.mem, r.next, spaces, lew)
<1>1. /\ cr3 \in Small /\ lev[cr3] = Levels /\ Tables(m, next, lev)
      /\ \A q \in DOMAIN spaces : spaces[q] \in Small /\ spaces[q] < next /\ lev[spaces[q]] = Levels
  BY TopFound DEF Rooted
<1>2. Missing(m, p) = w.level - 1
  BY MissingIs
<1>3. \E lew : PageMapped(m, next, lev, p, w, Leaf(f, flags), r, lew)
  BY <1>1, <1>2, MapPageKeeps
<1>4. PICK lew : PageMapped(m, next, lev, p, w, Leaf(f, flags), r, lew)
  BY <1>3
<1>5. /\ r.mem \in Memories /\ r.next = next + (w.level - 1) /\ Tables(r.mem, r.next, lew)
      /\ \A u \in Small : u < next => lew[u] = lev[u]
  BY <1>4 DEF PageMapped
<1>6. w.level \in 1..Levels /\ Levels \in Nat /\ MaxFrames \in Nat
  BY <1>1, WalkEnds, SmallApart
<1>7. r.next \in 0..MaxFrames /\ r.next >= next
  BY <1>2, <1>5, <1>6
<1>8. Rooted(r.mem, r.next, spaces, lew)
  BY <1>1, <1>5 DEF Rooted
<1>9. lew \in [Small -> 0..Levels]
  BY <1>5 DEF Tables
<1> QED  BY <1>4, <1>5, <1>7, <1>8, <1>9

\* ensureRange allocates the page's frame before its tables.
LEMMA DemandStep ==
  ASSUME NEW m \in Memories, NEW next \in Nat, next = nextFrame, NEW lev, Rooted(m, next, spaces, lev),
         spaces \in Seq(Small), \E r \in DOMAIN spaces : cr3 = spaces[r], NEW p \in Pages,
         ~Walk(m, cr3, p).entry.present, next + 1 + Missing(m, p) <= MaxFrames,
         NEW r, r = DemandMapped(m, p)
  PROVE  /\ r.mem \in Memories /\ r.next \in 0..MaxFrames
         /\ \E lew \in [Small -> 0..Levels] : Rooted(r.mem, r.next, spaces, lew)
<1>1. PICK w : w = Walk(m, cr3, p)
  OBVIOUS
<1>2. /\ Tables(m, next, lev) /\ w.level \in Nat /\ w.level >= 1 /\ MaxFrames \in Nat
      /\ Missing(m, p) = w.level - 1
  <2>1. cr3 \in Small /\ lev[cr3] = Levels /\ Tables(m, next, lev)
    BY TopFound DEF Rooted
  <2>2. w.level \in 1..Levels /\ Levels \in Nat /\ MaxFrames \in Nat
    BY <1>1, <2>1, WalkEnds, SmallApart
  <2>3. Missing(m, p) = w.level - 1
    BY <1>1, MissingIs
  <2> QED  BY <2>1, <2>2, <2>3
<1>3. next < MaxFrames /\ next + Missing(m, p) <= MaxFrames /\ (next + 1) + Missing(m, p) <= MaxFrames
      /\ next + 1 \in Nat
  <2>1. PICK k \in Nat : k = Missing(m, p)
    BY <1>2
  <2>2. next + 1 + k <= MaxFrames /\ MaxFrames \in Nat
    BY <1>2, <2>1
  <2> QED  BY <2>1, <2>2
<1>4. Rwx \in Flags
  BY DEF Rwx, Flags
<1>5. CASE p \in TsegPages
  <2>1. Data(IdentityPa(p), next, lev)
    BY <1>5, FramesTypes DEF Data
  <2>2. r = MapPage(m, next, p, IdentityPa(p), Rwx)
    BY <1>5 DEF DemandMapped
  <2> QED  BY <1>1, <1>3, <1>4, <2>1, <2>2, MapPageRooted
<1>6. CASE p \notin TsegPages
  <2>1. Data(next, next + 1, lev) /\ Rooted(m, next + 1, spaces, lev)
    BY <1>2, <1>3, TablesAhead DEF Rooted
  <2>2. r = MapPage(m, next + 1, p, next, Rwx)
    BY <1>6 DEF DemandMapped
  <2>3. PICK x : x = next + 1
    OBVIOUS
  <2>4. x \in Nat /\ Rooted(m, x, spaces, lev) /\ x + Missing(m, p) <= MaxFrames /\ Data(next, x, lev)
        /\ r = MapPage(m, x, p, next, Rwx)
    BY <1>3, <2>1, <2>2, <2>3
  <2> QED  BY <1>1, <1>4, <2>4, MapPageRooted
<1> QED  BY <1>5, <1>6

\* AccessOnDemand keeps the invariant: the access is translated in the tables it has made.
LEMMA AccessOnDemandStep ==
  ASSUME MmuInv, NEW p \in UsedPages, NEW kind \in Kinds, AccessOnDemand(p, kind)
  PROVE  MmuInv'
<1>1. p \in Pages \cup {Hole}
  BY MmuAssumption DEF Pages
<1>2. PICK lev \in [Small -> 0..Levels] : Rooted(mem, nextFrame, spaces, lev)
  BY DEF MmuInv
<1>3. /\ mem \in Memories /\ nextFrame \in 0..MaxFrames /\ nextFrame \in Nat
      /\ spaces \in Seq(Small) /\ \E r \in DOMAIN spaces : cr3 = spaces[r]
      /\ TlbTyped(tlb) /\ Coherent(mem, cr3, tlb)
  BY SmallApart DEF MmuInv
<1>4. p \in Pages /\ ~Walk(mem, cr3, p).entry.present
  <2>1. Translate(mem, tlb, p, kind).fault = "absent"
    BY DEF AccessOnDemand
  <2>2. cr3 \in Small /\ lev[cr3] = Levels /\ Tables(mem, nextFrame, lev)
    BY <1>2, <1>3, TopFound DEF Rooted
  <2>3. Translated(mem, nextFrame, lev, p, Translate(mem, tlb, p, kind))
    BY <1>1, <1>3, <2>2, TranslateStep
  <2>4. p # Hole /\ ~Walk(mem, cr3, p).entry.present
    BY <2>1, <2>3 DEF Translated
  <2> QED  BY <1>1, <2>4
<1>5. PICK d, o : d = DemandMapped(mem, p) /\ o = Translate(d.mem, <<>>, p, kind)
  OBVIOUS
<1>6. /\ nextFrame + 1 + Missing(mem, p) <= MaxFrames
      /\ tlb' = o.tlb /\ Reach(p, kind, o.frame) /\ nextFrame' = d.next /\ UNCHANGED <<cr3, spaces>>
      /\ mem' = d.mem \/ mem' = Marked(d.mem, o.frame)
  BY <1>5 DEF AccessOnDemand, Effect, Marked
<1>7. /\ d.mem \in Memories /\ d.next \in 0..MaxFrames
      /\ \E lew \in [Small -> 0..Levels] : Rooted(d.mem, d.next, spaces, lew)
  BY <1>2, <1>3, <1>4, <1>5, <1>6, DemandStep
<1>8. PICK lew \in [Small -> 0..Levels] : Rooted(d.mem, d.next, spaces, lew)
  BY <1>7
<1>9. TlbTyped(<<>>) /\ Coherent(d.mem, cr3, <<>>)
  BY EmptyCache
<1>10. PICK n, x, t : n = d.mem /\ x = d.next /\ t = <<>>
  OBVIOUS
<1>11. /\ n \in Memories /\ x \in 0..MaxFrames /\ Rooted(n, x, spaces, lew)
       /\ TlbTyped(t) /\ Coherent(n, cr3, t) /\ o = Translate(n, t, p, kind)
       /\ mem' = n \/ mem' = Marked(n, o.frame)
       /\ nextFrame' = x
  BY <1>5, <1>6, <1>7, <1>8, <1>9, <1>10
<1> QED  BY <1>1, <1>3, <1>6, <1>11, AccessStep

\* Lookup changes the cache alone.
LEMMA LookupStep ==
  ASSUME MmuInv, NEW p \in UsedPages, Lookup(p)
  PROVE  MmuInv'
<1>1. p \in Pages \cup {Hole} /\ "read" \in Kinds
  BY MmuAssumption DEF Pages, Kinds
<1>2. PICK lev \in [Small -> 0..Levels] : Rooted(mem, nextFrame, spaces, lev)
  BY DEF MmuInv
<1>3. /\ mem \in Memories
      /\ spaces \in Seq(Small) /\ \E r \in DOMAIN spaces : cr3 = spaces[r]
      /\ TlbTyped(tlb) /\ Coherent(mem, cr3, tlb)
  BY DEF MmuInv
<1>4. cr3 \in Small /\ lev[cr3] = Levels /\ Tables(mem, nextFrame, lev)
  BY <1>2, <1>3, TopFound DEF Rooted
<1>5. PICK o : o = Translate(mem, tlb, p, "read")
  OBVIOUS
<1>6. Translated(mem, nextFrame, lev, p, o)
  BY <1>1, <1>3, <1>4, <1>5, TranslateStep
<1>7. TlbTyped(o.tlb) /\ Coherent(mem, cr3, o.tlb)
  BY <1>6 DEF Translated
<1>8. tlb' = o.tlb /\ last' = Idle /\ UNCHANGED <<mem, nextFrame, cr3, spaces>>
  BY <1>5 DEF Lookup
<1>9. Idle \in Access
  BY DEF Idle, Access, Kinds
<1> QED  BY <1>7, <1>8, <1>9 DEF MmuInv

\* A step of the host that empties the cache.
LEMMA HostStep ==
  ASSUME mem' \in Memories, nextFrame' \in 0..MaxFrames,
         spaces' \in Seq(Small), \E r \in DOMAIN spaces' : cr3' = spaces'[r],
         NEW lew \in [Small -> 0..Levels], Rooted(mem', nextFrame', spaces', lew),
         tlb' = <<>>, last' = Idle
  PROVE  MmuInv'
<1>1. TlbTyped(tlb') /\ Coherent(mem', cr3', tlb')
  BY EmptyCache
<1>2. last' \in Access
  BY DEF Idle, Access, Kinds
<1> QED  BY <1>1, <1>2 DEF MmuInv

\* A frame some page maps is one of data.
LEMMA MappedData ==
  ASSUME MmuInv, NEW lev, Rooted(mem, nextFrame, spaces, lev), NEW f \in Mapped
  PROVE  Data(f, nextFrame, lev)
<1>1. PICK r \in DOMAIN spaces, q \in Pages : f = Resolved(r, q).frame /\ f # NoFrame
  BY DEF Mapped
<1>2. PICK w : w = Walk(mem, spaces[r], q)
  OBVIOUS
<1>3. w.entry.present /\ f = Reached(q, w)
  <2>1. ~w.entry.present => Resolved(r, q).frame = NoFrame
    BY <1>2 DEF Resolved
  <2>2. q # Hole
    BY MmuAssumption DEF Pages
  <2> QED  BY <1>1, <1>2, <2>1, <2>2 DEF Resolved, Reached
<1>4. spaces[r] \in Small /\ lev[spaces[r]] = Levels /\ Tables(mem, nextFrame, lev) /\ mem \in Memories
  BY <1>1 DEF MmuInv, Rooted
<1> QED  BY <1>2, <1>3, <1>4, WalkEnds

\* HostMaps keeps the invariant, with a new frame or with one that is mapped already.
LEMMA HostMapsStep ==
  ASSUME MmuInv, NEW p \in HostPages, NEW flags \in HostFlags, HostMaps(p, flags)
  PROVE  MmuInv'
<1>1. p \in Pages /\ flags \in Flags
  BY MmuAssumption DEF Pages, Flags
<1>2. PICK lev \in [Small -> 0..Levels] : Rooted(mem, nextFrame, spaces, lev)
  BY DEF MmuInv
<1>3. /\ mem \in Memories /\ nextFrame \in Nat /\ MaxFrames \in Nat
      /\ spaces \in Seq(Small) /\ \E r \in DOMAIN spaces : cr3 = spaces[r]
  BY SmallApart DEF MmuInv
<1>4. PICK w : w = Walk(mem, cr3, p)
  OBVIOUS
<1>5. w.level = 1 \/ ~w.entry.present
  <2>1. ~UnderLarge(p)
    BY DEF HostMaps
  <2>2. w.level \in Nat /\ w.level >= 1
    <3>1. cr3 \in Small /\ lev[cr3] = Levels /\ Tables(mem, nextFrame, lev)
      BY <1>2, <1>3, TopFound DEF Rooted
    <3>2. w.level \in 1..Levels /\ Levels \in Nat
      BY <1>1, <1>3, <1>4, <3>1, WalkEnds, SmallApart
    <3> QED  BY <3>2
  <2> QED  BY <1>4, <2>1, <2>2 DEF UnderLarge
<1>6. PICK f \in (Mapped \cap 0..(MaxFrames - 1)) \cup {nextFrame} :
        LET next == IF f = nextFrame THEN nextFrame + 1 ELSE nextFrame
            m == MapPage(mem, next, p, f, flags)
        IN next + Missing(mem, p) <= MaxFrames /\ mem' = m.mem /\ nextFrame' = m.next
  BY DEF HostMaps
<1>7. PICK next, r : /\ next = IF f = nextFrame THEN nextFrame + 1 ELSE nextFrame
                     /\ r = MapPage(mem, next, p, f, flags)
  OBVIOUS
<1>8. next + Missing(mem, p) <= MaxFrames /\ mem' = r.mem /\ nextFrame' = r.next
  BY <1>6, <1>7
<1>9. Missing(mem, p) = w.level - 1 /\ w.level - 1 \in Nat
  <2>1. cr3 \in Small /\ lev[cr3] = Levels /\ Tables(mem, nextFrame, lev)
    BY <1>2, <1>3, TopFound DEF Rooted
  <2>2. w.level \in 1..Levels /\ Levels \in Nat
    BY <1>1, <1>3, <1>4, <2>1, WalkEnds, SmallApart
  <2>3. Missing(mem, p) = w.level - 1
    BY <1>4, <1>5, MissingIs
  <2> QED  BY <2>2, <2>3
<1>10. next \in Nat /\ Rooted(mem, next, spaces, lev) /\ Data(f, next, lev)
  <2>1. CASE f = nextFrame
    <3>1. next = nextFrame + 1 /\ nextFrame < MaxFrames
      <4>1. PICK k \in Nat : k = Missing(mem, p)
        BY <1>9
      <4>2. next = nextFrame + 1 /\ next + k <= MaxFrames
        BY <1>7, <1>8, <2>1, <4>1
      <4> QED  BY <1>3, <4>2
    <3>2. Tables(mem, nextFrame + 1, lev) /\ Data(nextFrame, nextFrame + 1, lev)
      BY <1>2, <1>3, <3>1, TablesAhead DEF Rooted
    <3> QED  BY <1>2, <1>3, <2>1, <3>1, <3>2 DEF Rooted
  <2>2. CASE f # nextFrame
    <3>1. next = nextFrame /\ f \in Mapped
      BY <1>6, <1>7, <2>2
    <3>2. Data(f, nextFrame, lev)
      BY <1>2, <3>1, MappedData
    <3> QED  BY <1>2, <1>3, <3>1, <3>2
  <2> QED  BY <2>1, <2>2
<1>11. /\ r.mem \in Memories /\ r.next \in 0..MaxFrames
       /\ \E lew \in [Small -> 0..Levels] : Rooted(r.mem, r.next, spaces, lew)
  BY <1>1, <1>3, <1>4, <1>5, <1>7, <1>8, <1>10, MapPageRooted
<1>12. PICK lew \in [Small -> 0..Levels] : Rooted(r.mem, r.next, spaces, lew)
  BY <1>11
<1>13. tlb' = <<>> /\ last' = Idle /\ cr3' = cr3 /\ spaces' = spaces
  BY DEF HostMaps
<1>14. spaces' \in Seq(Small) /\ \E q \in DOMAIN spaces' : cr3' = spaces'[q]
  BY <1>3, <1>13
<1>15. mem' \in Memories /\ nextFrame' \in 0..MaxFrames /\ Rooted(mem', nextFrame', spaces', lew)
  BY <1>8, <1>11, <1>12, <1>13
<1> QED  BY <1>13, <1>14, <1>15, HostStep

\* Unmap keeps the invariant.
LEMMA UnmapStep ==
  ASSUME MmuInv, NEW p \in HostPages, Unmap(p)
  PROVE  MmuInv'
<1>1. p \in Pages
  BY MmuAssumption DEF Pages
<1>2. PICK lev \in [Small -> 0..Levels] : Rooted(mem, nextFrame, spaces, lev)
  BY DEF MmuInv
<1>3. /\ mem \in Memories /\ nextFrame \in Nat /\ nextFrame \in 0..MaxFrames
      /\ spaces \in Seq(Small) /\ \E r \in DOMAIN spaces : cr3 = spaces[r]
  BY SmallApart DEF MmuInv
<1>4. PICK w, t : w = Walk(mem, cr3, p) /\ t = w.table
  OBVIOUS
<1>5. /\ w.level = 1 /\ mem' = WithWord(mem, t, p[1], Zero)
      /\ tlb' = <<>> /\ last' = Idle /\ UNCHANGED <<nextFrame, cr3, spaces>>
  BY <1>4 DEF Unmap, WithWord
<1>6. cr3 \in Small /\ lev[cr3] = Levels /\ Tables(mem, nextFrame, lev)
  BY <1>2, <1>3, TopFound DEF Rooted
<1>7. t \in Small /\ t \in Frames /\ t < nextFrame /\ lev[t] = 1 /\ p[1] \in Idx
  BY <1>1, <1>3, <1>4, <1>5, <1>6, WalkEnds, SmallApart
<1>8. Zero \in Entry /\ ~Zero.present
  BY FramesTypes, SmallApart DEF Zero, Entry
<1>9. /\ mem' \in Memories /\ Tables(mem', nextFrame, lev)
  BY <1>3, <1>5, <1>6, <1>7, <1>8, WordStep
<1>10. Rooted(mem', nextFrame', spaces', lev)
  BY <1>2, <1>5, <1>9 DEF Rooted
<1>11. nextFrame' \in 0..MaxFrames /\ spaces' \in Seq(Small) /\ \E r \in DOMAIN spaces' : cr3' = spaces'[r]
  BY <1>3, <1>5
<1> QED  BY <1>5, <1>9, <1>10, <1>11, HostStep

\* A walk that ends at a present entry does not look at an absent one.
LEMMA AbsentUnseen ==
  ASSUME NEW m \in Memories, NEW next, NEW lev, Tables(m, next, lev),
         NEW top \in Small, lev[top] = Levels, NEW q \in Pages,
         Walk(m, top, q).entry.present,
         NEW t, NEW i, ~m[t][i].present, NEW n,
         \A u \in Small, j \in Idx : u # t \/ j # i => n[u][j] = m[u][j]
  PROVE  Walk(n, top, q) = Walk(m, top, q)
<1>1. PICK W : W = Levelwise(m, top, q)
  OBVIOUS
<1>2. Levels \in 2..4 /\ 1 \in 1..Levels /\ W[1].entry.present
  BY <1>1, SmallApart DEF Walk
<1>3. ASSUME NEW l \in 1..Levels, W[l].level = l
      PROVE  n[W[l].table][q[l]] = W[l].entry
  <2>1. Found(m, lev, q, W[l], l)
    BY <1>1, WalkFound
  <2>2. W[l].table \in Small /\ W[l].entry = m[W[l].table][q[l]] /\ q[l] \in Idx
    BY <1>3, <2>1 DEF Found, Pages
  <2>3. W[l].entry.present
    <3>1. /\ l <= W[1].level => W[l] = W[1]
          /\ l > W[1].level => W[l].entry.present
      BY <1>1, WalkStops
    <3>2. W[1].level \in 1..Levels
      BY <1>1, <1>2, WalkFound DEF Found
    <3> QED  BY <1>2, <3>1, <3>2
  <2> QED  BY <2>2, <2>3
<1>4. \A l \in 1..Levels : LET w == Levelwise(m, top, q)[l] IN w.level = l => n[w.table][q[l]] = w.entry
  BY <1>1, <1>3
<1>5. \A l \in 1..Levels : Levelwise(n, top, q)[l] = Levelwise(m, top, q)[l]
  BY <1>4, WalkLocal
<1> QED  BY <1>2, <1>5 DEF Walk

\* The entry of a large page.
Large(flags) == [frame |-> LargeBase, present |-> TRUE, write |-> flags.write,
                 user |-> flags.user, nx |-> flags.nx, ps |-> TRUE]

\* HostWritesLarge keeps the invariant, although the cache is not emptied.
LEMMA HostWritesLargeStep ==
  ASSUME MmuInv, NEW p \in HostPages, NEW flags \in HostFlags, HostWritesLarge(p, flags)
  PROVE  MmuInv'
<1>1. p \in Pages /\ flags \in Flags
  BY MmuAssumption DEF Pages, Flags
<1>2. PICK lev \in [Small -> 0..Levels] : Rooted(mem, nextFrame, spaces, lev)
  BY DEF MmuInv
<1>3. /\ mem \in Memories /\ nextFrame \in Nat /\ nextFrame \in 0..MaxFrames
      /\ spaces \in Seq(Small) /\ \E r \in DOMAIN spaces : cr3 = spaces[r]
      /\ TlbTyped(tlb) /\ Coherent(mem, cr3, tlb)
  BY SmallApart DEF MmuInv
<1>4. PICK w, t, e : w = Walk(mem, cr3, p) /\ t = w.table /\ e = Large(flags)
  OBVIOUS
<1>5. /\ w.level = 2 /\ ~w.entry.present /\ mem' = WithWord(mem, t, p[2], e)
      /\ last' = Idle /\ UNCHANGED <<nextFrame, cr3, spaces, tlb>>
  BY <1>4 DEF HostWritesLarge, WithWord, Large
<1>6. cr3 \in Small /\ lev[cr3] = Levels /\ Tables(mem, nextFrame, lev)
  BY <1>2, <1>3, TopFound DEF Rooted
<1>7. /\ t \in Small /\ t \in Frames /\ t < nextFrame /\ lev[t] = 2 /\ p[2] \in Idx
      /\ ~mem[t][p[2]].present
  BY <1>1, <1>3, <1>4, <1>5, <1>6, WalkEnds, SmallApart
<1>8. e \in Entry /\ e.present /\ e.ps /\ e.frame = LargeBase
  <2>1. LargeBase \in Frames
    <3>1. 0 \in Idx /\ LargeBase \in Nat
      BY SmallApart
    <3>2. LargeBase + 0 \in Frames
      BY <3>1, FramesTypes
    <3> QED  BY <3>1, <3>2
  <2> QED  BY <1>1, <1>4, <2>1 DEF Large, Entry, Flags
<1>9. Leads(e, 2, nextFrame, lev)
  BY <1>8 DEF Leads
<1>10. /\ mem' \in Memories /\ Tables(mem', nextFrame, lev)
       /\ \A u \in Frames, j \in Idx : u # t \/ j # p[2] => mem'[u][j] = mem[u][j]
  BY <1>3, <1>5, <1>6, <1>7, <1>8, <1>9, WordStep
<1>11. Rooted(mem', nextFrame', spaces', lev)
  BY <1>2, <1>5, <1>10 DEF Rooted
<1>12. Coherent(mem', cr3', tlb')
  <2>1. \A u \in Small, j \in Idx : u # t \/ j # p[2] => mem'[u][j] = mem[u][j]
    BY <1>10, SmallApart
  <2>2. ASSUME NEW a \in DOMAIN tlb
        PROVE  Backs(Walk(mem', cr3, a[1]), a[1], a[2], tlb[a])
    <3>1. Backs(Walk(mem, cr3, a[1]), a[1], a[2], tlb[a]) /\ a[1] \in Pages
      BY <1>3 DEF Coherent, TlbTyped
    <3>2. PICK q : q = a[1]
      OBVIOUS
    <3>3. q \in Pages /\ Walk(mem, cr3, q).entry.present
      BY <3>1, <3>2 DEF Backs
    <3>4. Walk(mem', cr3, q) = Walk(mem, cr3, q)
      BY <1>3, <1>6, <1>7, <2>1, <3>3, AbsentUnseen
    <3> QED  BY <3>1, <3>2, <3>4
  <2> QED  BY <1>5, <2>2 DEF Coherent
<1>13. last' \in Access
  BY <1>5 DEF Idle, Access, Kinds
<1> QED  BY <1>3, <1>5, <1>10, <1>11, <1>12, <1>13 DEF MmuInv

\* NewAddressSpace keeps the invariant: the frame becomes a top-level table.
LEMMA NewAddressSpaceStep ==
  ASSUME MmuInv, NewAddressSpace
  PROVE  MmuInv'
<1>1. PICK lev \in [Small -> 0..Levels] : Rooted(mem, nextFrame, spaces, lev)
  BY DEF MmuInv
<1>2. /\ mem \in Memories /\ nextFrame \in Nat /\ MaxFrames \in Nat
      /\ spaces \in Seq(Small) /\ \E r \in DOMAIN spaces : cr3 = spaces[r]
  BY SmallApart DEF MmuInv
<1>3. PICK f : f = nextFrame
  OBVIOUS
<1>4. /\ f < MaxFrames /\ mem' = [mem EXCEPT ![f] = Blank] /\ nextFrame' = f + 1
      /\ spaces' = Append(spaces, f) /\ cr3' = f /\ tlb' = <<>> /\ last' = Idle
  BY <1>3 DEF NewAddressSpace
<1>5. f \in Small /\ f \in Nat /\ Tables(mem, f, lev)
  BY <1>1, <1>2, <1>3, <1>4, SmallApart DEF Small, Rooted
<1>6. mem[f] = Blank /\ lev[f] = 0 /\ f # 0
  <2>1. f >= f /\ ~(f < f) /\ Levels # 0 /\ 0 \in Small
    BY <1>5, SmallApart
  <2> QED  BY <1>5, <2>1 DEF Tables
<1>7. mem' = mem
  BY <1>2, <1>4, <1>6 DEF Memories
<1>8. Tables(mem, f + 1, lev)
  BY <1>4, <1>5, TablesAhead
<1> DEFINE lew == WithLevel(lev, f, Levels)
<1>9. /\ lew \in [Small -> 0..Levels] /\ lew[f] = Levels
      /\ \A u \in Small : u # f => lew[u] = lev[u]
  BY <1>5, SmallApart DEF WithLevel
<1> HIDE DEF lew
<1>10. \A j \in Idx : ~mem[f][j].present
  BY <1>6 DEF Blank, Zero
<1>11. \A u \in Small, j \in Idx : mem[u][j].present => u # f /\ lew[u] = lev[u]
  BY <1>9, <1>10
<1>12. Tables(mem, f + 1, lew)
  <2>1. \A u \in Small : lew[u] # 0 => u < f + 1
    <3>1. f < f + 1
      BY <1>5
    <3> QED  BY <1>8, <1>9, <3>1 DEF Tables
  <2>2. \A u \in Small, j \in Idx :
           lew[u] # 0 /\ mem[u][j].present => Leads(mem[u][j], lew[u], f + 1, lew)
    <3> SUFFICES ASSUME NEW u \in Small, NEW j \in Idx, lew[u] # 0, mem[u][j].present
                 PROVE  Leads(mem[u][j], lew[u], f + 1, lew)
      OBVIOUS
    <3>1. PICK e, l : e = mem[u][j] /\ l = lev[u]
      OBVIOUS
    <3>2. lew[u] = l /\ l # 0 /\ Leads(e, l, f, lev)
      BY <1>5, <1>11, <3>1 DEF Tables
    <3>3. e.frame \in Small /\ e.frame < f => e.frame < f + 1 /\ lew[e.frame] = lev[e.frame]
      <4>1. e.frame \in Small /\ e.frame < f => e.frame < f + 1 /\ e.frame # f
        BY <1>5 DEF Small
      <4> QED  BY <1>9, <4>1
    <3> QED  BY <3>1, <3>2, <3>3 DEF Leads
  <2>3. \A u, v \in Small, i, j \in Idx :
           Points(mem, lew, u, i) /\ Points(mem, lew, v, j) /\ mem[u][i].frame = mem[v][j].frame
             => u = v /\ i = j
    <3>1. \A u \in Small, j \in Idx : Points(mem, lew, u, j) => Points(mem, lev, u, j)
      BY <1>11 DEF Points
    <3> QED  BY <1>8, <3>1 DEF Tables
  <2> QED  BY <1>6, <1>8, <1>9, <2>1, <2>2, <2>3, SmallApart DEF Tables
<1>13. spaces' \in Seq(Small) /\ \E r \in DOMAIN spaces' : cr3' = spaces'[r]
  <2>1. spaces' \in Seq(Small)
    BY <1>2, <1>4, <1>5
  <2>2. Len(spaces) + 1 \in DOMAIN spaces' /\ spaces'[Len(spaces) + 1] = f
    BY <1>2, <1>4, <1>5
  <2> QED  BY <1>4, <2>1, <2>2
<1>14. \A r \in DOMAIN spaces' : lew[spaces'[r]] = Levels
  <2> TAKE r \in DOMAIN spaces'
  <2>1. (r \in DOMAIN spaces /\ spaces'[r] = spaces[r]) \/ spaces'[r] = f
    BY <1>2, <1>4, <1>5
  <2>2. \A q \in DOMAIN spaces : spaces[q] \in Small /\ lev[spaces[q]] = Levels /\ Levels # 0
    BY <1>1, <1>2, SmallApart DEF Rooted
  <2> QED  BY <1>6, <1>9, <2>1, <2>2
<1>15. nextFrame' \in 0..MaxFrames
  BY <1>2, <1>4, <1>5
<1>16. Rooted(mem', nextFrame', spaces', lew)
  BY <1>4, <1>7, <1>12, <1>14 DEF Rooted
<1> QED  BY <1>2, <1>4, <1>7, <1>9, <1>13, <1>15, <1>16, HostStep

\* SwitchTo keeps the invariant, the cache being emptied.
LEMMA SwitchToStep ==
  ASSUME MmuInv, NEW r \in DOMAIN spaces, SwitchTo(r)
  PROVE  MmuInv'
<1>1. PICK lev \in [Small -> 0..Levels] : Rooted(mem, nextFrame, spaces, lev)
  BY DEF MmuInv
<1>2. mem \in Memories /\ nextFrame \in 0..MaxFrames /\ spaces \in Seq(Small)
  BY DEF MmuInv
<1>3. cr3' = spaces[r] /\ tlb' = <<>> /\ last' = Idle /\ UNCHANGED <<mem, nextFrame, spaces>>
  BY DEF SwitchTo
<1>4. Rooted(mem', nextFrame', spaces', lev)
  BY <1>1, <1>3
<1>5. \E q \in DOMAIN spaces' : cr3' = spaces'[q]
  BY <1>3
<1> QED  BY <1>2, <1>3, <1>4, <1>5, HostStep

\* The invariant holds at first.
LEMMA MmuInit == Init => MmuInv
<1> SUFFICES ASSUME Init
             PROVE  MmuInv
  OBVIOUS
<1>1. /\ mem = [f \in Frames |-> Blank] /\ nextFrame = 1 /\ cr3 = 0 /\ spaces = <<0>>
      /\ tlb = <<>> /\ last = Idle
  BY DEF Init
<1>2. /\ 0 \in Small /\ Small \subseteq Frames /\ Small \subseteq Nat /\ Levels \in 2..4
      /\ MaxFrames \in Nat \ {0}
  BY SmallApart DEF Small
<1>3. Zero \in Entry
  BY FramesTypes, SmallApart DEF Zero, Entry
<1>4. mem \in Memories /\ \A u \in Small : mem[u] = Blank
  BY <1>1, <1>2, <1>3 DEF Memories, Blank
<1> DEFINE lev == [u \in Small |-> IF u = 0 THEN Levels ELSE 0]
<1>5. lev \in [Small -> 0..Levels] /\ lev[0] = Levels /\ \A u \in Small : lev[u] # 0 => u < 1
  BY <1>2
<1> HIDE DEF lev
<1>6. \A u \in Small, j \in Idx : ~mem[u][j].present
  BY <1>4 DEF Blank, Zero
<1>7. Tables(mem, 1, lev)
  BY <1>4, <1>5, <1>6 DEF Tables, Points
<1>8. /\ DOMAIN spaces = {1} /\ spaces[1] = 0 /\ spaces \in Seq(Small)
  BY <1>1, <1>2
<1>9. Rooted(mem, nextFrame, spaces, lev)
  BY <1>1, <1>5, <1>7, <1>8 DEF Rooted
<1>10. TlbTyped(tlb) /\ Coherent(mem, cr3, tlb)
  BY <1>1, EmptyCache
<1>11. last \in Access
  BY <1>1 DEF Idle, Access, Kinds
<1>12. nextFrame \in 0..MaxFrames
  BY <1>1, <1>2
<1> QED  BY <1>1, <1>4, <1>5, <1>8, <1>9, <1>10, <1>11, <1>12 DEF MmuInv

\* Every step keeps it.
LEMMA MmuNext == MmuInv /\ [Next]_vars => MmuInv'
<1> SUFFICES ASSUME MmuInv, [Next]_vars
             PROVE  MmuInv'
  OBVIOUS
<1>1. CASE UNCHANGED vars
  BY <1>1 DEF vars, MmuInv
<1>2. ASSUME NEW p \in UsedPages, NEW kind \in Kinds, AccessTranslated(p, kind)
      PROVE  MmuInv'
  BY <1>2, AccessTranslatedStep
<1>3. ASSUME NEW p \in UsedPages, NEW kind \in Kinds, AccessOnDemand(p, kind)
      PROVE  MmuInv'
  BY <1>3, AccessOnDemandStep
<1>4. ASSUME NEW p \in UsedPages, Lookup(p)
      PROVE  MmuInv'
  BY <1>4, LookupStep
<1>5. ASSUME NEW p \in HostPages, Unmap(p)
      PROVE  MmuInv'
  BY <1>5, UnmapStep
<1>6. ASSUME NEW p \in HostPages, NEW flags \in HostFlags, HostMaps(p, flags)
      PROVE  MmuInv'
  BY <1>6, HostMapsStep
<1>7. ASSUME NEW p \in HostPages, NEW flags \in HostFlags, HostWritesLarge(p, flags)
      PROVE  MmuInv'
  BY <1>7, HostWritesLargeStep
<1>8. CASE NewAddressSpace
  BY <1>8, NewAddressSpaceStep
<1>9. ASSUME NEW r \in DOMAIN spaces, SwitchTo(r)
      PROVE  MmuInv'
  BY <1>9, SwitchToStep
<1> QED  BY <1>1, <1>2, <1>3, <1>4, <1>5, <1>6, <1>7, <1>8, <1>9 DEF Next

\* It says what the run checks.
LEMMA MmuTypedCoherent == MmuInv => TypedCoherent
<1> SUFFICES ASSUME MmuInv
             PROVE  TypedCoherent
  OBVIOUS
<1>1. Small \subseteq Frames
  BY SmallApart
<1>2. TypeOK
  <2>1. spaces \in Seq(Frames) /\ cr3 \in Frames
    <3>1. spaces \in Seq(Small) /\ \E r \in DOMAIN spaces : cr3 = spaces[r]
      BY DEF MmuInv
    <3>2. \A r \in 1..Len(spaces) : spaces[r] \in Frames
      BY <1>1, <3>1
    <3> QED  BY <1>1, <3>1, <3>2
  <2> QED  BY <2>1 DEF MmuInv, Memories, TlbTyped, TypeOK
<1>3. TlbCoherent
  BY DEF MmuInv, Coherent, Backs, TlbCoherent
<1> QED  BY <1>2, <1>3 DEF TypedCoherent

\* translate never returns a stale translation or a permission that was withdrawn: the
\* cache agrees with the tables through mapPage, unmap, demand mapping, large pages
\* written behind it and switches of the space (paging.mjs).
THEOREM TypedCoherentHolds == Spec => []TypedCoherent
<1> QED  BY MmuInit, MmuNext, MmuTypedCoherent, PTL DEF Spec

-----------------------------------------------------------------------------
(***************************************************************************)
(* Paging implements AddressSpace.  Two walks come by the same table at a  *)
(* level only if they start from the same space and their pages agree      *)
(* above it (SamePath), so an entry that is written is on the walks of the *)
(* pages it serves and on no other: what the tables say of a page (View)   *)
(* changes for the pages a step is about, in the current space.            *)
(***************************************************************************)

\* A page is its indices.
LEMMA SamePage ==
  ASSUME NEW p \in Pages, NEW q \in Pages, \A l \in 1..Levels : q[l] = p[l]
  PROVE  q = p
<1>1. p = [l \in 1..Levels |-> p[l]] /\ q = [l \in 1..Levels |-> q[l]]
  BY DEF Pages
<1> QED  BY <1>1

\* Pages that agree above a level share the walk down to it.
LEMMA SameAbove ==
  ASSUME NEW m, NEW top, NEW p, NEW q, NEW k \in 1..Levels,
         \A l \in k..Levels : q[l] = p[l]
  PROVE  \A l \in k..Levels : Levelwise(m, top, q)[l] = Levelwise(m, top, p)[l]
<1> DEFINE W == Levelwise(m, top, p)
           V == Levelwise(m, top, q)
           S == {l \in 1..Levels : l >= k => V[l] = W[l]}
<1>1. Levels \in 2..4 /\ k \in Nat /\ k <= Levels /\ k >= 1
  BY SmallApart
<1>2. /\ W[Levels] = WalkAt(m, p, Levels, top) /\ V[Levels] = WalkAt(m, q, Levels, top)
      /\ \A l \in 1..(Levels - 1) : W[l] = WalkBelow(m, p, l, W[l + 1]) /\ V[l] = WalkBelow(m, q, l, V[l + 1])
  BY LevelwiseIs
<1> HIDE DEF W, V
<1>3. \A l \in 1..Levels : l >= k => q[l] = p[l]
  BY <1>1
<1>4. Levels \in S
  <2>1. q[Levels] = p[Levels]
    BY <1>1, <1>3
  <2> QED  BY <1>1, <1>2, <2>1 DEF WalkAt
<1>5. ASSUME NEW l \in 1..(Levels - 1), l + 1 \in S
      PROVE  l \in S
  <2>1. l \in 1..Levels /\ (l + 1 >= k => V[l + 1] = W[l + 1])
    BY <1>1, <1>5
  <2>2. ASSUME l >= k
        PROVE  V[l] = W[l]
    <3>1. V[l + 1] = W[l + 1] /\ q[l] = p[l]
      BY <1>1, <1>3, <2>1, <2>2
    <3>2. PICK a : a = W[l + 1]
      OBVIOUS
    <3>3. W[l] = WalkBelow(m, p, l, a) /\ V[l] = WalkBelow(m, q, l, a)
      BY <1>2, <3>1, <3>2
    <3> QED  BY <3>1, <3>3 DEF WalkBelow, WalkAt
  <2> QED  BY <2>1, <2>2
<1>6. 1..Levels \subseteq S
  <2> HIDE DEF S
  <2> QED  BY <1>4, <1>5, DownLevels
<1>7. \A l \in k..Levels : l \in 1..Levels /\ l >= k
  BY <1>1
<1> QED  BY <1>6, <1>7 DEF V, W

\* A step of a walk that goes down.
LEMMA WalkDown ==
  ASSUME NEW m \in Memories, NEW next, NEW lev, Tables(m, next, lev),
         NEW top \in Small, lev[top] = Levels, NEW p \in Pages,
         NEW W, W = Levelwise(m, top, p), NEW l \in 1..(Levels - 1), W[l].level = l
  PROVE  /\ W[l + 1].level = l + 1 /\ W[l + 1].table \in Small /\ lev[W[l + 1].table] = l + 1
         /\ m[W[l + 1].table][p[l + 1]].present /\ ~m[W[l + 1].table][p[l + 1]].ps
         /\ W[l].table = m[W[l + 1].table][p[l + 1]].frame
         /\ Points(m, lev, W[l + 1].table, p[l + 1])
<1>1. Levels \in 2..4 /\ l \in Nat /\ l + 1 \in 1..Levels /\ l >= 1
  BY SmallApart
<1>2. Found(m, lev, p, W[l + 1], l + 1)
  BY <1>1, WalkFound
<1>3. W[l] = WalkBelow(m, p, l, W[l + 1])
  BY LevelwiseIs
<1>4. W[l + 1].level = l + 1 /\ W[l + 1].entry.present /\ ~W[l + 1].entry.ps
  <2> SUFFICES ASSUME ~(W[l + 1].level = l + 1 /\ W[l + 1].entry.present /\ ~W[l + 1].entry.ps)
               PROVE  FALSE
    OBVIOUS
  <2>1. W[l] = W[l + 1]
    BY <1>3 DEF WalkBelow
  <2>2. W[l + 1].level \in (l + 1)..Levels
    BY <1>2 DEF Found
  <2> QED  BY <1>1, <2>1, <2>2
<1>5. /\ W[l + 1].table \in Small /\ lev[W[l + 1].table] = l + 1
      /\ W[l + 1].entry = m[W[l + 1].table][p[l + 1]]
  BY <1>2, <1>4 DEF Found
<1>6. W[l].table = W[l + 1].entry.frame
  BY <1>3, <1>4 DEF WalkBelow, WalkAt
<1>7. l + 1 >= 2
  BY <1>1
<1> QED  BY <1>4, <1>5, <1>6, <1>7 DEF Points

\* A table is on the walk of one path: the tables are trees.
LEMMA SamePath ==
  ASSUME NEW m \in Memories, NEW next, NEW lev, Tables(m, next, lev),
         NEW top \in Small, lev[top] = Levels, NEW tup \in Small, lev[tup] = Levels,
         NEW p \in Pages, NEW q \in Pages,
         NEW W, W = Levelwise(m, top, q), NEW V, V = Levelwise(m, tup, p)
  PROVE  \A l \in 1..Levels :
           W[l].level = l /\ V[l].level = l /\ W[l].table = V[l].table
             => top = tup /\ \A k \in (l + 1)..Levels : q[k] = p[k]
<1> DEFINE P(l) == W[l].level = l /\ V[l].level = l /\ W[l].table = V[l].table
                     => top = tup /\ \A k \in (l + 1)..Levels : q[k] = p[k]
           S == {l \in 1..Levels : P(l)}
<1>1. Levels \in 2..4
  BY SmallApart
<1>2. Levels \in S
  <2>0. W[Levels] = WalkAt(m, q, Levels, top) /\ V[Levels] = WalkAt(m, p, Levels, tup)
    BY LevelwiseIs
  <2>1. W[Levels].table = top /\ V[Levels].table = tup
    BY <2>0 DEF WalkAt
  <2>2. \A k \in (Levels + 1)..Levels : FALSE
    BY <1>1
  <2> QED  BY <1>1, <2>1, <2>2
<1>3. ASSUME NEW l \in 1..(Levels - 1), l + 1 \in S
      PROVE  l \in S
  <2>1. l \in 1..Levels /\ l \in Nat /\ l + 1 \in 1..Levels /\ P(l + 1)
    BY <1>1, <1>3
  <2>2. ASSUME W[l].level = l, V[l].level = l, W[l].table = V[l].table
        PROVE  top = tup /\ \A k \in (l + 1)..Levels : q[k] = p[k]
    <3>1. PICK t, u, i, j : t = W[l + 1].table /\ u = V[l + 1].table /\ i = q[l + 1] /\ j = p[l + 1]
      OBVIOUS
    <3>2. /\ W[l + 1].level = l + 1 /\ t \in Small
          /\ W[l].table = m[t][i].frame /\ Points(m, lev, t, i)
      BY <2>2, <3>1, WalkDown
    <3>3. /\ V[l + 1].level = l + 1 /\ u \in Small
          /\ V[l].table = m[u][j].frame /\ Points(m, lev, u, j)
      BY <2>2, <3>1, WalkDown
    <3>4. i \in Idx /\ j \in Idx
      BY <2>1, <3>1 DEF Pages
    <3>5. t = u /\ i = j
      BY <2>2, <3>2, <3>3, <3>4 DEF Tables
    <3>6. top = tup /\ \A k \in ((l + 1) + 1)..Levels : q[k] = p[k]
      BY <2>1, <3>1, <3>2, <3>3, <3>5
    <3>7. \A k \in (l + 1)..Levels : k = l + 1 \/ k \in ((l + 1) + 1)..Levels
      BY <1>1, <2>1
    <3> QED  BY <3>1, <3>5, <3>6, <3>7
  <2> QED  BY <2>1, <2>2
<1>4. 1..Levels \subseteq S
  <2> HIDE DEF S
  <2> QED  BY <1>2, <1>3, DownLevels
<1> QED  BY <1>4

\* A walk is not below the level it has reached.
LEMMA LevelAbove ==
  ASSUME NEW m, NEW top, NEW p, NEW W, W = Levelwise(m, top, p)
  PROVE  \A l \in 1..Levels : W[l].level >= l
<1> DEFINE S == {l \in 1..Levels : W[l].level \in l..Levels}
<1>1. Levels \in 2..4
  BY SmallApart
<1>2. /\ W[Levels] = WalkAt(m, p, Levels, top)
      /\ \A l \in 1..(Levels - 1) : W[l] = WalkBelow(m, p, l, W[l + 1])
  BY LevelwiseIs
<1>3. Levels \in S
  <2>1. W[Levels].level = Levels
    BY <1>2 DEF WalkAt
  <2> QED  BY <1>1, <2>1
<1>4. ASSUME NEW l \in 1..(Levels - 1), l + 1 \in S
      PROVE  l \in S
  <2>1. l \in 1..Levels /\ W[l + 1].level \in (l + 1)..Levels
    BY <1>1, <1>4
  <2>2. W[l].level = l \/ W[l] = W[l + 1]
    <3>1. PICK a : a = W[l + 1]
      OBVIOUS
    <3>2. W[l] = WalkBelow(m, p, l, a)
      BY <1>2, <3>1
    <3> QED  BY <3>1, <3>2 DEF WalkBelow, WalkAt
  <2> QED  BY <1>1, <2>1, <2>2
<1>5. 1..Levels \subseteq S
  <2> HIDE DEF S
  <2> QED  BY <1>3, <1>4, DownLevels
<1>6. \A l \in 1..Levels : W[l].level \in l..Levels
  BY <1>5
<1> QED  BY <1>1, <1>6

\* Memories that agree on what a walk looks at above a level: it gets to the same table.
AgreeAbove(W, n, p, k) == \A l \in (k + 1)..Levels : W[l].level = l => n[W[l].table][p[l]] = W[l].entry

\* Down to level k, a walk depends on the entries it looks at above k.
LEMMA WalkLocalAbove ==
  ASSUME NEW m, NEW n, NEW top, NEW p, NEW k \in 1..Levels,
         NEW W, W = Levelwise(m, top, p), NEW V, V = Levelwise(n, top, p),
         AgreeAbove(W, n, p, k), W[k].level = k
  PROVE  V[k] = WalkAt(n, p, k, W[k].table)
<1> DEFINE S == {l \in 1..Levels : l >= k + 1 => V[l] = W[l]}
<1>1. Levels \in 2..4 /\ k \in Nat /\ k <= Levels /\ k >= 1
  BY SmallApart
<1>2. /\ W[Levels] = WalkAt(m, p, Levels, top) /\ V[Levels] = WalkAt(n, p, Levels, top)
      /\ \A l \in 1..(Levels - 1) : W[l] = WalkBelow(m, p, l, W[l + 1]) /\ V[l] = WalkBelow(n, p, l, V[l + 1])
  BY LevelwiseIs
<1>3. \A l \in 1..Levels : l >= k + 1 /\ W[l].level = l => n[W[l].table][p[l]] = W[l].entry
  BY <1>1 DEF AgreeAbove
<1>4. Levels \in S
  <2>1. W[Levels].level = Levels /\ W[Levels].table = top /\ W[Levels].entry = m[top][p[Levels]]
    BY <1>2 DEF WalkAt
  <2>2. Levels >= k + 1 => n[top][p[Levels]] = m[top][p[Levels]]
    BY <1>1, <1>3, <2>1
  <2> QED  BY <1>1, <1>2, <2>2 DEF WalkAt
<1>5. ASSUME NEW l \in 1..(Levels - 1), l + 1 \in S
      PROVE  l \in S
  <2>1. l \in 1..Levels /\ l \in Nat /\ (l >= k + 1 => V[l + 1] = W[l + 1])
    BY <1>1, <1>5
  <2>2. ASSUME l >= k + 1
        PROVE  V[l] = W[l]
    <3>1. V[l + 1] = W[l + 1]
      BY <2>1, <2>2
    <3>2. CASE W[l + 1].level = l + 1 /\ W[l + 1].entry.present /\ ~W[l + 1].entry.ps
      <4>1. PICK t : t = W[l + 1].entry.frame
        OBVIOUS
      <4>2. W[l] = WalkAt(m, p, l, t) /\ V[l] = WalkAt(n, p, l, t)
        BY <1>2, <3>1, <3>2, <4>1 DEF WalkBelow
      <4>3. W[l].level = l /\ W[l].table = t /\ W[l].entry = m[t][p[l]]
        BY <4>2 DEF WalkAt
      <4>4. n[t][p[l]] = m[t][p[l]]
        BY <1>3, <2>1, <2>2, <4>3
      <4> QED  BY <4>2, <4>4 DEF WalkAt
    <3>3. CASE ~(W[l + 1].level = l + 1 /\ W[l + 1].entry.present /\ ~W[l + 1].entry.ps)
      <4>1. W[l] = W[l + 1] /\ V[l] = V[l + 1]
        BY <1>2, <3>1, <3>3 DEF WalkBelow
      <4> QED  BY <3>1, <4>1
    <3> QED  BY <3>2, <3>3
  <2> QED  BY <2>1, <2>2
<1>6. 1..Levels \subseteq S
  <2> HIDE DEF S
  <2> QED  BY <1>4, <1>5, DownLevels
<1>7. CASE k = Levels
  BY <1>2, <1>7 DEF WalkAt
<1>8. CASE k # Levels
  <2>1. k \in 1..(Levels - 1) /\ k + 1 \in 1..Levels
    BY <1>1, <1>8
  <2>2. V[k + 1] = W[k + 1]
    BY <1>1, <1>6, <2>1
  <2>3. W[k] = WalkBelow(m, p, k, W[k + 1]) /\ V[k] = WalkBelow(n, p, k, V[k + 1])
    BY <1>2, <2>1
  <2>4. CASE W[k + 1].level = k + 1 /\ W[k + 1].entry.present /\ ~W[k + 1].entry.ps
    <3>1. PICK t : t = W[k + 1].entry.frame
      OBVIOUS
    <3>2. W[k] = WalkAt(m, p, k, t) /\ V[k] = WalkAt(n, p, k, t)
      BY <2>2, <2>3, <2>4, <3>1 DEF WalkBelow
    <3>3. W[k].table = t
      BY <3>2 DEF WalkAt
    <3> QED  BY <3>2, <3>3
  <2>5. CASE ~(W[k + 1].level = k + 1 /\ W[k + 1].entry.present /\ ~W[k + 1].entry.ps)
    <3>1. W[k] = W[k + 1]
      BY <2>3, <2>5 DEF WalkBelow
    <3>2. W[k + 1].level >= k + 1
      BY <2>1, LevelAbove
    <3> QED  BY <1>1, <3>1, <3>2
  <2> QED  BY <2>4, <2>5
<1> QED  BY <1>7, <1>8

\* A walk that does not look at what changed is as it was.
LEMMA UnchangedWalk ==
  ASSUME NEW m, NEW n, NEW top, NEW p, NEW W, W = Levelwise(m, top, p),
         \A l \in 1..Levels : W[l].level = l => n[W[l].table][p[l]] = W[l].entry
  PROVE  Walk(n, top, p) = Walk(m, top, p)
<1>1. 1 \in 1..Levels
  BY SmallApart
<1>2. \A l \in 1..Levels : LET w == Levelwise(m, top, p)[l] IN w.level = l => n[w.table][p[l]] = w.entry
  OBVIOUS
<1>3. \A l \in 1..Levels : Levelwise(n, top, p)[l] = Levelwise(m, top, p)[l]
  BY <1>2, WalkLocal
<1> QED  BY <1>1, <1>3 DEF Walk

\* On the way to a present entry every entry is present.
LEMMA PresentWalk ==
  ASSUME NEW m \in Memories, NEW next, NEW lev, Tables(m, next, lev),
         NEW top \in Small, lev[top] = Levels, NEW p \in Pages,
         NEW W, W = Levelwise(m, top, p), NEW l \in 1..Levels, W[l].level = l
  PROVE  /\ W[l].table \in Small /\ lev[W[l].table] = l /\ p[l] \in Idx
         /\ W[l].entry = m[W[l].table][p[l]]
         /\ W[1].entry.present => W[l].entry.present
<1>1. Levels \in 2..4 /\ 1 \in 1..Levels
  BY SmallApart
<1>2. Found(m, lev, p, W[l], l)
  BY WalkFound
<1>3. W[l].table \in Small /\ lev[W[l].table] = l /\ p[l] \in Idx /\ W[l].entry = m[W[l].table][p[l]]
  BY <1>2 DEF Found, Pages
<1>4. /\ l <= W[1].level => W[l] = W[1]
      /\ l > W[1].level => W[l].entry.present
  BY WalkStops
<1>5. W[1].level \in 1..Levels
  BY <1>1, WalkFound DEF Found
<1> QED  BY <1>1, <1>3, <1>4, <1>5

-----------------------------------------------------------------------------
\* What the tables of a space say of a page.
View(m, top, p) ==
  LET w == Walk(m, top, p) IN
  IF w.entry.present
  THEN [frame |-> Reached(p, w), write |-> w.entry.write, user |-> w.entry.user, exec |-> ~w.entry.nx]
  ELSE Abstract!Unmapped

\* The path of the page mapPage maps, in the memory it leaves.
LEMMA PathWalked ==
  ASSUME NEW m \in Memories, NEW next \in Nat, NEW lev, Tables(m, next, lev),
         cr3 \in Small, lev[cr3] = Levels, NEW p \in Pages,
         NEW w, w = Walk(m, cr3, p), NEW leaf, NEW r, NEW lew,
         PageMapped(m, next, lev, p, w, leaf, r, lew), ~leaf.ps,
         NEW Y, Y = Levelwise(r.mem, cr3, p)
  PROVE  /\ \A l \in 1..w.level : Y[l] = WalkAt(r.mem, p, l, Table(next, w, l))
         /\ lew[cr3] = Levels
<1>1. PICK n, V : n = r.mem /\ V = Levelwise(m, cr3, p)
  OBVIOUS
<1>2. /\ w.level \in 1..Levels /\ w.level \in Nat /\ w.table \in Small /\ w.table < next
      /\ lev[w.table] = w.level /\ Levels \in 2..4 /\ Small \subseteq Nat /\ w = V[1] /\ cr3 < next
  <2>1. w.level \in 1..Levels /\ w.table \in Small /\ w.table < next /\ lev[w.table] = w.level
    BY WalkEnds
  <2>2. Levels \in 2..4 /\ Small \subseteq Nat
    BY SmallApart DEF Small
  <2>3. cr3 < next
    BY <2>2 DEF Tables
  <2> QED  BY <1>1, <2>1, <2>2, <2>3 DEF Walk
<1>3. /\ n \in Memories
      /\ \A u \in Small : u < next => lew[u] = lev[u]
      /\ \A k \in 1..w.level : Table(next, w, k) \in Small /\ lew[Table(next, w, k)] = k
      /\ \A k \in 2..w.level : n[Table(next, w, k)][p[k]] = TableEntry(Table(next, w, k - 1))
      /\ \A u \in Frames, j \in Idx : ~OnPath(next, w, p, 1, u, j) => n[u][j] = m[u][j]
  BY <1>1 DEF PageMapped
<1>4. V[w.level] = w
  <2>1. w.level <= V[1].level => V[w.level] = V[1]
    BY <1>1, <1>2, WalkStops
  <2> QED  BY <1>2, <2>1
<1>5. Y[w.level] = WalkAt(n, p, w.level, w.table)
  <2>1. ASSUME NEW l \in (w.level + 1)..Levels, V[l].level = l
        PROVE  n[V[l].table][p[l]] = V[l].entry
    <3>1. l \in 1..Levels /\ l > w.level
      BY <1>2
    <3>2. /\ V[l].table \in Small /\ lev[V[l].table] = l /\ p[l] \in Idx
          /\ V[l].entry = m[V[l].table][p[l]]
      BY <1>1, <2>1, <3>1, PresentWalk
    <3>3. PICK t : t = V[l].table
      OBVIOUS
    <3>4. t \in Small /\ t \in Frames /\ t < next /\ lew[t] = l
      <4>1. l # 0
        BY <1>2, <3>1
      <4>2. t < next
        BY <3>2, <3>3, <4>1 DEF Tables
      <4> QED  BY <1>3, <3>2, <3>3, <4>2, SmallApart
    <3>5. ~OnPath(next, w, p, 1, t, p[l])
      <4> SUFFICES ASSUME NEW k \in 1..w.level, t = Table(next, w, k)
                   PROVE  FALSE
        BY DEF OnPath
      <4>1. k = l
        BY <1>3, <3>4
      <4> QED  BY <1>2, <3>1, <4>1
    <3> QED  BY <1>3, <3>2, <3>3, <3>4, <3>5
  <2>2. V[w.level].level = w.level /\ V[w.level].table = w.table
    BY <1>4
  <2>3. PICK k \in 1..Levels : k = w.level
    BY <1>2
  <2>4. AgreeAbove(V, n, p, k)
    BY <2>1, <2>3 DEF AgreeAbove
  <2>5. V[k].level = k /\ V = Levelwise(m, cr3, p) /\ Y = Levelwise(n, cr3, p)
    BY <1>1, <2>2, <2>3
  <2>6. Y[k] = WalkAt(n, p, k, V[k].table)
    BY <2>4, <2>5, WalkLocalAbove
  <2> QED  BY <2>2, <2>3, <2>6
<1> DEFINE S == {l \in 1..Levels : l <= w.level => Y[l] = WalkAt(n, p, l, Table(next, w, l))}
<1>6. Table(next, w, w.level) = w.table
  BY DEF Table
<1>7. Levels \in S
  <2>1. Levels <= w.level => Levels = w.level
    BY <1>2
  <2> QED  BY <1>2, <1>5, <1>6, <2>1
<1>8. ASSUME NEW l \in 1..(Levels - 1), l + 1 \in S
      PROVE  l \in S
  <2>1. l \in 1..Levels /\ l \in Nat /\ (l + 1 <= w.level => Y[l + 1] = WalkAt(n, p, l + 1, Table(next, w, l + 1)))
    BY <1>2, <1>8
  <2>2. CASE l = w.level
    BY <1>5, <1>6, <2>1, <2>2
  <2>3. CASE l < w.level
    <3>1. /\ l + 1 <= w.level /\ l + 1 \in 2..w.level /\ (l + 1) - 1 = l
      BY <1>2, <2>1, <2>3
    <3>2. PICK t, u : t = Table(next, w, l + 1) /\ u = Table(next, w, l)
      OBVIOUS
    <3>3. n[t][p[l + 1]] = TableEntry(u)
      BY <1>3, <3>1, <3>2
    <3>4. Y[l + 1] = WalkAt(n, p, l + 1, t)
      BY <2>1, <3>1, <3>2
    <3>5. Y[l + 1].level = l + 1 /\ Y[l + 1].entry = TableEntry(u)
      BY <3>3, <3>4 DEF WalkAt
    <3>6. TableEntry(u).present /\ ~TableEntry(u).ps /\ TableEntry(u).frame = u
      BY DEF TableEntry, Zero
    <3>7. Y[l] = WalkBelow(n, p, l, Y[l + 1])
      BY <1>1, LevelwiseIs
    <3>8. Y[l] = WalkAt(n, p, l, u)
      BY <3>5, <3>6, <3>7 DEF WalkBelow
    <3> QED  BY <2>1, <3>2, <3>8
  <2>4. l = w.level \/ l < w.level \/ ~(l <= w.level)
    BY <1>2, <2>1
  <2> QED  BY <2>1, <2>2, <2>3, <2>4
<1>9. 1..Levels \subseteq S
  <2> HIDE DEF S
  <2> QED  BY <1>7, <1>8, DownLevels
<1>10. \A l \in 1..w.level : l \in 1..Levels /\ l <= w.level
  BY <1>2
<1>11. lew[cr3] = Levels
  BY <1>2, <1>3
<1> QED  BY <1>1, <1>9, <1>10, <1>11

\* A walk of the memory mapPage leaves that ends at a present entry goes through an entry
\* mapPage wrote only if it is the walk of the page it maps.
LEMMA OthersAvoid ==
  ASSUME NEW m \in Memories, NEW next \in Nat, NEW lev, Tables(m, next, lev),
         cr3 \in Small, lev[cr3] = Levels, NEW p \in Pages,
         NEW w, w = Walk(m, cr3, p), NEW leaf, NEW r, NEW lew,
         PageMapped(m, next, lev, p, w, leaf, r, lew), ~leaf.ps,
         NEW top \in Small, lew[top] = Levels, NEW q \in Pages,
         NEW X, X = Levelwise(r.mem, top, q), X[1].entry.present,
         NEW k \in 1..Levels, X[k].level = k, OnPath(next, w, p, 1, X[k].table, q[k])
  PROVE  top = cr3 /\ q = p
<1>1. PICK n, Y, V : n = r.mem /\ Y = Levelwise(n, cr3, p) /\ V = Levelwise(m, cr3, p)
  OBVIOUS
<1>2. /\ w.level \in 1..Levels /\ w.level \in Nat /\ w.table \in Small /\ w.table < next
      /\ Levels \in 2..4 /\ Small \subseteq Nat /\ Small \subseteq Frames
  <2>1. w.level \in 1..Levels /\ w.table \in Small /\ w.table < next
    BY WalkEnds
  <2> QED  BY <2>1, SmallApart DEF Small
<1>3. /\ n \in Memories /\ Tables(n, r.next, lew)
      /\ \A l \in 1..w.level : Table(next, w, l) \in Small /\ lew[Table(next, w, l)] = l
      /\ \A l \in 2..w.level : n[Table(next, w, l)][p[l]] = TableEntry(Table(next, w, l - 1))
      /\ \A u \in Frames, j \in Idx : ~OnPath(next, w, p, 1, u, j) => n[u][j] = m[u][j]
  BY <1>1 DEF PageMapped
<1>4. \A l \in 1..w.level : Y[l].level = l /\ Y[l].table = Table(next, w, l)
  <2>1. \A l \in 1..w.level : Y[l] = WalkAt(n, p, l, Table(next, w, l))
    BY <1>1, PathWalked
  <2>2. \A l, t : WalkAt(n, p, l, t).level = l /\ WalkAt(n, p, l, t).table = t
    BY DEF WalkAt
  <2> QED  BY <2>1, <2>2
<1>5. lew[cr3] = Levels
  BY PathWalked
\* On the path at a level.
<1> DEFINE On(l) == l <= w.level /\ X[l].level = l /\ X[l].table = Table(next, w, l) /\ q[l] = p[l]
<1>6. ASSUME NEW l \in 1..Levels, X[l].level = l, OnPath(next, w, p, 1, X[l].table, q[l])
      PROVE  On(l)
  <2>1. PICK j \in 1..w.level : X[l].table = Table(next, w, j) /\ q[l] = p[j]
    BY <1>6 DEF OnPath
  <2>2. lew[X[l].table] = l
    BY <1>1, <1>3, <1>6, PresentWalk
  <2>3. j = l
    BY <1>3, <2>1, <2>2
  <2> QED  BY <1>2, <1>6, <2>1, <2>3
<1>7. ASSUME NEW l \in 1..(Levels - 1), On(l + 1)
      PROVE  On(l)
  <2>1. /\ l \in 1..Levels /\ l + 1 \in 1..Levels /\ l \in Nat /\ (l + 1) - 1 = l
        /\ l + 1 \in 2..w.level /\ l \in 1..w.level /\ l < w.level
    BY <1>2, <1>7
  <2>2. PICK t, u : t = Table(next, w, l + 1) /\ u = Table(next, w, l)
    OBVIOUS
  <2>3. /\ X[l + 1].level = l + 1 /\ X[l + 1].table = t /\ q[l + 1] = p[l + 1]
        /\ n[t][p[l + 1]] = TableEntry(u) /\ u \in Small
    BY <1>3, <1>7, <2>1, <2>2
  <2>4. X[l + 1].entry = TableEntry(u)
    <3>1. X[l + 1].entry = n[X[l + 1].table][q[l + 1]]
      BY <1>1, <1>3, <2>1, <2>3, PresentWalk
    <3> QED  BY <2>3, <3>1
  <2>5. TableEntry(u).present /\ ~TableEntry(u).ps /\ TableEntry(u).frame = u
    BY DEF TableEntry, Zero
  <2>6. X[l] = WalkBelow(n, q, l, X[l + 1])
    BY <1>1, LevelwiseIs
  <2>7. X[l] = WalkAt(n, q, l, u)
    BY <2>3, <2>4, <2>5, <2>6 DEF WalkBelow
  <2>8. X[l].level = l /\ X[l].table = u
    BY <2>7 DEF WalkAt
  <2>9. X[l].entry.present /\ X[l].entry = n[u][q[l]] /\ q[l] \in Idx
    BY <1>1, <1>3, <2>1, <2>8, PresentWalk
  <2>10. u >= next
    <3>1. u = next + ((w.level - 1) - l)
      BY <2>1, <2>2 DEF Table
    <3> QED  BY <1>2, <2>1, <3>1
  <2>11. ~m[u][q[l]].present
    <3>1. m[u] = Blank
      BY <2>3, <2>10 DEF Tables
    <3> QED  BY <2>9, <3>1 DEF Blank, Zero
  <2>12. OnPath(next, w, p, 1, u, q[l])
    <3>1. n[u][q[l]] # m[u][q[l]]
      BY <2>9, <2>11
    <3> QED  BY <1>2, <1>3, <2>3, <2>9, <3>1
  <2> QED  BY <1>6, <2>1, <2>8, <2>12
<1>8. On(k)
  BY <1>6
<1> DEFINE S == {l \in 1..Levels : l <= k => On(l)}
<1>9. Levels \in S
  <2>1. Levels <= k => Levels = k
    BY <1>2
  <2>2. Levels \in 1..Levels
    BY <1>2
  <2> HIDE DEF On
  <2> QED  BY <1>8, <2>1, <2>2
<1>10. ASSUME NEW l \in 1..(Levels - 1), l + 1 \in S
       PROVE  l \in S
  <2>1. l \in 1..Levels /\ (l <= k => l = k \/ l + 1 <= k)
    BY <1>2
  <2>2. l + 1 <= k => On(l + 1)
    <3> HIDE DEF On
    <3> QED  BY <1>10
  <2> HIDE DEF On
  <2> QED  BY <1>7, <1>8, <2>1, <2>2
<1>11. 1..Levels \subseteq S
  <2> HIDE DEF S
  <2> QED  BY <1>9, <1>10, DownLevels
<1>12. \A l \in 1..k : q[l] = p[l]
  <2>1. \A l \in 1..k : l \in 1..Levels /\ l <= k
    BY <1>2
  <2> QED  BY <1>11, <2>1
<1>13. top = cr3 /\ \A l \in (k + 1)..Levels : q[l] = p[l]
  <2>1. k \in 1..w.level
    BY <1>2, <1>8
  <2>2. Y[k].level = k /\ X[k].table = Y[k].table
    BY <1>4, <1>8, <2>1
  <2> HIDE DEF On
  <2> QED  BY <1>1, <1>3, <1>5, <2>2, SamePath
<1>14. q = p
  <2>1. \A l \in 1..Levels : l \in 1..k \/ l \in (k + 1)..Levels
    BY <1>2
  <2>2. \A l \in 1..Levels : q[l] = p[l]
    BY <1>12, <1>13, <2>1
  <2> QED  BY <2>2, SamePage
<1> QED  BY <1>13, <1>14

\* mapPage maps its page and no other, in this space or another.
LEMMA OthersKept ==
  ASSUME NEW m \in Memories, NEW next \in Nat, NEW lev, Tables(m, next, lev),
         cr3 \in Small, lev[cr3] = Levels, NEW p \in Pages,
         NEW w, w = Walk(m, cr3, p), w.level = 1 \/ ~w.entry.present,
         NEW leaf, NEW r, NEW lew,
         PageMapped(m, next, lev, p, w, leaf, r, lew), ~leaf.ps,
         NEW top \in Small, lev[top] = Levels, NEW q \in Pages, top # cr3 \/ q # p
  PROVE  View(r.mem, top, q) = View(m, top, q)
<1>1. PICK n, X, W, V : /\ n = r.mem /\ X = Levelwise(n, top, q)
                        /\ W = Levelwise(m, top, q) /\ V = Levelwise(m, cr3, p)
  OBVIOUS
<1>2. /\ w.level \in 1..Levels /\ w.level \in Nat /\ w.table \in Small /\ w.table < next
      /\ w.entry = m[w.table][p[w.level]] /\ lev[w.table] = w.level
      /\ Levels \in 2..4 /\ Small \subseteq Nat /\ Small \subseteq Frames /\ w = V[1] /\ top < next
  <2>1. /\ w.level \in 1..Levels /\ w.table \in Small /\ w.table < next
        /\ w.entry = m[w.table][p[w.level]] /\ lev[w.table] = w.level
    BY WalkEnds
  <2>2. Levels \in 2..4 /\ Small \subseteq Nat /\ Small \subseteq Frames
    BY SmallApart DEF Small
  <2>3. top < next
    BY <2>2 DEF Tables
  <2> QED  BY <1>1, <2>1, <2>2, <2>3 DEF Walk
<1>3. /\ n \in Memories /\ Tables(n, r.next, lew)
      /\ \A u \in Small : u < next => lew[u] = lev[u]
      /\ \A k \in 1..w.level : Table(next, w, k) \in Small /\ lew[Table(next, w, k)] = k
      /\ \A u \in Frames, j \in Idx : ~OnPath(next, w, p, 1, u, j) => n[u][j] = m[u][j]
  BY <1>1 DEF PageMapped
<1>4. lew[top] = Levels
  BY <1>2, <1>3
<1>5. ASSUME X[1].entry.present
      PROVE  Walk(m, top, q) = Walk(n, top, q)
  <2>1. ASSUME NEW l \in 1..Levels, X[l].level = l
        PROVE  m[X[l].table][q[l]] = X[l].entry
    <3>1. X[l].table \in Small /\ q[l] \in Idx /\ X[l].entry = n[X[l].table][q[l]]
      BY <1>1, <1>3, <1>4, <2>1, PresentWalk
    <3>2. ~OnPath(next, w, p, 1, X[l].table, q[l])
      BY <1>1, <1>4, <1>5, <2>1, OthersAvoid
    <3> QED  BY <1>2, <1>3, <3>1, <3>2
  <2> QED  BY <1>1, <2>1, UnchangedWalk
<1>6. ASSUME W[1].entry.present
      PROVE  Walk(n, top, q) = Walk(m, top, q)
  <2>1. ASSUME NEW l \in 1..Levels, W[l].level = l
        PROVE  n[W[l].table][q[l]] = W[l].entry
    <3>1. PICK t : t = W[l].table
      OBVIOUS
    <3>2. /\ t \in Small /\ lev[t] = l /\ q[l] \in Idx /\ W[l].entry = m[t][q[l]] /\ W[l].entry.present
      BY <1>1, <1>6, <2>1, <3>1, PresentWalk
    <3>3. t < next /\ lew[t] = l /\ l \in Nat
      <4>1. lev[t] # 0 /\ l \in Nat
        BY <3>2
      <4>2. t < next
        BY <3>2, <4>1 DEF Tables
      <4> QED  BY <1>3, <3>2, <4>1, <4>2
    <3>4. ASSUME NEW k \in 1..w.level, t = Table(next, w, k), q[l] = p[k]
          PROVE  FALSE
      <4>1. k = l
        BY <1>3, <3>3, <3>4
      <4>2. k = w.level /\ t = w.table
        <5>1. k # w.level => t = next + ((w.level - 1) - k)
          BY <3>4 DEF Table
        <5>2. k = w.level
          BY <1>2, <3>3, <5>1
        <5> QED  BY <3>4, <5>2 DEF Table
      <4>3. W[l].entry = w.entry
        BY <1>2, <3>2, <3>4, <4>1, <4>2
      <4>4. l = 1 /\ w.level = 1
        BY <3>2, <4>1, <4>2, <4>3
      <4>5. top = cr3 /\ \A j \in (l + 1)..Levels : q[j] = p[j]
        <5>1. W[l].level = l /\ V[l].level = l /\ W[l].table = V[l].table
          BY <1>2, <2>1, <3>1, <4>2, <4>4
        <5> QED  BY <1>1, <5>1, SamePath
      <4>6. \A j \in 1..Levels : q[j] = p[j]
        <5>1. \A j \in 1..Levels : j = 1 \/ j \in (1 + 1)..Levels
          BY <1>2
        <5> QED  BY <3>4, <4>1, <4>4, <4>5, <5>1
      <4> QED  BY <4>5, <4>6, SamePage
    <3>5. ~OnPath(next, w, p, 1, t, q[l])
      BY <3>4 DEF OnPath
    <3> QED  BY <1>2, <1>3, <3>1, <3>2, <3>5
  <2> QED  BY <1>1, <2>1, UnchangedWalk
<1>7. CASE X[1].entry.present \/ W[1].entry.present
  <2>1. Walk(n, top, q) = Walk(m, top, q)
    BY <1>5, <1>6, <1>7
  <2> QED  BY <1>1, <2>1 DEF View
<1>8. CASE ~X[1].entry.present /\ ~W[1].entry.present
  <2>1. ~Walk(n, top, q).entry.present /\ ~Walk(m, top, q).entry.present
    BY <1>1, <1>8 DEF Walk
  <2> QED  BY <1>1, <2>1 DEF View
<1> QED  BY <1>7, <1>8

\* The page mapPage maps.
LEMMA MappedView ==
  ASSUME NEW m \in Memories, NEW next \in Nat, NEW lev, Tables(m, next, lev),
         cr3 \in Small, lev[cr3] = Levels, NEW p \in Pages,
         NEW w, w = Walk(m, cr3, p), NEW leaf \in Entry, NEW r, NEW lew,
         PageMapped(m, next, lev, p, w, leaf, r, lew), ~leaf.ps, leaf.present
  PROVE  /\ Walk(r.mem, cr3, p).level = 1 /\ Walk(r.mem, cr3, p).entry = leaf
         /\ View(r.mem, cr3, p) = [frame |-> leaf.frame, write |-> leaf.write, user |-> leaf.user, exec |-> ~leaf.nx]
<1>1. PICK n, Y, x : n = r.mem /\ Y = Levelwise(n, cr3, p) /\ x = Walk(n, cr3, p)
  OBVIOUS
<1>2. 1 \in 1..w.level
  <2>1. w.level \in 1..Levels /\ Levels \in Nat
    BY WalkEnds, SmallApart
  <2> QED  BY <2>1
<1>3. x = WalkAt(n, p, 1, Table(next, w, 1))
  <2>1. \A l \in 1..w.level : Y[l] = WalkAt(n, p, l, Table(next, w, l))
    BY <1>1, PathWalked
  <2>2. x = Y[1]
    BY <1>1 DEF Walk
  <2> QED  BY <1>2, <2>1, <2>2
<1>4. n[Table(next, w, 1)][p[1]] = leaf
  BY <1>1 DEF PageMapped
<1>5. x.level = 1 /\ x.entry = leaf
  BY <1>3, <1>4 DEF WalkAt
<1>6. Reached(p, x) = leaf.frame
  <2>1. leaf.frame \in Nat
    BY FramesTypes DEF Entry
  <2> QED  BY <1>5, <2>1 DEF Reached, Offset
<1> QED  BY <1>1, <1>5, <1>6 DEF View

-----------------------------------------------------------------------------
\* No entry of a table looks like a word programs write: none leads to frame 0.
LEMMA TablesUnmarked ==
  ASSUME NEW m, NEW next, NEW lev, Tables(m, next, lev)
  PROVE  /\ \A u \in Small, i \in Idx : lev[u] # 0 => m[u][i] # Mark
         /\ \A u \in Small, i \in Idx : u >= next => m[u][i] # Mark
<1>1. Mark.present /\ ~Mark.ps /\ Mark.frame = 0
  BY DEF Mark, Zero
<1>2. 0 \in Small /\ Levels \in 2..4
  BY SmallApart
<1>3. ASSUME NEW u \in Small, NEW i \in Idx, lev[u] # 0, m[u][i] = Mark
      PROVE  FALSE
  <2>1. Leads(Mark, lev[u], next, lev)
    BY <1>1, <1>3 DEF Tables
  <2>2. lev[0] = Levels /\ lev[u] \in 0..Levels
    BY DEF Tables
  <2> QED  BY <1>1, <1>2, <2>1, <2>2 DEF Leads
<1>4. ASSUME NEW u \in Small, NEW i \in Idx, u >= next, m[u][i] = Mark
      PROVE  FALSE
  <2>1. m[u] = Blank
    BY <1>4 DEF Tables
  <2> QED  BY <1>1, <1>4, <2>1 DEF Blank, Zero
<1> QED  BY <1>3, <1>4

SameWords(m, n) == \A u \in Frames, j \in Idx : m[u][j] = Mark <=> n[u][j] = Mark

\* mapPage writes in tables.
LEMMA MapPageWords ==
  ASSUME NEW m \in Memories, NEW next \in Nat, NEW lev, Tables(m, next, lev), NEW p \in Pages,
         NEW w, NEW leaf, NEW r, NEW lew, PageMapped(m, next, lev, p, w, leaf, r, lew)
  PROVE  SameWords(m, r.mem)
<1> SUFFICES ASSUME NEW u \in Frames, NEW j \in Idx
             PROVE  m[u][j] = Mark <=> r.mem[u][j] = Mark
  BY DEF SameWords
<1>1. /\ Tables(r.mem, r.next, lew)
      /\ \A v \in Small : v < next => lew[v] = lev[v]
      /\ \A k \in 1..w.level : Table(next, w, k) \in Small /\ lew[Table(next, w, k)] = k
      /\ ~OnPath(next, w, p, 1, u, j) => r.mem[u][j] = m[u][j]
  BY DEF PageMapped
<1>2. CASE OnPath(next, w, p, 1, u, j)
  <2>1. PICK k \in 1..w.level : u = Table(next, w, k)
    BY <1>2 DEF OnPath
  <2>2. u \in Small /\ lew[u] # 0
    BY <1>1, <2>1
  <2>3. r.mem[u][j] # Mark
    BY <1>1, <2>2, TablesUnmarked
  <2>4. u < next \/ u >= next
    BY <2>2 DEF Small
  <2>5. m[u][j] # Mark
    BY <1>1, <2>2, <2>4, TablesUnmarked
  <2> QED  BY <2>3, <2>5
<1>3. CASE ~OnPath(next, w, p, 1, u, j)
  BY <1>1, <1>3
<1> QED  BY <1>2, <1>3

-----------------------------------------------------------------------------
\* What AddressSpace sees, of a memory and the top-level tables.
MapsOf(m, sp) ==
  [r \in 1..MaxSpaces |-> [p \in Pages \cup {Hole} |->
     IF r \in DOMAIN sp /\ p # Hole THEN View(m, sp[r], p) ELSE Abstract!Unmapped]]
WrittenOf(m) == [f \in Frames |-> [i \in Idx |-> IF m[f][i] = Mark THEN Mark ELSE Zero]]
RootOf(top, sp) == CHOOSE r \in DOMAIN sp : sp[r] = top

\* The refinement mapping, before a step and after it.
LEMMA Seen ==
  /\ Maps = MapsOf(mem, spaces) /\ Maps' = MapsOf(mem', spaces')
  /\ Written = WrittenOf(mem) /\ Written' = WrittenOf(mem')
  /\ Root = RootOf(cr3, spaces) /\ Root' = RootOf(cr3', spaces')
<1>1. Maps = MapsOf(mem, spaces)
  BY DEF Maps, MapsOf, Resolved, View, Reached, Abstract!Unmapped
<1>2. Maps' = MapsOf(mem', spaces')
  BY DEF Maps, MapsOf, Resolved, View, Reached, Abstract!Unmapped
<1>3. Written = WrittenOf(mem) /\ Written' = WrittenOf(mem')
  BY DEF Written, WrittenOf
<1>4. Root = RootOf(cr3, spaces) /\ Root' = RootOf(cr3', spaces')
  BY DEF Root, RootOf
<1> QED  BY <1>1, <1>2, <1>3, <1>4

Distinct(sp) == \A r, s \in DOMAIN sp : sp[r] = sp[s] => r = s

\* The current space is the one whose table is the top one.
LEMMA RootIs ==
  ASSUME NEW sp, Distinct(sp), NEW r \in DOMAIN sp
  PROVE  RootOf(sp[r], sp) = r
BY DEF RootOf, Distinct

\* What programs wrote is told from the marks alone.
LEMMA WordsSame ==
  ASSUME NEW m, NEW n, SameWords(m, n)
  PROVE  WrittenOf(n) = WrittenOf(m)
BY DEF SameWords, WrittenOf

\* The mappings are told from what the tables say of each page.
LEMMA ViewsSame ==
  ASSUME NEW m, NEW n, NEW sp, \A r \in DOMAIN sp, q \in Pages : View(n, sp[r], q) = View(m, sp[r], q)
  PROVE  MapsOf(n, sp) = MapsOf(m, sp)
BY DEF MapsOf

\* The mapping of one page.
LEMMA MapsAt ==
  ASSUME NEW m, NEW sp, NEW r \in 1..MaxSpaces
  PROVE  /\ \A p \in Pages : MapsOf(m, sp)[r][p] = IF r \in DOMAIN sp THEN View(m, sp[r], p) ELSE Abstract!Unmapped
         /\ MapsOf(m, sp)[r][Hole] = Abstract!Unmapped
<1>1. \A p \in Pages \cup {Hole} :
        MapsOf(m, sp)[r][p] = IF r \in DOMAIN sp /\ p # Hole THEN View(m, sp[r], p) ELSE Abstract!Unmapped
  BY DEF MapsOf
<1>2. Hole \notin Pages
  BY MmuAssumption DEF Pages
<1> QED  BY <1>1, <1>2

\* Pages are mapped to data, or not at all.
LEMMA ViewTyped ==
  ASSUME NEW m \in Memories, NEW next, NEW lev, Tables(m, next, lev),
         NEW top \in Small, lev[top] = Levels, NEW p \in Pages
  PROVE  /\ View(m, top, p) \in Abstract!Mapping \cup {Abstract!Unmapped}
         /\ View(m, top, p).frame = NoFrame \/ Data(View(m, top, p).frame, next, lev)
<1>1. PICK w : w = Walk(m, top, p)
  OBVIOUS
<1>2. w.entry \in Entry /\ (w.entry.present => Data(Reached(p, w), next, lev))
  BY <1>1, WalkEnds
<1>3. CASE w.entry.present
  <2>1. PICK f : f = Reached(p, w)
    OBVIOUS
  <2>2. f \in Frames /\ Data(f, next, lev)
    BY <1>2, <1>3, <2>1 DEF Data
  <2>3. View(m, top, p) = [frame |-> f, write |-> w.entry.write, user |-> w.entry.user, exec |-> ~w.entry.nx]
    BY <1>1, <1>3, <2>1 DEF View
  <2>4. w.entry.write \in BOOLEAN /\ w.entry.user \in BOOLEAN
    BY <1>2 DEF Entry
  <2>5. (~w.entry.nx) \in BOOLEAN
    OBVIOUS
  <2> QED  BY <2>2, <2>3, <2>4, <2>5 DEF Abstract!Mapping
<1>4. CASE ~w.entry.present
  <2>1. View(m, top, p) = Abstract!Unmapped
    BY <1>1, <1>4 DEF View
  <2> QED  BY <2>1 DEF Abstract!Unmapped
<1> QED  BY <1>3, <1>4

-----------------------------------------------------------------------------
\* The invariant the refinement rests on: every space has a table of its own.
RefInv == MmuInv /\ Distinct(spaces) /\ Len(spaces) <= MaxSpaces

\* What a step may assume of the state it starts from.
LEMMA RefFacts ==
  ASSUME RefInv
  PROVE  /\ mem \in Memories /\ nextFrame \in Nat /\ spaces \in Seq(Small)
         /\ \E r \in DOMAIN spaces : cr3 = spaces[r]
         /\ TlbTyped(tlb) /\ Coherent(mem, cr3, tlb)
         /\ Root \in DOMAIN spaces /\ cr3 = spaces[Root] /\ DOMAIN spaces \subseteq 1..MaxSpaces
         /\ \E lev \in [Small -> 0..Levels] :
              /\ Rooted(mem, nextFrame, spaces, lev) /\ Tables(mem, nextFrame, lev)
              /\ cr3 \in Small /\ lev[cr3] = Levels
              /\ \A r \in DOMAIN spaces : spaces[r] \in Small /\ lev[spaces[r]] = Levels
<1>1. /\ mem \in Memories /\ nextFrame \in Nat /\ spaces \in Seq(Small) /\ MaxSpaces \in Nat
      /\ \E r \in DOMAIN spaces : cr3 = spaces[r]
      /\ TlbTyped(tlb) /\ Coherent(mem, cr3, tlb)
  BY MmuAssumption DEF RefInv, MmuInv
<1>2. PICK lev \in [Small -> 0..Levels] : Rooted(mem, nextFrame, spaces, lev)
  BY DEF RefInv, MmuInv
<1>3. /\ Tables(mem, nextFrame, lev) /\ cr3 \in Small /\ lev[cr3] = Levels
      /\ \A r \in DOMAIN spaces : spaces[r] \in Small /\ lev[spaces[r]] = Levels
  BY <1>1, <1>2, TopFound DEF Rooted
<1>4. Root \in DOMAIN spaces /\ cr3 = spaces[Root]
  <2>1. PICK r \in DOMAIN spaces : cr3 = spaces[r]
    BY <1>1
  <2>2. RootOf(spaces[r], spaces) = r
    BY RootIs DEF RefInv
  <2>3. Root = r
    BY <2>1, <2>2, Seen
  <2> QED  BY <2>1, <2>3
<1>5. DOMAIN spaces \subseteq 1..MaxSpaces
  <2>1. DOMAIN spaces = 1..Len(spaces) /\ Len(spaces) \in Nat /\ Len(spaces) <= MaxSpaces
    BY <1>1 DEF RefInv
  <2> QED  BY <1>1, <2>1
<1> QED  BY <1>1, <1>2, <1>3, <1>4, <1>5

\* A step that keeps the spaces keeps the current one.
LEMMA SeenSame ==
  ASSUME UNCHANGED <<cr3, spaces>>
  PROVE  Root' = Root /\ Maps' = MapsOf(mem', spaces)
BY Seen

\* A step of the host that changes the pages of a set in the current space, and no words.
LEMMA OnlyRemapsStep ==
  ASSUME RefInv, NEW S \in SUBSET Pages, UNCHANGED <<cr3, spaces>>, last' = Idle, SameWords(mem, mem'),
         \A r \in DOMAIN spaces, q \in Pages :
           spaces[r] # cr3 \/ q \notin S => View(mem', spaces[r], q) = View(mem, spaces[r], q),
         \A q \in S : View(mem', cr3, q) \in Abstract!Mapping \cup {Abstract!Unmapped}
  PROVE  Abstract!OnlyRemaps(S)
<1>1. /\ Root \in DOMAIN spaces /\ cr3 = spaces[Root] /\ DOMAIN spaces \subseteq 1..MaxSpaces
      /\ Distinct(spaces)
  BY RefFacts DEF RefInv
<1>2. Root' = Root /\ Maps' = MapsOf(mem', spaces) /\ Maps = MapsOf(mem, spaces) /\ Written' = Written
  BY Seen, SeenSame, WordsSame
<1>3. \A r \in 1..MaxSpaces, q \in Pages \cup {Hole} : Maps'[r][q] # Maps[r][q] => r = Root /\ q \in S
  <2> SUFFICES ASSUME NEW r \in 1..MaxSpaces, NEW q \in Pages \cup {Hole}, r # Root \/ q \notin S
               PROVE  Maps'[r][q] = Maps[r][q]
    OBVIOUS
  <2>1. CASE q = Hole
    BY <1>2, <2>1, MapsAt
  <2>2. CASE q \in Pages /\ r \notin DOMAIN spaces
    BY <1>2, <2>2, MapsAt
  <2>3. CASE q \in Pages /\ r \in DOMAIN spaces
    <3>1. spaces[r] # cr3 \/ q \notin S
      BY <1>1, <2>3 DEF Distinct
    <3>2. View(mem', spaces[r], q) = View(mem, spaces[r], q)
      BY <2>3, <3>1
    <3> QED  BY <1>2, <2>3, <3>2, MapsAt
  <2> QED  BY <2>1, <2>2, <2>3
<1>4. \A q \in S : Maps'[Root][q] \in Abstract!Mapping \cup {Abstract!Unmapped}
  <2> TAKE q \in S
  <2>1. Maps'[Root][q] = View(mem', cr3, q)
    BY <1>1, <1>2, MapsAt
  <2> QED  BY <2>1
<1>5. last' = Abstract!Idle
  BY DEF Idle, Abstract!Idle
<1> QED  BY <1>2, <1>3, <1>4, <1>5 DEF Abstract!OnlyRemaps

-----------------------------------------------------------------------------

\* What the abstract memory sees of mapPage: its page is mapped as the leaf entry says, and
\* nothing else has changed.
LEMMA MapPageSeen ==
  ASSUME RefInv, NEW next \in Nat, NEW lev, Rooted(mem, next, spaces, lev), NEW p \in Pages,
         NEW w, w = Walk(mem, cr3, p), w.level = 1 \/ ~w.entry.present,
         next + Missing(mem, p) <= MaxFrames,
         NEW f, Data(f, next, lev), NEW flags \in Flags,
         NEW r, r = MapPage(mem, next, p, f, flags)
  PROVE  /\ SameWords(mem, r.mem)
         /\ \A s \in DOMAIN spaces, q \in Pages :
              spaces[s] # cr3 \/ q # p => View(r.mem, spaces[s], q) = View(mem, spaces[s], q)
         /\ View(r.mem, cr3, p) = [frame |-> f, write |-> flags.write, user |-> flags.user, exec |-> ~flags.nx]
         /\ Walk(r.mem, cr3, p).level = 1 /\ Walk(r.mem, cr3, p).entry = Leaf(f, flags)
<1>1. /\ mem \in Memories /\ spaces \in Seq(Small)
      /\ \E s \in DOMAIN spaces : cr3 = spaces[s]
  BY RefFacts
<1>2. /\ Tables(mem, next, lev) /\ cr3 \in Small /\ lev[cr3] = Levels
      /\ \A s \in DOMAIN spaces : spaces[s] \in Small /\ lev[spaces[s]] = Levels
  BY <1>1, TopFound DEF Rooted
<1>3. PICK lew \in [Small -> 0..Levels] : PageMapped(mem, next, lev, p, w, Leaf(f, flags), r, lew)
  BY <1>1, MapPageRooted
<1>4. PICK leaf : leaf = Leaf(f, flags)
  OBVIOUS
<1>5. f \in Frames
  BY DEF Data
<1>6. leaf \in Entry /\ leaf.present /\ ~leaf.ps /\ leaf.frame = f
      /\ leaf.write = flags.write /\ leaf.user = flags.user /\ leaf.nx = flags.nx
  BY <1>4, <1>5 DEF Leaf, Entry, Flags
<1>7. SameWords(mem, r.mem)
  BY <1>1, <1>2, <1>3, MapPageWords
<1>8. ASSUME NEW s \in DOMAIN spaces, NEW q \in Pages, spaces[s] # cr3 \/ q # p
      PROVE  View(r.mem, spaces[s], q) = View(mem, spaces[s], q)
  BY <1>1, <1>2, <1>3, <1>4, <1>6, <1>8, OthersKept
<1>9. /\ Walk(r.mem, cr3, p).level = 1 /\ Walk(r.mem, cr3, p).entry = leaf
      /\ View(r.mem, cr3, p) = [frame |-> leaf.frame, write |-> leaf.write, user |-> leaf.user, exec |-> ~leaf.nx]
  BY <1>1, <1>2, <1>3, <1>4, <1>6, MappedView
<1> QED  BY <1>4, <1>6, <1>7, <1>8, <1>9

\* The host maps a page: RemapPage.
LEMMA HostMapsRefines ==
  ASSUME RefInv, NEW p \in HostPages, NEW flags \in HostFlags, HostMaps(p, flags)
  PROVE  Abstract!RemapPage(p)
<1>1. p \in Pages /\ flags \in Flags
  BY MmuAssumption DEF Pages, Flags
<1>2. /\ mem \in Memories /\ nextFrame \in Nat /\ spaces \in Seq(Small)
      /\ \E r \in DOMAIN spaces : cr3 = spaces[r]
  BY RefFacts
<1>3. PICK lev \in [Small -> 0..Levels] :
        /\ Rooted(mem, nextFrame, spaces, lev) /\ Tables(mem, nextFrame, lev)
        /\ cr3 \in Small /\ lev[cr3] = Levels
  BY RefFacts
<1>4. PICK w : w = Walk(mem, cr3, p)
  OBVIOUS
<1>5. w.level \in 1..Levels /\ Levels \in Nat /\ w.level \in Nat
  BY <1>1, <1>2, <1>3, <1>4, WalkEnds, SmallApart
<1>6. w.level = 1 \/ ~w.entry.present
  <2>1. ~UnderLarge(p)
    BY DEF HostMaps
  <2> QED  BY <1>4, <1>5, <2>1 DEF UnderLarge
<1>7. PICK f \in (Mapped \cap 0..(MaxFrames - 1)) \cup {nextFrame} :
        LET next == IF f = nextFrame THEN nextFrame + 1 ELSE nextFrame
            m == MapPage(mem, next, p, f, flags)
        IN next + Missing(mem, p) <= MaxFrames /\ mem' = m.mem /\ nextFrame' = m.next
  BY DEF HostMaps
<1>8. PICK next, r : /\ next = IF f = nextFrame THEN nextFrame + 1 ELSE nextFrame
                     /\ r = MapPage(mem, next, p, f, flags)
  OBVIOUS
<1>9. next + Missing(mem, p) <= MaxFrames /\ mem' = r.mem /\ nextFrame' = r.next
  BY <1>7, <1>8
<1>10. next \in Nat /\ Rooted(mem, next, spaces, lev) /\ Data(f, next, lev)
  <2>1. CASE f = nextFrame
    <3>1. next = nextFrame + 1 /\ nextFrame < MaxFrames /\ MaxFrames \in Nat
      <4>1. PICK k \in Nat : k = Missing(mem, p)
        <5>1. Missing(mem, p) = w.level - 1
          BY <1>4, <1>6, MissingIs
        <5> QED  BY <1>5, <5>1
      <4>2. next = nextFrame + 1 /\ next + k <= MaxFrames /\ MaxFrames \in Nat
        BY <1>8, <1>9, <2>1, <4>1, SmallApart
      <4> QED  BY <1>2, <4>2
    <3>2. Tables(mem, nextFrame + 1, lev) /\ Data(nextFrame, nextFrame + 1, lev)
      BY <1>2, <1>3, <3>1, TablesAhead
    <3> QED  BY <1>2, <1>3, <2>1, <3>1, <3>2 DEF Rooted
  <2>2. CASE f # nextFrame
    <3>1. next = nextFrame /\ f \in Mapped
      BY <1>7, <1>8, <2>2
    <3>2. Data(f, nextFrame, lev)
      BY <1>3, <3>1, MappedData DEF RefInv
    <3> QED  BY <1>2, <1>3, <3>1, <3>2
  <2> QED  BY <2>1, <2>2
<1>11. /\ SameWords(mem, mem')
       /\ \A s \in DOMAIN spaces, q \in Pages :
            spaces[s] # cr3 \/ q # p => View(mem', spaces[s], q) = View(mem, spaces[s], q)
       /\ View(mem', cr3, p) = [frame |-> f, write |-> flags.write, user |-> flags.user, exec |-> ~flags.nx]
  BY <1>1, <1>4, <1>6, <1>8, <1>9, <1>10, MapPageSeen
<1>12. View(mem', cr3, p) \in Abstract!Mapping
  <2>1. f \in Frames
    BY <1>10 DEF Data
  <2>2. flags.write \in BOOLEAN /\ flags.user \in BOOLEAN
    BY <1>1 DEF Flags
  <2>3. (~flags.nx) \in BOOLEAN
    OBVIOUS
  <2> QED  BY <1>11, <2>1, <2>2, <2>3 DEF Abstract!Mapping
<1>13. last' = Idle /\ UNCHANGED <<cr3, spaces>>
  BY DEF HostMaps
<1>14. PICK S \in SUBSET Pages : S = {p}
  BY <1>1
<1>15. /\ \A s \in DOMAIN spaces, q \in Pages :
            spaces[s] # cr3 \/ q \notin S => View(mem', spaces[s], q) = View(mem, spaces[s], q)
       /\ \A q \in S : View(mem', cr3, q) \in Abstract!Mapping \cup {Abstract!Unmapped}
  BY <1>11, <1>12, <1>14
<1>16. Abstract!OnlyRemaps(S)
  BY <1>11, <1>13, <1>15, OnlyRemapsStep
<1> QED  BY <1>14, <1>16 DEF Abstract!RemapPage

\* Memories that differ in one word.
ButFor(m, n, t, i) == \A u \in Frames, j \in Idx : u # t \/ j # i => n[u][j] = m[u][j]

\* A write to the entry a walk ends at: walks that do not come by are as they were.
LEMMA EntryWritten ==
  ASSUME NEW m \in Memories, NEW next, NEW lev, Tables(m, next, lev),
         cr3 \in Small, lev[cr3] = Levels, NEW p \in Pages, NEW w, w = Walk(m, cr3, p),
         NEW n \in Memories, Tables(n, next, lev),
         ButFor(m, n, w.table, p[w.level])
  PROVE  /\ SameWords(m, n)
         /\ \A top \in Small, q \in Pages :
              lev[top] = Levels /\ (top # cr3 \/ \E k \in w.level..Levels : q[k] # p[k])
                => View(n, top, q) = View(m, top, q)
<1>1. /\ w.level \in 1..Levels /\ w.level \in Nat /\ w.table \in Small /\ lev[w.table] = w.level
      /\ Levels \in 2..4 /\ Small \subseteq Frames
  BY WalkEnds, SmallApart
<1>2. SameWords(m, n)
  <2> SUFFICES ASSUME NEW u \in Frames, NEW j \in Idx
               PROVE  m[u][j] = Mark <=> n[u][j] = Mark
    BY DEF SameWords
  <2>1. CASE u = w.table
    <3>1. u \in Small /\ lev[u] # 0
      BY <1>1, <2>1
    <3>2. m[u][j] # Mark /\ n[u][j] # Mark
      BY <3>1, TablesUnmarked
    <3> QED  BY <3>2
  <2>2. CASE u # w.table
    BY <2>2 DEF ButFor
  <2> QED  BY <2>1, <2>2
<1>3. ASSUME NEW top \in Small, NEW q \in Pages, lev[top] = Levels,
             top # cr3 \/ \E k \in w.level..Levels : q[k] # p[k]
      PROVE  View(n, top, q) = View(m, top, q)
  <2>1. PICK W, V : W = Levelwise(m, top, q) /\ V = Levelwise(m, cr3, p)
    OBVIOUS
  <2>2. V[w.level] = w
    <3>1. 1 \in 1..Levels /\ w = V[1] /\ w.level <= w.level
      BY <1>1, <2>1 DEF Walk
    <3>2. w.level <= V[1].level => V[w.level] = V[1]
      BY <1>1, <2>1, WalkStops
    <3> QED  BY <3>1, <3>2
  <2>3. ASSUME NEW l \in 1..Levels, W[l].level = l
        PROVE  n[W[l].table][q[l]] = W[l].entry
    <3>1. PICK t : t = W[l].table
      OBVIOUS
    <3>2. t \in Small /\ lev[t] = l /\ q[l] \in Idx /\ W[l].entry = m[t][q[l]]
      <4>1. W = Levelwise(m, top, q) /\ lev[top] = Levels
        BY <1>3, <2>1
      <4>2. W[l].table \in Small /\ lev[W[l].table] = l /\ q[l] \in Idx /\ W[l].entry = m[W[l].table][q[l]]
        BY <2>3, <4>1, PresentWalk
      <4> QED  BY <3>1, <4>2
    <3>3. t # w.table \/ q[l] # p[w.level]
      <4> SUFFICES ASSUME t = w.table, q[l] = p[w.level]
                   PROVE  FALSE
        OBVIOUS
      <4>1. l = w.level
        BY <1>1, <3>2
      <4>2. V[l].level = l /\ V[l].table = W[l].table
        BY <2>2, <3>1, <4>1
      <4>3. top = cr3 /\ \A k \in (l + 1)..Levels : q[k] = p[k]
        BY <1>3, <2>1, <2>3, <4>2, SamePath
      <4>4. \A k \in w.level..Levels : k = l \/ k \in (l + 1)..Levels
        BY <1>1, <4>1
      <4> QED  BY <1>3, <4>1, <4>3, <4>4
    <3>4. n[t][q[l]] = m[t][q[l]]
      <4>1. PICK j : j = q[l]
        OBVIOUS
      <4>2. t \in Frames /\ j \in Idx /\ (t # w.table \/ j # p[w.level])
        BY <1>1, <3>2, <3>3, <4>1
      <4> QED  BY <4>1, <4>2 DEF ButFor
    <3> QED  BY <3>1, <3>2, <3>4
  <2>4. Walk(n, top, q) = Walk(m, top, q)
    BY <2>1, <2>3, UnchangedWalk
  <2> QED  BY <2>4 DEF View
<1> QED  BY <1>2, <1>3

\* The host unmaps a page: RemapPage.
LEMMA UnmapRefines ==
  ASSUME RefInv, NEW p \in HostPages, Unmap(p)
  PROVE  Abstract!RemapPage(p)
<1>1. p \in Pages
  BY MmuAssumption DEF Pages
<1>2. /\ mem \in Memories /\ nextFrame \in Nat
  BY RefFacts
<1>3. PICK lev \in [Small -> 0..Levels] :
        /\ Tables(mem, nextFrame, lev)
        /\ cr3 \in Small /\ lev[cr3] = Levels
        /\ \A r \in DOMAIN spaces : spaces[r] \in Small /\ lev[spaces[r]] = Levels
  BY RefFacts
<1>4. PICK w, t : w = Walk(mem, cr3, p) /\ t = w.table
  OBVIOUS
<1>5. /\ w.level = 1 /\ mem' = WithWord(mem, t, p[1], Zero)
      /\ last' = Idle /\ UNCHANGED <<nextFrame, cr3, spaces>>
  BY <1>4 DEF Unmap, WithWord
<1>6. t \in Small /\ t \in Frames /\ t < nextFrame /\ lev[t] = 1 /\ p[1] \in Idx
  BY <1>1, <1>2, <1>3, <1>4, <1>5, WalkEnds, SmallApart
<1>7. Zero \in Entry /\ ~Zero.present
  BY FramesTypes, SmallApart DEF Zero, Entry
<1>8. PICK n : n = mem'
  OBVIOUS
<1>9. /\ n \in Memories /\ Tables(n, nextFrame, lev)
      /\ \A u \in Frames, j \in Idx : u # t \/ j # p[1] => n[u][j] = mem[u][j]
  BY <1>2, <1>3, <1>5, <1>6, <1>7, <1>8, WordStep
<1>10. /\ SameWords(mem, n)
       /\ \A top \in Small, q \in Pages :
            lev[top] = Levels /\ (top # cr3 \/ \E k \in 1..Levels : q[k] # p[k])
              => View(n, top, q) = View(mem, top, q)
  <2>1. PICK l : l = w.level
    OBVIOUS
  <2>2. ButFor(mem, n, w.table, p[w.level])
    BY <1>4, <1>5, <1>9 DEF ButFor
  <2>3. /\ SameWords(mem, n)
        /\ \A top \in Small, q \in Pages :
             lev[top] = Levels /\ (top # cr3 \/ \E k \in w.level..Levels : q[k] # p[k])
               => View(n, top, q) = View(mem, top, q)
    BY <1>1, <1>2, <1>3, <1>4, <1>9, <2>2, EntryWritten
  <2> QED  BY <1>5, <2>3
<1>11. \A q \in Pages : q # p => \E k \in 1..Levels : q[k] # p[k]
  BY <1>1, SamePage
<1>12. PICK S \in SUBSET Pages : S = {p}
  BY <1>1
<1>13. /\ \A s \in DOMAIN spaces, q \in Pages :
            spaces[s] # cr3 \/ q \notin S => View(n, spaces[s], q) = View(mem, spaces[s], q)
  BY <1>3, <1>10, <1>11, <1>12
<1>14. \A q \in S : View(n, cr3, q) \in Abstract!Mapping \cup {Abstract!Unmapped}
  BY <1>1, <1>3, <1>9, <1>12, ViewTyped
<1>15. Abstract!OnlyRemaps(S)
  BY <1>5, <1>8, <1>10, <1>13, <1>14, OnlyRemapsStep
<1> QED  BY <1>12, <1>15 DEF Abstract!RemapPage

\* A block's pages share the walk down to level 2, and its end when that is an empty slot
\* or a large page.
LEMMA BlockWalk ==
  ASSUME NEW m, NEW top, NEW p \in Pages, NEW x, x = Levelwise(m, top, p)[2],
         ~x.entry.present \/ x.entry.ps, NEW q \in Block(p)
  PROVE  Walk(m, top, q) = x
<1>1. Levels \in 2..4 /\ 1 \in 1..(Levels - 1) /\ 2 \in 1..Levels /\ 1 + 1 = 2 /\ 2 \in 2..Levels
  BY SmallApart
<1>2. \A l \in 2..Levels : q[l] = p[l]
  BY DEF Block
<1>3. PICK V : V = Levelwise(m, top, q)
  OBVIOUS
<1>4. V[2] = x
  <2>1. PICK k \in 1..Levels : k = 2
    BY <1>1
  <2>2. \A l \in k..Levels : q[l] = p[l]
    BY <1>2, <2>1
  <2>3. \A l \in k..Levels : Levelwise(m, top, q)[l] = Levelwise(m, top, p)[l]
    BY <2>2, SameAbove
  <2> QED  BY <1>1, <1>3, <2>1, <2>3
<1>5. V[1] = WalkBelow(m, q, 1, V[2])
  BY <1>1, <1>3, LevelwiseIs
<1>6. V[1] = x
  BY <1>4, <1>5 DEF WalkBelow
<1> QED  BY <1>3, <1>6 DEF Walk

\* The pages of a block are told apart by their lowest index.
LEMMA BlockPages ==
  ASSUME NEW p \in Pages, NEW q \in Block(p), NEW s \in Block(p), q[1] = s[1]
  PROVE  q = s
<1>1. q \in Pages /\ s \in Pages /\ \A l \in 2..Levels : q[l] = p[l] /\ s[l] = p[l]
  BY DEF Block
<1>2. \A l \in 1..Levels : l = 1 \/ l \in 2..Levels
  BY SmallApart
<1>3. \A l \in 1..Levels : q[l] = s[l]
  BY <1>1, <1>2
<1> QED  BY <1>1, <1>3, SamePage

\* A large page written into the empty slot a walk ends at.
LEMMA LargeWritten ==
  ASSUME NEW m \in Memories, NEW next, NEW lev, Tables(m, next, lev),
         cr3 \in Small, lev[cr3] = Levels, NEW p \in Pages, NEW w, w = Walk(m, cr3, p),
         w.level = 2, ~w.entry.present, NEW e, e.ps, NEW n,
         n[w.table][p[2]] = e, ButFor(m, n, w.table, p[2]),
         NEW q \in Block(p)
  PROVE  Walk(m, cr3, q) = w /\ Walk(n, cr3, q) = [level |-> 2, table |-> w.table, entry |-> e]
<1>1. /\ Levels \in 2..4 /\ 1 \in 1..Levels /\ 2 \in 1..Levels /\ Small \subseteq Frames
      /\ w.table \in Small /\ lev[w.table] = 2
  <2>1. w.table \in Small /\ lev[w.table] = w.level
    BY WalkEnds
  <2> QED  BY <2>1, SmallApart
<1>2. PICK W, V : W = Levelwise(m, cr3, p) /\ V = Levelwise(n, cr3, p)
  OBVIOUS
<1>3. W[2] = w
  <2>1. w = W[1]
    BY <1>2 DEF Walk
  <2>2. 2 <= W[1].level => W[2] = W[1]
    BY <1>1, <1>2, WalkStops
  <2> QED  BY <2>1, <2>2
<1>4. ASSUME NEW l \in (2 + 1)..Levels, W[l].level = l
      PROVE  n[W[l].table][p[l]] = W[l].entry
  <2>1. l \in 1..Levels /\ l # 2 /\ W = Levelwise(m, cr3, p)
    BY <1>1, <1>2
  <2>2. PICK t, j : t = W[l].table /\ j = p[l]
    OBVIOUS
  <2>3. W[l].table \in Small /\ lev[W[l].table] = l /\ p[l] \in Idx /\ W[l].entry = m[W[l].table][p[l]]
    BY <1>4, <2>1, PresentWalk
  <2>4. t \in Frames /\ j \in Idx /\ t # w.table /\ W[l].entry = m[t][j]
    BY <1>1, <2>1, <2>2, <2>3
  <2>5. n[t][j] = m[t][j]
    BY <2>4 DEF ButFor
  <2> QED  BY <2>2, <2>4, <2>5
<1>5. V[2] = WalkAt(n, p, 2, w.table)
  <2>1. AgreeAbove(W, n, p, 2)
    BY <1>4 DEF AgreeAbove
  <2>2. W[2].level = 2
    BY <1>3
  <2>3. V[2] = WalkAt(n, p, 2, W[2].table)
    BY <1>1, <1>2, <2>1, <2>2, WalkLocalAbove
  <2> QED  BY <1>3, <2>3
<1>6. PICK x : x = [level |-> 2, table |-> w.table, entry |-> e]
  OBVIOUS
<1>7. V[2] = x /\ x.entry.ps
  BY <1>5, <1>6 DEF WalkAt
<1>8. Walk(m, cr3, q) = w
  BY <1>2, <1>3, BlockWalk
<1>9. Walk(n, cr3, q) = x
  BY <1>2, <1>7, BlockWalk
<1> QED  BY <1>6, <1>8, <1>9

\* The host writes a large page: MapBlock.
LEMMA HostWritesLargeRefines ==
  ASSUME RefInv, NEW p \in HostPages, NEW flags \in HostFlags, HostWritesLarge(p, flags)
  PROVE  Abstract!MapBlock(Block(p))
<1>1. p \in Pages /\ flags \in Flags
  BY MmuAssumption DEF Pages, Flags
<1>2. /\ mem \in Memories /\ nextFrame \in Nat
  BY RefFacts
<1>3. PICK lev \in [Small -> 0..Levels] :
        /\ Tables(mem, nextFrame, lev)
        /\ cr3 \in Small /\ lev[cr3] = Levels
        /\ \A r \in DOMAIN spaces : spaces[r] \in Small /\ lev[spaces[r]] = Levels
  BY RefFacts
<1>4. PICK w, t, e : w = Walk(mem, cr3, p) /\ t = w.table /\ e = Large(flags)
  OBVIOUS
<1>5. /\ w.level = 2 /\ ~w.entry.present /\ mem' = WithWord(mem, t, p[2], e)
      /\ last' = Idle /\ UNCHANGED <<cr3, spaces>>
  BY <1>4 DEF HostWritesLarge, WithWord, Large
<1>6. /\ t \in Small /\ t \in Frames /\ t < nextFrame /\ lev[t] = 2 /\ p[2] \in Idx
  BY <1>1, <1>2, <1>3, <1>4, <1>5, WalkEnds, SmallApart
<1>7. /\ e \in Entry /\ e.present /\ e.ps /\ e.frame = LargeBase
      /\ e.write = flags.write /\ e.user = flags.user /\ e.nx = flags.nx
  <2>1. LargeBase \in Frames
    <3>1. 0 \in Idx /\ LargeBase \in Nat
      BY SmallApart
    <3>2. LargeBase + 0 \in Frames
      BY <3>1, FramesTypes
    <3> QED  BY <3>1, <3>2
  <2> QED  BY <1>1, <1>4, <2>1 DEF Large, Entry, Flags
<1>8. PICK n : n = mem'
  OBVIOUS
<1>9. /\ n \in Memories /\ Tables(n, nextFrame, lev) /\ n[t][p[2]] = e
      /\ \A u \in Frames, j \in Idx : u # t \/ j # p[2] => n[u][j] = mem[u][j]
  <2>1. Leads(e, 2, nextFrame, lev)
    BY <1>7 DEF Leads
  <2> QED  BY <1>2, <1>3, <1>5, <1>6, <1>7, <1>8, <2>1, WordStep
<1>10. PICK S \in SUBSET Pages : S = Block(p)
  BY DEF Block
<1>11. /\ SameWords(mem, n)
       /\ \A top \in Small, q \in Pages :
            lev[top] = Levels /\ (top # cr3 \/ \E k \in 2..Levels : q[k] # p[k])
              => View(n, top, q) = View(mem, top, q)
  <2>1. ButFor(mem, n, w.table, p[w.level])
    BY <1>4, <1>5, <1>9 DEF ButFor
  <2>2. /\ SameWords(mem, n)
        /\ \A top \in Small, q \in Pages :
             lev[top] = Levels /\ (top # cr3 \/ \E k \in w.level..Levels : q[k] # p[k])
               => View(n, top, q) = View(mem, top, q)
    BY <1>1, <1>2, <1>3, <1>4, <1>9, <2>1, EntryWritten
  <2> QED  BY <1>5, <2>2
<1>12. \A s \in DOMAIN spaces, q \in Pages :
         spaces[s] # cr3 \/ q \notin S => View(n, spaces[s], q) = View(mem, spaces[s], q)
  <2>1. \A q \in Pages : q \notin S => \E k \in 2..Levels : q[k] # p[k]
    BY <1>10 DEF Block
  <2> QED  BY <1>3, <1>11, <2>1
<1>13. \A q \in S : View(n, cr3, q) \in Abstract!Mapping \cup {Abstract!Unmapped}
  BY <1>3, <1>9, <1>10, ViewTyped DEF Block
<1>14. Abstract!OnlyRemaps(S)
  BY <1>5, <1>8, <1>11, <1>12, <1>13, OnlyRemapsStep
<1>15. ASSUME NEW q \in S
       PROVE  Walk(mem, cr3, q) = w /\ Walk(n, cr3, q) = [level |-> 2, table |-> t, entry |-> e]
  <2>1. q \in Block(p)
    BY <1>10
  <2>2. mem \in Memories /\ Tables(mem, nextFrame, lev) /\ cr3 \in Small /\ lev[cr3] = Levels
    BY <1>2, <1>3
  <2>3. p \in Pages /\ w = Walk(mem, cr3, p) /\ w.level = 2 /\ ~w.entry.present /\ e.ps
    BY <1>1, <1>4, <1>5, <1>7
  <2>4. n[w.table][p[2]] = e
    BY <1>4, <1>9
  <2>5. ButFor(mem, n, w.table, p[2])
    BY <1>4, <1>9 DEF ButFor
  <2>6. Walk(mem, cr3, q) = w /\ Walk(n, cr3, q) = [level |-> 2, table |-> w.table, entry |-> e]
    BY <2>1, <2>2, <2>3, <2>4, <2>5, LargeWritten
  <2> QED  BY <1>4, <2>6
<1>16. ASSUME NEW q \in S
       PROVE  /\ View(mem, cr3, q) = Abstract!Unmapped
              /\ View(n, cr3, q) = [frame |-> LargeBase + q[1], write |-> flags.write, user |-> flags.user, exec |-> ~flags.nx]
  <2>1. View(mem, cr3, q) = Abstract!Unmapped
    BY <1>5, <1>15 DEF View
  <2>2. PICK x : x = Walk(n, cr3, q)
    OBVIOUS
  <2>3. x.level = 2 /\ x.entry = e
    BY <1>15, <2>2
  <2>4. Reached(q, x) = LargeBase + q[1]
    BY <1>7, <2>3 DEF Reached, Offset
  <2> QED  BY <1>7, <2>1, <2>2, <2>3, <2>4 DEF View
<1>17. Root \in DOMAIN spaces /\ cr3 = spaces[Root] /\ Root \in 1..MaxSpaces
  BY RefFacts
<1>18. \A q \in S : Maps[Root][q] = View(mem, cr3, q) /\ Maps'[Root][q] = View(n, cr3, q)
  <2>1. Maps = MapsOf(mem, spaces) /\ Maps' = MapsOf(n, spaces)
    BY <1>5, <1>8, Seen
  <2> QED  BY <1>17, <2>1, MapsAt
<1>19. \A q \in S : Abstract!Current(q) = Abstract!Unmapped
  BY <1>16, <1>18 DEF Abstract!Current
<1>20. ASSUME NEW q \in S, NEW s \in S
       PROVE  /\ Abstract!SamePermissions(Maps'[Root][q], Maps'[Root][s])
              /\ q # s => Maps'[Root][q].frame # Maps'[Root][s].frame
  <2>1. PICK a, b : a = Maps'[Root][q] /\ b = Maps'[Root][s]
    OBVIOUS
  <2>2. /\ a = [frame |-> LargeBase + q[1], write |-> flags.write, user |-> flags.user, exec |-> ~flags.nx]
        /\ b = [frame |-> LargeBase + s[1], write |-> flags.write, user |-> flags.user, exec |-> ~flags.nx]
    BY <1>16, <1>18, <2>1
  <2>3. [a EXCEPT !.frame = b.frame] = b
    BY <2>2
  <2>4. ASSUME a.frame = b.frame
        PROVE  q = s
    <3>1. q[1] \in Nat /\ s[1] \in Nat /\ LargeBase \in Nat
      <4>1. q \in Pages /\ s \in Pages /\ 1 \in 1..Levels /\ Idx \subseteq Nat
        BY SmallApart, MmuAssumption
      <4> QED  BY <4>1, SmallApart DEF Pages
    <3>2. LargeBase + q[1] = LargeBase + s[1]
      BY <2>2, <2>4
    <3>3. q[1] = s[1]
      BY <3>1, <3>2
    <3> QED  BY <1>1, <1>10, <3>3, BlockPages
  <2> QED  BY <2>1, <2>3, <2>4 DEF Abstract!SamePermissions
<1>21. Abstract!MapBlock(S)
  BY <1>14, <1>19, <1>20 DEF Abstract!MapBlock
<1> QED  BY <1>10, <1>21

-----------------------------------------------------------------------------

\* A translation is what the tables say, and a fault what they do not allow.
LEMMA TranslateTells ==
  ASSUME NEW m, NEW t, Coherent(m, cr3, t), NEW p \in Pages \cup {Hole}, NEW kind \in Kinds,
         NEW o, o = Translate(m, t, p, kind), NEW w, w = Walk(m, cr3, p)
  PROVE  /\ o.fault = "none" => p # Hole /\ Backs(w, p, kind, o.frame)
         /\ o.fault # "none" => o.frame = NoFrame /\ (p = Hole \/ ~w.entry.present \/ ~Permits(w.entry, kind))
<1>1. PICK f, a : f = Reached(p, w) /\ a = <<p, kind>>
  OBVIOUS
<1>2. /\ p = Hole => o = Outcome("noncanonical", NoFrame, t)
      /\ p # Hole /\ a \in DOMAIN t => o = Outcome("none", t[a], t)
      /\ p # Hole /\ a \notin DOMAIN t /\ ~w.entry.present => o = Outcome("absent", NoFrame, t)
      /\ p # Hole /\ a \notin DOMAIN t /\ w.entry.present /\ ~Permits(w.entry, kind)
           => o = Outcome("protection", NoFrame, t)
      /\ p # Hole /\ a \notin DOMAIN t /\ w.entry.present /\ Permits(w.entry, kind)
           => o = Outcome("none", f, Cached(t, a, f))
  BY <1>1 DEF Translate, Reached
<1>3. \A x, y, z : Outcome(x, y, z).fault = x /\ Outcome(x, y, z).frame = y
  BY DEF Outcome
<1>4. CASE p = Hole \/ (a \notin DOMAIN t /\ ~(w.entry.present /\ Permits(w.entry, kind)))
  <2>1. o.fault # "none" /\ o.frame = NoFrame
    BY <1>2, <1>3, <1>4
  <2>2. p = Hole \/ ~w.entry.present \/ ~Permits(w.entry, kind)
    BY <1>4
  <2> QED  BY <2>1, <2>2
<1>5. CASE p # Hole /\ a \in DOMAIN t
  <2>1. o.fault = "none" /\ o.frame = t[a]
    BY <1>2, <1>3, <1>5
  <2>2. Backs(w, p, kind, t[a])
    BY <1>1, <1>5 DEF Coherent
  <2> QED  BY <1>5, <2>1, <2>2
<1>6. CASE p # Hole /\ a \notin DOMAIN t /\ w.entry.present /\ Permits(w.entry, kind)
  <2>1. o.fault = "none" /\ o.frame = f
    BY <1>2, <1>3, <1>6
  <2>2. Backs(w, p, kind, f)
    BY <1>1, <1>6 DEF Backs, Reached
  <2> QED  BY <1>6, <2>1, <2>2
<1> QED  BY <1>4, <1>5, <1>6

\* A word programs write.
LEMMA WrittenMarked ==
  ASSUME NEW m \in Memories, NEW f \in Frames
  PROVE  WrittenOf(Marked(m, f)) = [WrittenOf(m) EXCEPT ![f][0] = Mark]
<1>1. PICK n : n = Marked(m, f)
  OBVIOUS
<1>2. /\ DOMAIN n = Frames /\ \A u \in Frames, i \in Idx : n[u][i] = IF u = f /\ i = 0 THEN Mark ELSE m[u][i]
  BY <1>1, SmallApart DEF Marked, Memories
<1>3. 0 \in Idx
  BY SmallApart
<1>4. ASSUME NEW u \in Frames
      PROVE  WrittenOf(n)[u] = [WrittenOf(m) EXCEPT ![f][0] = Mark][u]
  BY <1>2, <1>3 DEF WrittenOf
<1>5. WrittenOf(n) = [u \in Frames |-> WrittenOf(n)[u]]
  BY DEF WrittenOf
<1>6. [WrittenOf(m) EXCEPT ![f][0] = Mark] = [u \in Frames |-> [WrittenOf(m) EXCEPT ![f][0] = Mark][u]]
  BY DEF WrittenOf
<1> QED  BY <1>1, <1>4, <1>5, <1>6

\* What an access does to the memory m it was translated in.
Effected(m, kind, f) == IF kind = "write" THEN Marked(m, f) ELSE m

\* A write reaches data, so it changes a word and no mapping.
LEMMA EffectSeen ==
  ASSUME NEW m \in Memories, NEW next \in Nat, NEW lev, Tables(m, next, lev),
         \A r \in DOMAIN spaces : spaces[r] \in Small /\ lev[spaces[r]] = Levels,
         UNCHANGED <<cr3, spaces>>, NEW kind \in Kinds, NEW f, Data(f, next, lev),
         mem' = Effected(m, kind, f)
  PROVE  /\ Root' = Root /\ Maps' = MapsOf(m, spaces)
         /\ IF kind = "write" THEN Written' = [WrittenOf(m) EXCEPT ![f][0] = Mark]
            ELSE Written' = WrittenOf(m)
<1>1. Root' = Root /\ Maps' = MapsOf(mem', spaces) /\ Written' = WrittenOf(mem')
  BY Seen, SeenSame
<1>2. f \in Frames
  BY DEF Data
<1>3. CASE kind = "write"
  <2>1. PICK n : n = Marked(m, f)
    OBVIOUS
  <2>2. mem' = n
    BY <1>3, <2>1 DEF Effected
  <2>3. \A u \in Small, j \in Idx : lev[u] # 0 => n[u][j] = m[u][j]
    BY <2>1, DataWritten
  <2>4. \A r \in DOMAIN spaces, q \in Pages : View(n, spaces[r], q) = View(m, spaces[r], q)
    <3> TAKE r \in DOMAIN spaces, q \in Pages
    <3>1. Walk(n, spaces[r], q) = Walk(m, spaces[r], q)
      BY <2>3, WalksKept
    <3> QED  BY <3>1 DEF View
  <2>5. MapsOf(n, spaces) = MapsOf(m, spaces)
    BY <2>4, ViewsSame
  <2>6. WrittenOf(n) = [WrittenOf(m) EXCEPT ![f][0] = Mark]
    BY <1>2, <2>1, WrittenMarked
  <2> QED  BY <1>1, <1>3, <2>2, <2>5, <2>6
<1>4. CASE kind # "write"
  <2>1. mem' = m
    BY <1>4 DEF Effected
  <2> QED  BY <1>1, <1>4, <2>1
<1> QED  BY <1>3, <1>4

\* The permissions of a mapping are those of its entry.
LEMMA ViewPermits ==
  ASSUME NEW m, NEW top, NEW p, NEW w, w = Walk(m, top, p), NEW kind \in Kinds, w.entry.present
  PROVE  /\ View(m, top, p).frame = Reached(p, w)
         /\ Abstract!Permits(View(m, top, p), kind) <=> Permits(w.entry, kind)
<1>1. View(m, top, p) = [frame |-> Reached(p, w), write |-> w.entry.write, user |-> w.entry.user, exec |-> ~w.entry.nx]
  BY DEF View
<1>2. PICK v : v = View(m, top, p)
  OBVIOUS
<1>3. v.frame = Reached(p, w) /\ v.write = w.entry.write /\ v.user = w.entry.user /\ v.exec = ~w.entry.nx
  BY <1>1, <1>2
<1>4. v.exec <=> ~w.entry.nx
  BY <1>3
<1>5. Abstract!Permits(v, kind) <=> Permits(w.entry, kind)
  BY <1>3, <1>4 DEF Abstract!Permits, Permits
<1> QED  BY <1>2, <1>3, <1>5

\* An access that gets through, or faults for good: Access.
LEMMA AccessTranslatedRefines ==
  ASSUME RefInv, NEW p \in UsedPages, NEW kind \in Kinds, AccessTranslated(p, kind)
  PROVE  \E f \in Frames \cup {NoFrame} : Abstract!Access(p, kind, f)
<1>1. p \in Pages \cup {Hole}
  BY MmuAssumption DEF Pages
<1>2. /\ mem \in Memories /\ nextFrame \in Nat /\ TlbTyped(tlb) /\ Coherent(mem, cr3, tlb)
  BY RefFacts
<1>3. PICK lev \in [Small -> 0..Levels] :
        /\ Tables(mem, nextFrame, lev)
        /\ cr3 \in Small /\ lev[cr3] = Levels
        /\ \A r \in DOMAIN spaces : spaces[r] \in Small /\ lev[spaces[r]] = Levels
  BY RefFacts
<1>4. PICK o, w : o = Translate(mem, tlb, p, kind) /\ w = Walk(mem, cr3, p)
  OBVIOUS
<1>5. /\ mem' = IF o.fault = "none" THEN Effected(mem, kind, o.frame) ELSE mem
      /\ last' = [page |-> p, kind |-> kind, frame |-> o.frame]
      /\ UNCHANGED <<cr3, spaces>>
  BY <1>4 DEF AccessTranslated, Effect, Effected, Marked, Reach
<1>6. /\ o.fault = "none" => p # Hole /\ Backs(w, p, kind, o.frame)
      /\ o.fault # "none" => o.frame = NoFrame /\ (p = Hole \/ ~w.entry.present \/ ~Permits(w.entry, kind))
  BY <1>1, <1>2, <1>4, TranslateTells
<1>7. o.fault = "none" => Data(o.frame, nextFrame, lev)
  <2>1. Translated(mem, nextFrame, lev, p, o)
    BY <1>1, <1>2, <1>3, <1>4, TranslateStep
  <2> QED  BY <2>1 DEF Translated
<1>8. Root \in DOMAIN spaces /\ cr3 = spaces[Root] /\ Root \in 1..MaxSpaces
  BY RefFacts
<1>9. /\ Maps = MapsOf(mem, spaces) /\ Written = WrittenOf(mem)
      /\ Abstract!Current(p) = IF p = Hole THEN Abstract!Unmapped ELSE View(mem, cr3, p)
  <2>1. Maps = MapsOf(mem, spaces) /\ Written = WrittenOf(mem)
    BY Seen
  <2>2. Abstract!Current(p) = Maps[Root][p]
    BY DEF Abstract!Current
  <2> QED  BY <1>1, <1>8, <2>1, <2>2, MapsAt
<1>10. NoFrame \notin Frames
  BY FramesTypes DEF NoFrame
<1>11. CASE o.fault = "none"
  <2>1. PICK f : f = o.frame
    OBVIOUS
  <2>2. f \in Frames /\ Data(f, nextFrame, lev) /\ mem' = Effected(mem, kind, f) /\ f # NoFrame
    BY <1>5, <1>7, <1>10, <1>11, <2>1 DEF Data
  <2>3. /\ Root' = Root /\ Maps' = MapsOf(mem, spaces)
        /\ IF kind = "write" THEN Written' = [WrittenOf(mem) EXCEPT ![f][0] = Mark]
           ELSE Written' = WrittenOf(mem)
    BY <1>2, <1>3, <1>5, <2>2, EffectSeen
  <2>4. Abstract!Effect(kind, f)
    <3>1. 0 \in Idx
      BY SmallApart
    <3> QED  BY <1>9, <2>3, <3>1 DEF Abstract!Effect
  <2>5. Backs(w, p, kind, f) /\ p # Hole
    BY <1>6, <1>11, <2>1
  <2>6. w.entry.present /\ f = Reached(p, w) /\ Permits(w.entry, kind)
    BY <2>5 DEF Backs, Reached
  <2>7. Abstract!Current(p).frame = f /\ Abstract!Permits(Abstract!Current(p), kind)
    BY <1>4, <1>9, <2>5, <2>6, ViewPermits
  <2>8. Abstract!Reach(p, kind, f)
    BY <1>9, <2>3, <2>4, <2>7 DEF Abstract!Reach
  <2>9. Abstract!Access(p, kind, f)
    BY <1>5, <2>1, <2>2, <2>3, <2>8 DEF Abstract!Access
  <2> QED  BY <2>2, <2>9
<1>12. CASE o.fault # "none"
  <2>1. o.frame = NoFrame /\ mem' = mem
    BY <1>5, <1>6, <1>12
  <2>2. Root' = Root /\ Maps' = Maps /\ Written' = Written
    BY <1>5, <1>9, <2>1, Seen, SeenSame
  <2>3. Abstract!Current(p) = Abstract!Unmapped \/ ~Abstract!Permits(Abstract!Current(p), kind)
    <3>1. CASE p = Hole
      BY <1>9, <3>1
    <3>2. CASE p # Hole /\ ~w.entry.present
      BY <1>4, <1>9, <3>2 DEF View
    <3>3. CASE p # Hole /\ w.entry.present
      <4>1. ~Permits(w.entry, kind)
        BY <1>6, <1>12, <3>3
      <4> QED  BY <1>4, <1>9, <3>3, <4>1, ViewPermits
    <3> QED  BY <3>1, <3>2, <3>3
  <2>4. Abstract!Fault(p, kind)
    BY <2>2, <2>3 DEF Abstract!Fault
  <2>5. Abstract!Access(p, kind, NoFrame)
    BY <1>5, <2>1, <2>2, <2>4 DEF Abstract!Access
  <2> QED  BY <2>5
<1> QED  BY <1>11, <1>12

\* One page of one space is mapped anew.
LEMMA MapsRemapped ==
  ASSUME NEW m, NEW n, NEW sp, NEW r \in DOMAIN sp, r \in 1..MaxSpaces, NEW p \in Pages,
         \A s \in DOMAIN sp, q \in Pages : s # r \/ q # p => View(n, sp[s], q) = View(m, sp[s], q)
  PROVE  MapsOf(n, sp) = [MapsOf(m, sp) EXCEPT ![r][p] = View(n, sp[r], p)]
<1>1. PICK A, B, C : /\ A = MapsOf(n, sp) /\ B = MapsOf(m, sp)
                     /\ C = [B EXCEPT ![r][p] = View(n, sp[r], p)]
  OBVIOUS
<1>2. /\ DOMAIN B = 1..MaxSpaces /\ B = [s \in 1..MaxSpaces |-> B[s]]
      /\ A = [s \in 1..MaxSpaces |-> A[s]]
      /\ \A s \in 1..MaxSpaces : /\ B[s] = [q \in Pages \cup {Hole} |-> B[s][q]]
                                 /\ A[s] = [q \in Pages \cup {Hole} |-> A[s][q]]
  BY <1>1 DEF MapsOf
<1>3. C = [s \in 1..MaxSpaces |-> C[s]] /\ \A s \in 1..MaxSpaces : s # r => C[s] = B[s]
  BY <1>1, <1>2
<1>4. C[r] = [B[r] EXCEPT ![p] = View(n, sp[r], p)]
  BY <1>1, <1>2
<1>5. ASSUME NEW s \in 1..MaxSpaces, NEW q \in Pages \cup {Hole}, s # r \/ q # p
      PROVE  A[s][q] = B[s][q]
  <2>1. CASE q = Hole
    BY <1>1, <2>1, MapsAt
  <2>2. CASE q \in Pages /\ s \notin DOMAIN sp
    BY <1>1, <2>2, MapsAt
  <2>3. CASE q \in Pages /\ s \in DOMAIN sp
    BY <1>1, <1>5, <2>3, MapsAt
  <2> QED  BY <2>1, <2>2, <2>3
<1>6. A[r][p] = View(n, sp[r], p)
  BY <1>1, MapsAt
<1>7. ASSUME NEW s \in 1..MaxSpaces
      PROVE  A[s] = C[s]
  <2>1. CASE s # r
    <3>1. \A q \in Pages \cup {Hole} : A[s][q] = B[s][q]
      BY <1>5, <2>1
    <3>2. A[s] = B[s]
      BY <1>2, <3>1
    <3> QED  BY <1>3, <2>1, <3>2
  <2>2. CASE s = r
    <3>1. C[r] = [q \in Pages \cup {Hole} |-> IF q = p THEN View(n, sp[r], p) ELSE B[r][q]]
      BY <1>2, <1>4
    <3>2. \A q \in Pages \cup {Hole} : A[r][q] = IF q = p THEN View(n, sp[r], p) ELSE B[r][q]
      BY <1>5, <1>6
    <3>3. A[r] = C[r]
      BY <1>2, <3>1, <3>2
    <3> QED  BY <2>2, <3>3
  <2> QED  BY <2>1, <2>2
<1>8. A = C
  BY <1>2, <1>3, <1>7
<1> QED  BY <1>1, <1>8

\* What demand mapping leaves, before the access is translated again.
DemandSeen(p, d, f) ==
  /\ SameWords(mem, d)
  /\ \A s \in DOMAIN spaces, q \in Pages :
       spaces[s] # cr3 \/ q # p => View(d, spaces[s], q) = View(mem, spaces[s], q)
  /\ View(d, cr3, p) = [frame |-> f, write |-> TRUE, user |-> FALSE, exec |-> TRUE]
  /\ Walk(d, cr3, p).level = 1 /\ Walk(d, cr3, p).entry = Leaf(f, Rwx)

\* Demand mapping maps its page to the next frame, or TSEG's to itself.
LEMMA DemandMaps ==
  ASSUME RefInv, NEW lev, Rooted(mem, nextFrame, spaces, lev), NEW p \in Pages,
         ~Walk(mem, cr3, p).entry.present, nextFrame + 1 + Missing(mem, p) <= MaxFrames
  PROVE  /\ nextFrame < MaxFrames
         /\ DemandSeen(p, DemandMapped(mem, p).mem, IF p \in TsegPages THEN IdentityPa(p) ELSE nextFrame)
<1>1. /\ mem \in Memories /\ nextFrame \in Nat /\ spaces \in Seq(Small)
      /\ \E r \in DOMAIN spaces : cr3 = spaces[r]
  BY RefFacts
<1>2. PICK w, r : w = Walk(mem, cr3, p) /\ r = DemandMapped(mem, p)
  OBVIOUS
<1>3. /\ nextFrame < MaxFrames /\ nextFrame + Missing(mem, p) <= MaxFrames
      /\ (nextFrame + 1) + Missing(mem, p) <= MaxFrames
  <2>1. cr3 \in Small /\ lev[cr3] = Levels /\ Tables(mem, nextFrame, lev)
    BY <1>1, TopFound DEF Rooted
  <2>2. w.level \in 1..Levels /\ Levels \in Nat /\ MaxFrames \in Nat
    BY <1>1, <1>2, <2>1, WalkEnds, SmallApart
  <2>3. Missing(mem, p) = w.level - 1
    BY <1>2, MissingIs
  <2>4. PICK k \in Nat : k = Missing(mem, p)
    BY <2>2, <2>3
  <2>5. nextFrame + 1 + k <= MaxFrames
    BY <2>4
  <2> QED  BY <1>1, <2>2, <2>4, <2>5
<1>4. Rwx \in Flags /\ Rwx.write = TRUE /\ Rwx.user = FALSE /\ Rwx.nx = FALSE
  BY DEF Rwx, Flags
<1>5. ASSUME NEW x \in Nat, Rooted(mem, x, spaces, lev), x + Missing(mem, p) <= MaxFrames,
             NEW f, Data(f, x, lev), r = MapPage(mem, x, p, f, Rwx)
      PROVE  DemandSeen(p, r.mem, f)
  <2>1. /\ SameWords(mem, r.mem)
        /\ \A s \in DOMAIN spaces, q \in Pages :
             spaces[s] # cr3 \/ q # p => View(r.mem, spaces[s], q) = View(mem, spaces[s], q)
        /\ View(r.mem, cr3, p) = [frame |-> f, write |-> Rwx.write, user |-> Rwx.user, exec |-> ~Rwx.nx]
        /\ Walk(r.mem, cr3, p).level = 1 /\ Walk(r.mem, cr3, p).entry = Leaf(f, Rwx)
    BY <1>2, <1>4, <1>5, MapPageSeen
  <2>2. (~Rwx.nx) = TRUE
    BY <1>4
  <2> QED  BY <1>4, <2>1, <2>2 DEF DemandSeen
<1>6. CASE p \in TsegPages
  <2>1. Data(IdentityPa(p), nextFrame, lev)
    BY <1>6, FramesTypes DEF Data
  <2>2. r = MapPage(mem, nextFrame, p, IdentityPa(p), Rwx)
    BY <1>2, <1>6 DEF DemandMapped
  <2>3. DemandSeen(p, r.mem, IdentityPa(p))
    BY <1>1, <1>3, <1>5, <2>1, <2>2
  <2> QED  BY <1>2, <1>3, <1>6, <2>3
<1>7. CASE p \notin TsegPages
  <2>1. PICK x : x = nextFrame + 1
    OBVIOUS
  <2>2. /\ x \in Nat /\ x + Missing(mem, p) <= MaxFrames
        /\ Data(nextFrame, x, lev) /\ Rooted(mem, x, spaces, lev)
    BY <1>1, <1>3, <2>1, TablesAhead DEF Rooted
  <2>3. r = MapPage(mem, x, p, nextFrame, Rwx)
    BY <1>2, <1>7, <2>1 DEF DemandMapped
  <2>4. DemandSeen(p, r.mem, nextFrame)
    BY <1>5, <2>2, <2>3
  <2> QED  BY <1>2, <1>3, <1>7, <2>4
<1> QED  BY <1>6, <1>7

\* The next frame is mapped nowhere and holds nothing.
LEMMA NextFresh ==
  ASSUME RefInv, nextFrame < MaxFrames
  PROVE  Abstract!Fresh(nextFrame) /\ nextFrame \in Frames
<1>1. /\ mem \in Memories /\ nextFrame \in Nat
  BY RefFacts
<1>2. PICK lev \in [Small -> 0..Levels] :
        /\ Tables(mem, nextFrame, lev)
        /\ \A r \in DOMAIN spaces : spaces[r] \in Small /\ lev[spaces[r]] = Levels
  BY RefFacts
<1>3. nextFrame \in Small /\ nextFrame \in Frames /\ MaxFrames \in Nat
  BY <1>1, SmallApart DEF Small
<1>4. Maps = MapsOf(mem, spaces) /\ Written = WrittenOf(mem)
  BY Seen
<1>5. NoFrame # nextFrame
  BY <1>1 DEF NoFrame
<1>6. ASSUME NEW r \in 1..MaxSpaces, NEW q \in Pages \cup {Hole}
      PROVE  Maps[r][q].frame # nextFrame
  <2>1. CASE q = Hole \/ r \notin DOMAIN spaces
    <3>1. Maps[r][q] = Abstract!Unmapped
      BY <1>4, <2>1, MapsAt
    <3> QED  BY <1>5, <3>1 DEF Abstract!Unmapped
  <2>2. CASE q \in Pages /\ r \in DOMAIN spaces
    <3>1. Maps[r][q] = View(mem, spaces[r], q)
      BY <1>4, <2>2, MapsAt
    <3>2. PICK v : v = View(mem, spaces[r], q)
      OBVIOUS
    <3>3. v.frame = NoFrame \/ Data(v.frame, nextFrame, lev)
      BY <1>1, <1>2, <2>2, <3>2, ViewTyped
    <3>4. ~Data(nextFrame, nextFrame, lev)
      BY <1>1, <1>3 DEF Data
    <3> QED  BY <1>5, <3>1, <3>2, <3>3, <3>4
  <2> QED  BY <2>1, <2>2
<1>7. Written[nextFrame] = Abstract!Blank
  <2>1. nextFrame >= nextFrame
    BY <1>1
  <2>2. mem[nextFrame] = Blank
    BY <1>2, <1>3, <2>1 DEF Tables
  <2>3. Zero # Mark
    <3>1. ~Zero.present /\ Mark.present
      BY DEF Zero, Mark
    <3> QED  BY <3>1
  <2>4. \A i \in Idx : mem[nextFrame][i] # Mark
    BY <2>2, <2>3 DEF Blank
  <2>5. Written[nextFrame] = [i \in Idx |-> Zero]
    BY <1>3, <1>4, <2>4 DEF WrittenOf
  <2> QED  BY <2>5 DEF Abstract!Blank
<1> QED  BY <1>3, <1>6, <1>7 DEF Abstract!Fresh

\* An access to a page that is mapped on demand: Access.
LEMMA AccessOnDemandRefines ==
  ASSUME RefInv, NEW p \in UsedPages, NEW kind \in Kinds, AccessOnDemand(p, kind)
  PROVE  \E f \in Frames \cup {NoFrame} : Abstract!Access(p, kind, f)
<1>1. p \in Pages \cup {Hole}
  BY MmuAssumption DEF Pages
<1>2. /\ mem \in Memories /\ nextFrame \in Nat /\ TlbTyped(tlb) /\ Coherent(mem, cr3, tlb)
      /\ spaces \in Seq(Small) /\ \E r \in DOMAIN spaces : cr3 = spaces[r]
  BY RefFacts
<1>3. PICK lev \in [Small -> 0..Levels] :
        /\ Rooted(mem, nextFrame, spaces, lev)
        /\ Tables(mem, nextFrame, lev)
        /\ cr3 \in Small /\ lev[cr3] = Levels
  BY RefFacts
<1>4. p \in Pages /\ ~Walk(mem, cr3, p).entry.present
  <2>1. Translate(mem, tlb, p, kind).fault = "absent"
    BY DEF AccessOnDemand
  <2>2. Translated(mem, nextFrame, lev, p, Translate(mem, tlb, p, kind))
    BY <1>1, <1>2, <1>3, TranslateStep
  <2>3. p # Hole /\ ~Walk(mem, cr3, p).entry.present
    BY <2>1, <2>2 DEF Translated
  <2> QED  BY <1>1, <2>3
<1>5. PICK d, o, f : /\ d = DemandMapped(mem, p) /\ o = Translate(d.mem, <<>>, p, kind)
                     /\ f = IF p \in TsegPages THEN IdentityPa(p) ELSE nextFrame
  OBVIOUS
<1>6. /\ nextFrame + 1 + Missing(mem, p) <= MaxFrames
      /\ last' = [page |-> p, kind |-> kind, frame |-> o.frame] /\ UNCHANGED <<cr3, spaces>>
      /\ mem' = Effected(d.mem, kind, o.frame)
  BY <1>5 DEF AccessOnDemand, Effect, Effected, Marked, Reach
<1>7. /\ d.mem \in Memories /\ d.next \in Nat
      /\ \E lew \in [Small -> 0..Levels] : Rooted(d.mem, d.next, spaces, lew)
  <2>1. d.mem \in Memories /\ d.next \in 0..MaxFrames
        /\ \E lew \in [Small -> 0..Levels] : Rooted(d.mem, d.next, spaces, lew)
    <3>1. d = DemandMapped(mem, p) /\ nextFrame + 1 + Missing(mem, p) <= MaxFrames
      BY <1>5, <1>6
    <3> QED  BY <1>2, <1>3, <1>4, <3>1, DemandStep
  <2>2. 0..MaxFrames \subseteq Nat
    BY SmallApart
  <2> QED  BY <2>1, <2>2
<1>8. nextFrame < MaxFrames /\ DemandSeen(p, d.mem, f)
  BY <1>3, <1>4, <1>5, <1>6, DemandMaps
<1>9. PICK n, w : n = d.mem /\ w = Walk(n, cr3, p)
  OBVIOUS
<1>10. o.fault = "none" /\ Backs(w, p, kind, o.frame)
  <2>1. PICK t : t = <<>>
    OBVIOUS
  <2>2. Coherent(n, cr3, t) /\ o = Translate(n, t, p, kind)
    BY <1>5, <1>9, <2>1, EmptyCache
  <2>3. /\ o.fault = "none" => p # Hole /\ Backs(w, p, kind, o.frame)
        /\ o.fault # "none" => o.frame = NoFrame /\ (p = Hole \/ ~w.entry.present \/ ~Permits(w.entry, kind))
    BY <1>1, <1>9, <2>2, TranslateTells
  <2>4. w.entry = Leaf(f, Rwx)
    BY <1>8, <1>9 DEF DemandSeen
  <2>5. w.entry.present /\ w.entry.write /\ ~w.entry.nx /\ ~w.entry.user
    BY <2>4 DEF Leaf, Rwx
  <2>6. Permits(w.entry, kind)
    BY <2>5 DEF Permits
  <2>7. p # Hole
    BY <1>4, MmuAssumption DEF Pages
  <2> QED  BY <2>3, <2>5, <2>6, <2>7
<1>11. f \in Frames /\ f # NoFrame
  <2>1. f \in Frames
    BY <1>5, <1>8, NextFresh, FramesTypes
  <2> QED  BY <2>1, FramesTypes DEF NoFrame
<1>12. o.frame = f
  <2>1. w.entry = Leaf(f, Rwx) /\ w.level = 1
    BY <1>8, <1>9 DEF DemandSeen
  <2>2. w.entry.frame = f
    BY <2>1 DEF Leaf
  <2>3. o.frame = f + Offset(p, 1)
    BY <1>10, <2>1, <2>2 DEF Backs
  <2>4. Offset(p, 1) = 0 /\ f \in Nat
    BY <1>11, FramesTypes DEF Offset
  <2> QED  BY <2>3, <2>4
<1>13. PICK lew \in [Small -> 0..Levels] : Rooted(n, d.next, spaces, lew)
  BY <1>7, <1>9
<1>14. /\ Root' = Root /\ Maps' = MapsOf(n, spaces)
       /\ IF kind = "write" THEN Written' = [WrittenOf(n) EXCEPT ![f][0] = Mark]
          ELSE Written' = WrittenOf(n)
  <2>1. Tables(n, d.next, lew) /\ \A r \in DOMAIN spaces : spaces[r] \in Small /\ lew[spaces[r]] = Levels
    BY <1>2, <1>13 DEF Rooted
  <2>2. cr3 \in Small /\ lew[cr3] = Levels
    BY <1>2, <2>1
  <2>3. Data(f, d.next, lew)
    <3>1. PICK t : t = <<>>
      OBVIOUS
    <3>2. TlbTyped(t) /\ Coherent(n, cr3, t) /\ o = Translate(n, t, p, kind) /\ n \in Memories
      BY <1>5, <1>7, <1>9, <3>1, EmptyCache
    <3>3. Translated(n, d.next, lew, p, o)
      BY <1>1, <2>1, <2>2, <3>2, TranslateStep
    <3> QED  BY <1>10, <1>12, <3>3 DEF Translated
  <2>4. n \in Memories /\ d.next \in Nat /\ mem' = Effected(n, kind, f)
    BY <1>6, <1>7, <1>9, <1>12
  <2> QED  BY <1>6, <2>1, <2>3, <2>4, EffectSeen
<1>15. Root \in DOMAIN spaces /\ cr3 = spaces[Root] /\ Root \in 1..MaxSpaces /\ Distinct(spaces)
  BY RefFacts DEF RefInv
<1>16. Maps = MapsOf(mem, spaces) /\ Written = WrittenOf(mem) /\ WrittenOf(n) = WrittenOf(mem)
  <2>1. SameWords(mem, n)
    BY <1>8, <1>9 DEF DemandSeen
  <2> QED  BY <2>1, Seen, WordsSame
<1>17. Abstract!Current(p) = Abstract!Unmapped
  <2>1. Abstract!Current(p) = Maps[Root][p]
    BY DEF Abstract!Current
  <2>2. Maps[Root][p] = View(mem, cr3, p)
    BY <1>4, <1>15, <1>16, MapsAt
  <2> QED  BY <1>4, <2>1, <2>2 DEF View
<1>18. Maps' = [Maps EXCEPT ![Root][p] = [frame |-> f, write |-> TRUE, user |-> FALSE, exec |-> TRUE]]
  <2>1. \A s \in DOMAIN spaces, q \in Pages : s # Root \/ q # p => View(n, spaces[s], q) = View(mem, spaces[s], q)
    BY <1>8, <1>9, <1>15 DEF DemandSeen, Distinct
  <2>2. PICK r : r = Root
    OBVIOUS
  <2>3. r \in DOMAIN spaces /\ r \in 1..MaxSpaces /\ spaces[r] = cr3
    BY <1>15, <2>2
  <2>4. MapsOf(n, spaces) = [MapsOf(mem, spaces) EXCEPT ![r][p] = View(n, spaces[r], p)]
    BY <1>4, <2>1, <2>2, <2>3, MapsRemapped
  <2>5. View(n, cr3, p) = [frame |-> f, write |-> TRUE, user |-> FALSE, exec |-> TRUE]
    BY <1>8, <1>9 DEF DemandSeen
  <2> QED  BY <1>14, <1>16, <2>2, <2>3, <2>4, <2>5
<1>19. Abstract!Effect(kind, f)
  <2>1. 0 \in Idx
    BY SmallApart
  <2> QED  BY <1>14, <1>16, <2>1 DEF Abstract!Effect
<1>20. IF p \in TsegPages THEN f = IdentityPa(p) ELSE Abstract!Fresh(f)
  BY <1>5, <1>8, NextFresh
<1>21. Abstract!ReachOnDemand(p, kind, f)
  BY <1>17, <1>18, <1>19, <1>20 DEF Abstract!ReachOnDemand
<1>22. Abstract!Access(p, kind, f)
  BY <1>6, <1>11, <1>12, <1>14, <1>21 DEF Abstract!Access
<1> QED  BY <1>11, <1>22

-----------------------------------------------------------------------------

\* A look-up, of the host's, leaves nothing to see.
LEMMA LookupRefines ==
  ASSUME RefInv, NEW p \in UsedPages, Lookup(p)
  PROVE  \E r \in 1..MaxSpaces : Abstract!Switch(r)
<1>1. last' = Idle /\ UNCHANGED <<mem, cr3, spaces>>
  BY DEF Lookup
<1>2. Root' = Root /\ Maps' = Maps /\ Written' = Written
  BY <1>1, Seen, SeenSame
<1>3. Root \in 1..MaxSpaces
  BY RefFacts
<1>4. Abstract!Switch(Root)
  BY <1>1, <1>2 DEF Abstract!Switch, Abstract!Idle, Idle
<1> QED  BY <1>3, <1>4

\* A switch of the space: Switch.
LEMMA SwitchToRefines ==
  ASSUME RefInv, NEW r \in DOMAIN spaces, SwitchTo(r)
  PROVE  \E s \in 1..MaxSpaces : Abstract!Switch(s)
<1>1. last' = Idle /\ cr3' = spaces[r] /\ UNCHANGED <<mem, spaces>>
  BY DEF SwitchTo
<1>2. Root' = r
  <2>1. Root' = RootOf(spaces[r], spaces)
    BY <1>1, Seen
  <2> QED  BY <2>1, RootIs DEF RefInv
<1>3. Maps' = Maps /\ Written' = Written
  BY <1>1, Seen
<1>4. r \in 1..MaxSpaces
  BY RefFacts
<1>5. Abstract!Switch(r)
  BY <1>1, <1>2, <1>3 DEF Abstract!Switch, Abstract!Idle, Idle
<1> QED  BY <1>4, <1>5

\* A top-level table of blank memory maps nothing.
LEMMA BlankView ==
  ASSUME NEW m, NEW top, m[top] = Blank, NEW p \in Pages
  PROVE  View(m, top, p) = Abstract!Unmapped
<1>1. Levels \in 2..4 /\ Levels - 1 \in Nat
  BY SmallApart
<1>2. PICK W, x : W = Levelwise(m, top, p) /\ x = WalkAt(m, p, Levels, top)
  OBVIOUS
<1>3. ~x.entry.present
  <2>1. p[Levels] \in Idx
    BY <1>1 DEF Pages
  <2> QED  BY <1>2, <2>1 DEF WalkAt, Blank, Zero
<1>4. W[Levels] = x
  BY <1>2, LevelwiseIs
<1> DEFINE S == {l \in 1..Levels : W[l] = x}
<1>5. Levels \in S
  BY <1>1, <1>4
<1>6. ASSUME NEW l \in 1..(Levels - 1), l + 1 \in S
      PROVE  l \in S
  <2>1. l \in 1..Levels /\ W[l + 1] = x
    BY <1>1, <1>6
  <2>2. W[l] = WalkBelow(m, p, l, W[l + 1])
    BY <1>2, LevelwiseIs
  <2>3. W[l] = x
    BY <1>3, <2>1, <2>2 DEF WalkBelow
  <2> QED  BY <2>1, <2>3
<1>7. 1..Levels \subseteq S
  <2> HIDE DEF S
  <2> QED  BY <1>5, <1>6, DownLevels
<1>8. 1 \in 1..Levels
  BY <1>1
<1>9. W[1] = x
  BY <1>7, <1>8
<1> QED  BY <1>2, <1>3, <1>9 DEF View, Walk

\* What NewAddressSpace does: the frame was blank, and no space had it.
LEMMA SpaceAdded ==
  ASSUME RefInv, NewAddressSpace
  PROVE  /\ mem' = mem /\ mem[nextFrame] = Blank /\ last' = Idle
         /\ Len(spaces) \in Nat /\ Len(spaces) < MaxSpaces
         /\ DOMAIN spaces = 1..Len(spaces) /\ DOMAIN spaces' = 1..(Len(spaces) + 1)
         /\ \A s \in DOMAIN spaces : spaces'[s] = spaces[s] /\ spaces[s] # nextFrame
         /\ spaces'[Len(spaces) + 1] = nextFrame /\ cr3' = nextFrame
<1>1. /\ mem \in Memories /\ nextFrame \in Nat /\ spaces \in Seq(Small)
      /\ \E r \in DOMAIN spaces : cr3 = spaces[r]
  BY RefFacts
<1>2. PICK lev \in [Small -> 0..Levels] : Rooted(mem, nextFrame, spaces, lev) /\ Tables(mem, nextFrame, lev)
  BY RefFacts
<1>3. PICK f : f = nextFrame
  OBVIOUS
<1>4. /\ f < MaxFrames /\ mem' = [mem EXCEPT ![f] = Blank]
      /\ spaces' = Append(spaces, f) /\ cr3' = f /\ last' = Idle /\ Len(spaces) < MaxSpaces
  BY <1>3 DEF NewAddressSpace
<1>5. f \in Small
  BY <1>1, <1>3, <1>4, SmallApart DEF Small
<1>6. mem[f] = Blank
  <2>1. f >= nextFrame
    BY <1>1, <1>3
  <2> QED  BY <1>2, <1>5, <2>1 DEF Tables
<1>7. mem' = mem
  BY <1>1, <1>4, <1>6 DEF Memories
<1>8. /\ Len(spaces) \in Nat /\ DOMAIN spaces = 1..Len(spaces) /\ DOMAIN spaces' = 1..(Len(spaces) + 1)
      /\ spaces'[Len(spaces) + 1] = f /\ \A s \in DOMAIN spaces : spaces'[s] = spaces[s]
  BY <1>1, <1>4, <1>5
<1>9. \A s \in DOMAIN spaces : spaces[s] # f
  <2>1. \A s \in DOMAIN spaces : spaces[s] \in Small /\ spaces[s] < nextFrame
    BY <1>1, <1>2, TopFound
  <2> QED  BY <1>1, <1>3, <2>1 DEF Small
<1> QED  BY <1>3, <1>4, <1>6, <1>7, <1>8, <1>9

\* A new space does not share its table.
LEMMA SpacesApart ==
  ASSUME RefInv, NewAddressSpace
  PROVE  Distinct(spaces') /\ Len(spaces') <= MaxSpaces
<1>1. PICK k : k = Len(spaces)
  OBVIOUS
<1>2. /\ k \in Nat /\ k < MaxSpaces /\ DOMAIN spaces = 1..k /\ DOMAIN spaces' = 1..(k + 1)
      /\ \A s \in DOMAIN spaces : spaces'[s] = spaces[s] /\ spaces[s] # nextFrame
      /\ spaces'[k + 1] = nextFrame
  BY <1>1, SpaceAdded
<1>3. Distinct(spaces')
  <2> SUFFICES ASSUME NEW r \in DOMAIN spaces', NEW s \in DOMAIN spaces', spaces'[r] = spaces'[s]
               PROVE  r = s
    BY DEF Distinct
  <2>1. (r \in DOMAIN spaces \/ r = k + 1) /\ (s \in DOMAIN spaces \/ s = k + 1)
    BY <1>2
  <2>2. CASE r \in DOMAIN spaces /\ s \in DOMAIN spaces
    BY <1>2, <2>2 DEF RefInv, Distinct
  <2>3. CASE r \in DOMAIN spaces /\ s = k + 1
    BY <1>2, <2>3
  <2>4. CASE r = k + 1 /\ s \in DOMAIN spaces
    BY <1>2, <2>4
  <2>5. CASE r = k + 1 /\ s = k + 1
    BY <2>5
  <2> QED  BY <2>1, <2>2, <2>3, <2>4, <2>5
<1>4. Len(spaces') <= MaxSpaces
  <2>1. spaces' = Append(spaces, nextFrame)
    BY DEF NewAddressSpace
  <2>2. spaces \in Seq(Small)
    BY RefFacts
  <2>3. Len(spaces') = k + 1
    BY <1>1, <2>1, <2>2
  <2> QED  BY <1>2, <2>3, MmuAssumption
<1> QED  BY <1>3, <1>4

\* A new space: Switch, to one that maps nothing.
LEMMA NewAddressSpaceRefines ==
  ASSUME RefInv, NewAddressSpace
  PROVE  \E s \in 1..MaxSpaces : Abstract!Switch(s)
<1>1. PICK k, r, f : k = Len(spaces) /\ r = k + 1 /\ f = nextFrame
  OBVIOUS
<1>2. /\ mem' = mem /\ mem[f] = Blank /\ last' = Idle
      /\ k \in Nat /\ k < MaxSpaces /\ DOMAIN spaces = 1..k /\ DOMAIN spaces' = 1..(k + 1)
      /\ \A s \in DOMAIN spaces : spaces'[s] = spaces[s]
      /\ spaces'[r] = f /\ cr3' = f
  BY <1>1, SpaceAdded
<1>3. r \in 1..MaxSpaces /\ r \in DOMAIN spaces' /\ r \notin DOMAIN spaces
      /\ \A s \in DOMAIN spaces' : s \in DOMAIN spaces \/ s = r
  BY <1>1, <1>2, MmuAssumption
<1>4. Root' = r
  <2>1. Root' = RootOf(cr3', spaces')
    BY Seen
  <2>2. Distinct(spaces')
    BY SpacesApart
  <2>3. RootOf(spaces'[r], spaces') = r
    BY <1>3, <2>2, RootIs
  <2> QED  BY <1>2, <2>1, <2>3
<1>5. Maps' = Maps
  <2>1. PICK sp : sp = spaces'
    OBVIOUS
  <2>2. Maps = MapsOf(mem, spaces) /\ Maps' = MapsOf(mem, sp)
    BY <1>2, <2>1, Seen
  <2>3. ASSUME NEW s \in 1..MaxSpaces, NEW q \in Pages \cup {Hole}
        PROVE  (IF s \in DOMAIN sp /\ q # Hole THEN View(mem, sp[s], q) ELSE Abstract!Unmapped)
                 = (IF s \in DOMAIN spaces /\ q # Hole THEN View(mem, spaces[s], q) ELSE Abstract!Unmapped)
    <3>1. CASE q = Hole \/ s \notin DOMAIN sp
      <4>1. s \notin DOMAIN sp => s \notin DOMAIN spaces
        BY <1>2, <2>1
      <4> QED  BY <3>1, <4>1
    <3>2. CASE q # Hole /\ s \in DOMAIN spaces
      <4>1. s \in DOMAIN sp /\ sp[s] = spaces[s]
        BY <1>2, <2>1, <3>2
      <4> QED  BY <3>2, <4>1
    <3>3. CASE q # Hole /\ s \in DOMAIN sp /\ s \notin DOMAIN spaces
      <4>1. sp[s] = f /\ q \in Pages
        BY <1>2, <1>3, <2>1, <3>3
      <4>2. View(mem, f, q) = Abstract!Unmapped
        BY <1>2, <4>1, BlankView
      <4> QED  BY <3>3, <4>1, <4>2
    <3> QED  BY <3>1, <3>2, <3>3
  <2>4. MapsOf(mem, sp) = MapsOf(mem, spaces)
    BY <2>3 DEF MapsOf
  <2> QED  BY <2>2, <2>4
<1>6. Written' = Written
  BY <1>2, Seen
<1>7. Abstract!Switch(r)
  BY <1>2, <1>4, <1>5, <1>6 DEF Abstract!Switch, Abstract!Idle, Idle
<1> QED  BY <1>3, <1>7

\* The states the refinement starts from.
LEMMA RefInit == Init => RefInv /\ Abstract!Init
<1> SUFFICES ASSUME Init
             PROVE  RefInv /\ Abstract!Init
  OBVIOUS
<1>1. /\ mem = [f \in Frames |-> Blank] /\ cr3 = 0 /\ spaces = <<0>> /\ last = Idle
  BY DEF Init
<1>2. DOMAIN spaces = {1} /\ spaces[1] = 0 /\ Len(spaces) = 1
  BY <1>1
<1>3. RefInv
  <2>1. Distinct(spaces)
    BY <1>2 DEF Distinct
  <2>2. Len(spaces) <= MaxSpaces
    BY <1>2, MmuAssumption
  <2> QED  BY <2>1, <2>2, MmuInit DEF RefInv
<1>4. Maps = MapsOf(mem, spaces) /\ Written = WrittenOf(mem) /\ Root \in 1..MaxSpaces
  BY <1>3, Seen, RefFacts
<1>5. Maps = [r \in 1..MaxSpaces |-> [p \in Pages \cup {Hole} |-> Abstract!Unmapped]]
  <2>1. ASSUME NEW r \in 1..MaxSpaces, NEW p \in Pages \cup {Hole}
        PROVE  (IF r \in DOMAIN spaces /\ p # Hole THEN View(mem, spaces[r], p) ELSE Abstract!Unmapped) = Abstract!Unmapped
    <3>1. CASE r \in DOMAIN spaces /\ p # Hole
      <4>1. mem[spaces[r]] = Blank
        BY <1>1, <1>2, <3>1, SmallApart
      <4>2. View(mem, spaces[r], p) = Abstract!Unmapped
        BY <3>1, <4>1, BlankView
      <4> QED  BY <3>1, <4>2
    <3>2. CASE ~(r \in DOMAIN spaces /\ p # Hole)
      BY <3>2
    <3> QED  BY <3>1, <3>2
  <2>2. MapsOf(mem, spaces) = [r \in 1..MaxSpaces |-> [p \in Pages \cup {Hole} |-> Abstract!Unmapped]]
    BY <2>1 DEF MapsOf
  <2> QED  BY <1>4, <2>2
<1>6. Written = [f \in Frames |-> Abstract!Blank]
  <2>1. Zero # Mark
    <3>1. ~Zero.present /\ Mark.present
      BY DEF Zero, Mark
    <3> QED  BY <3>1
  <2>2. \A f \in Frames, i \in Idx : mem[f][i] = Zero
    BY <1>1 DEF Blank
  <2>3. WrittenOf(mem) = [f \in Frames |-> [i \in Idx |-> Zero]]
    BY <2>1, <2>2 DEF WrittenOf
  <2> QED  BY <1>4, <2>3 DEF Abstract!Blank
<1>7. last = Abstract!Idle
  BY <1>1 DEF Idle, Abstract!Idle
<1>8. Abstract!Init
  BY <1>4, <1>5, <1>6, <1>7 DEF Abstract!Init
<1> QED  BY <1>3, <1>8

\* Every step of paging is a step of AddressSpace, or none.
LEMMA RefStep ==
  ASSUME RefInv, [Next]_vars
  PROVE  [Abstract!Next]_Abstract!vars
<1>1. CASE UNCHANGED vars
  <2>1. UNCHANGED <<mem, cr3, spaces, last>>
    BY <1>1 DEF vars
  <2>2. Root' = Root /\ Maps' = Maps /\ Written' = Written /\ last' = last
    BY <2>1, Seen
  <2> QED  BY <2>2 DEF Abstract!vars
<1>2. ASSUME NEW p \in UsedPages, NEW kind \in Kinds, AccessTranslated(p, kind) \/ AccessOnDemand(p, kind)
      PROVE  Abstract!Next
  <2>1. p \in Pages \cup {Hole} /\ kind \in Abstract!Kinds
    BY MmuAssumption DEF Pages, Kinds, Abstract!Kinds
  <2>2. \E f \in Frames \cup {NoFrame} : Abstract!Access(p, kind, f)
    BY <1>2, AccessTranslatedRefines, AccessOnDemandRefines
  <2> QED  BY <2>1, <2>2 DEF Abstract!Next
<1>3. ASSUME NEW p \in HostPages, Abstract!RemapPage(p)
      PROVE  Abstract!Next
  <2>1. p \in Pages \cup {Hole}
    BY MmuAssumption DEF Pages
  <2> QED  BY <1>3, <2>1 DEF Abstract!Next
<1>4. ASSUME NEW p \in HostPages, NEW flags \in HostFlags, HostWritesLarge(p, flags)
      PROVE  Abstract!Next
  <2>1. Block(p) \in {Block(q) : q \in Pages}
    BY MmuAssumption DEF Pages
  <2>2. Abstract!MapBlock(Block(p))
    BY <1>4, HostWritesLargeRefines
  <2> QED  BY <2>1, <2>2 DEF Abstract!Next
<1>5. ASSUME \E r \in 1..MaxSpaces : Abstract!Switch(r)
      PROVE  Abstract!Next
  BY <1>5 DEF Abstract!Next
<1>6. ASSUME NEW p \in UsedPages, Lookup(p)
      PROVE  Abstract!Next
  BY <1>5, <1>6, LookupRefines
<1>7. ASSUME NEW p \in HostPages, Unmap(p)
      PROVE  Abstract!Next
  BY <1>3, <1>7, UnmapRefines
<1>8. ASSUME NEW p \in HostPages, NEW flags \in HostFlags, HostMaps(p, flags)
      PROVE  Abstract!Next
  BY <1>3, <1>8, HostMapsRefines
<1>9. CASE NewAddressSpace
  BY <1>5, <1>9, NewAddressSpaceRefines
<1>10. ASSUME NEW r \in DOMAIN spaces, SwitchTo(r)
       PROVE  Abstract!Next
  BY <1>5, <1>10, SwitchToRefines
<1> QED  BY <1>1, <1>2, <1>4, <1>6, <1>7, <1>8, <1>9, <1>10 DEF Next

\* The spaces stay apart.
LEMMA RefNext == RefInv /\ [Next]_vars => RefInv'
<1> SUFFICES ASSUME RefInv, [Next]_vars
             PROVE  RefInv'
  OBVIOUS
<1>1. MmuInv'
  BY MmuNext DEF RefInv
<1>2. CASE NewAddressSpace
  BY <1>1, <1>2, SpacesApart DEF RefInv
<1>3. CASE ~NewAddressSpace
  <2>1. spaces' = spaces
    BY <1>3 DEF Next, vars, AccessTranslated, AccessOnDemand, Lookup, Unmap, HostMaps, HostWritesLarge, SwitchTo
  <2> QED  BY <1>1, <2>1 DEF RefInv
<1> QED  BY <1>2, <1>3

\* Paging keeps the promise of AddressSpace: an access reaches the frame its page maps to,
\* or faults; demand mapping hands out a frame no page of any space maps; mapPage, unmap
\* and large pages change the current space's mapping of their pages and nothing else; a
\* write never lands in a table (paging.mjs).
THEOREM PagingImplements == Spec => ImplementsAddressSpace
<1> QED  BY RefInit, RefNext, RefStep, PTL DEF Spec, ImplementsAddressSpace, Abstract!Spec

=============================================================================

------------------------------- MODULE GuestLists -------------------------------
(***************************************************************************)
(* The containers a driver keeps through the modelled API: LIST_ENTRY rings  *)
(* and SLISTs, which live in guest memory and share the first word of an     *)
(* entry (packages/ntsim/src/winapi.mjs, winapi-ext.mjs), and KQUEUEs and    *)
(* generic tables, which the simulator keeps beside it (winapi-extra.mjs).   *)
(***************************************************************************)
EXTENDS Integers, Sequences, SequencesExt

CONSTANTS
  GlHeads,     \* LIST_ENTRY heads
  GlTop,       \* the head of an SLIST
  GlEntries,   \* entries; one is in at most one container at a time
  GlKeys,      \* first words of the elements of a generic table
  GlMaxInserts \* bound: insertions in the generic table

GlNull == "null"

ASSUME GlAssumption ==
  /\ GlTop \notin GlHeads /\ GlMaxInserts \in Nat
  /\ (GlHeads \cup {GlTop, GlNull}) \cap GlEntries = {}

VARIABLES
  glNext, glPrev,  \* words 0 and 8 of heads and entries
  glQueue,         \* the entries of a KQUEUE
  glTable,         \* elements of a table: [key, id]
  glInserts,       \* elements allocated so far
  glRestart,       \* the index an enumeration keeps in guest memory
  glOrder,         \* ghost: what each ring and the SLIST hold, first to last
  glGiven,         \* ghost: ids an enumeration gave
  glDue            \* ghost: ids there when it began, none deleted since; {} if none runs

glVars == <<glNext, glPrev, glQueue, glTable, glInserts, glRestart, glOrder, glGiven, glDue>>
glTables == <<glTable, glInserts, glRestart, glGiven, glDue>>

-----------------------------------------------------------------------------
GlInit ==
  /\ glNext = [x \in GlHeads \cup {GlTop} \cup GlEntries |->
                 IF x \in GlHeads THEN x ELSE GlNull]
  /\ glPrev = [x \in GlHeads \cup GlEntries |-> IF x \in GlHeads THEN x ELSE GlNull]
  /\ glQueue = <<>> /\ glTable = <<>> /\ glInserts = 0 /\ glRestart = 0
  /\ glOrder = [h \in GlHeads \cup {GlTop} |-> <<>>]
  /\ glGiven = {} /\ glDue = {}

GlFree(e) == e \notin Range(glQueue) /\ \A h \in DOMAIN glOrder : e \notin Range(glOrder[h])

InsertHeadList(h, e) ==
  LET first == glNext[h]
  IN /\ GlFree(e)
     /\ glNext' = [glNext EXCEPT ![e] = first, ![h] = e]
     /\ glPrev' = [glPrev EXCEPT ![e] = h, ![first] = e]
     /\ glOrder' = [glOrder EXCEPT ![h] = <<e>> \o @]
     /\ UNCHANGED <<glQueue, glTables>>

InsertTailList(h, e) ==
  LET last == glPrev[h]
  IN /\ GlFree(e)
     /\ glNext' = [glNext EXCEPT ![e] = h, ![last] = e]
     /\ glPrev' = [glPrev EXCEPT ![e] = last, ![h] = e]
     /\ glOrder' = [glOrder EXCEPT ![h] = Append(@, e)]
     /\ UNCHANGED <<glQueue, glTables>>

\* Mutant: the new first entry keeps pointing at the one removed.
RemoveHeadOneWay(h) ==
  LET next == glNext[glNext[h]]
  IN /\ glNext' = [glNext EXCEPT ![h] = next]
     /\ glOrder' = [glOrder EXCEPT ![h] = IF @ = <<>> THEN @ ELSE Tail(@)]
     /\ UNCHANGED <<glPrev, glQueue, glTables>>

\* Of an empty ring it gives the head, and leaves the ring alone.
RemoveHeadList(h) ==
  LET next == glNext[glNext[h]]
  IN /\ glNext' = [glNext EXCEPT ![h] = next]
     /\ glPrev' = [glPrev EXCEPT ![next] = h]
     /\ glOrder' = [glOrder EXCEPT ![h] = IF @ = <<>> THEN @ ELSE Tail(@)]
     /\ UNCHANGED <<glQueue, glTables>>

RemoveEntryList(h, e) ==
  /\ \E i \in DOMAIN glOrder[h] :
       /\ glOrder[h][i] = e
       /\ glOrder' = [glOrder EXCEPT ![h] = RemoveAt(@, i)]
  /\ glNext' = [glNext EXCEPT ![glPrev[e]] = glNext[e]]
  /\ glPrev' = [glPrev EXCEPT ![glNext[e]] = glPrev[e]]
  /\ UNCHANGED <<glQueue, glTables>>

\* InterlockedPushEntrySList and its Exp twin.
PushEntrySList(e) ==
  /\ GlFree(e)
  /\ glNext' = [glNext EXCEPT ![e] = glNext[GlTop], ![GlTop] = e]
  /\ glOrder' = [glOrder EXCEPT ![GlTop] = <<e>> \o @]
  /\ UNCHANGED <<glPrev, glQueue, glTables>>

PopEntrySList ==
  LET first == glNext[GlTop]
  IN /\ first # GlNull
     /\ glNext' = [glNext EXCEPT ![GlTop] = glNext[first]]
     /\ glOrder' = [glOrder EXCEPT ![GlTop] = Tail(@)]
     /\ UNCHANGED <<glPrev, glQueue, glTables>>

FlushSList ==
  /\ glNext[GlTop] # GlNull
  /\ glNext' = [glNext EXCEPT ![GlTop] = GlNull]
  /\ glOrder' = [glOrder EXCEPT ![GlTop] = <<>>]
  /\ UNCHANGED <<glPrev, glQueue, glTables>>

KeInsertQueue(e) ==
  /\ GlFree(e)
  /\ glQueue' = Append(glQueue, e)
  /\ UNCHANGED <<glNext, glPrev, glOrder, glTables>>

KeRemoveQueueEx ==
  /\ glQueue # <<>>
  /\ glQueue' = Tail(glQueue)
  /\ UNCHANGED <<glNext, glPrev, glOrder, glTables>>

KeRundownQueue ==
  /\ glQueue # <<>>
  /\ glQueue' = <<>>
  /\ UNCHANGED <<glNext, glPrev, glOrder, glTables>>

-----------------------------------------------------------------------------
(* The generic table.  A key that is there already is inserted again.       *)

glRings == <<glNext, glPrev, glQueue, glOrder>>

RtlInsertElement(k) ==
  /\ glInserts < GlMaxInserts
  /\ glTable' = Append(glTable, [key |-> k, id |-> glInserts])
  /\ glInserts' = glInserts + 1
  /\ UNCHANGED <<glRestart, glGiven, glDue, glRings>>

\* The first element with that key goes, and those after it move up.
RtlDeleteElement(k) ==
  /\ \E at \in DOMAIN glTable :
       /\ glTable[at].key = k /\ \A i \in 1..(at - 1) : glTable[i].key # k
       /\ glTable' = RemoveAt(glTable, at)
  /\ glDue' = {}
  /\ UNCHANGED <<glInserts, glRestart, glGiven, glRings>>

\* One step of an enumeration: past the last element it starts anew.
RtlEnumerateElement ==
  /\ LET there == {glTable[i].id : i \in DOMAIN glTable}
     IN IF glRestart < Len(glTable)
        THEN /\ glRestart' = glRestart + 1
             /\ glGiven' = (IF glRestart = 0 THEN {} ELSE glGiven)
                           \cup {glTable[glRestart + 1].id}
             /\ glDue' = IF glRestart = 0 THEN there ELSE glDue
        ELSE glRestart' = 0 /\ UNCHANGED <<glGiven, glDue>>
  /\ UNCHANGED <<glTable, glInserts, glRings>>

GlRingStep ==
  \/ \E h \in GlHeads, e \in GlEntries :
       InsertHeadList(h, e) \/ InsertTailList(h, e) \/ RemoveEntryList(h, e)
  \/ \E h \in GlHeads : RemoveHeadList(h)
  \/ \E e \in GlEntries : PushEntrySList(e) \/ KeInsertQueue(e)
  \/ PopEntrySList \/ FlushSList \/ KeRemoveQueueEx \/ KeRundownQueue

GlTableStep ==
  \/ \E k \in GlKeys : RtlInsertElement(k) \/ RtlDeleteElement(k)
  \/ RtlEnumerateElement

GlNext == GlRingStep \/ GlTableStep

GlSpec == GlInit /\ [][GlNext]_glVars

-----------------------------------------------------------------------------
GlTypeOK ==
  /\ glNext \in [GlHeads \cup {GlTop} \cup GlEntries -> GlHeads \cup GlEntries \cup {GlNull}]
  /\ glPrev \in [GlHeads \cup GlEntries -> GlHeads \cup GlEntries \cup {GlNull}]
  /\ glQueue \in Seq(GlEntries) /\ glTable \in Seq([key : GlKeys, id : Nat])
  /\ glInserts \in Nat /\ glRestart \in Nat

GlListsAgree ==
  /\ \A h \in GlHeads :
       LET s == <<h>> \o glOrder[h] \o <<h>>
       IN \A i \in 1..Len(s) - 1 : glNext[s[i]] = s[i + 1] /\ glPrev[s[i + 1]] = s[i]
  /\ LET s == <<GlTop>> \o glOrder[GlTop] \o <<GlNull>>
     IN \A i \in 1..Len(s) - 1 : glNext[s[i]] = s[i + 1]

GlEnumExact ==
  glDue # {} =>
    /\ glRestart # 0 => glGiven = {glTable[i].id : i \in 1..glRestart}
    /\ glRestart = 0 => glDue \subseteq glGiven

(* A ring read by Flink and read by Blink gives the same entries, those inserted *)
(* and not removed, in the order of their insertion at either end; an SLIST      *)
(* gives its entries last in, first out; whatever container an entry was in      *)
(* before, whose links its words still hold.  And an enumeration of a table that *)
(* nothing was deleted in has given the first n elements after n steps, and all  *)
(* that were there when it began at its end, whatever is inserted meanwhile.     *)
GlContainersExact == GlListsAgree /\ GlEnumExact
=============================================================================

-------------------------------- MODULE IoUring --------------------------------
(***************************************************************************)
(* One io_uring of the simulated Linux kernel: io_uring_setup and          *)
(* io_uring_enter of packages/linux-sim/src/linux-api.mjs, and the way the *)
(* host drives a ring, sendFileOp of file-ops.mjs.                         *)
(*                                                                         *)
(* sendFileOp is asynchronous: it writes its entries, waits for an import  *)
(* and then submits what it finds, so that two of them and the guest code  *)
(* other file operations run come in between.  Everything else happens in  *)
(* one turn of the event loop.                                             *)
(*                                                                         *)
(* A submission (SQE) is a number, given out in the order they are         *)
(* written; 0 is the content of a slot nobody wrote.  The completion (CQE) *)
(* of a submission carries its number (user_data).                         *)
(***************************************************************************)
EXTENDS Integers, Sequences, FiniteSetsExt, Functions

CONSTANTS
  SqEntries,  \* slots of the submission ring
  Drives,     \* calls of sendFileOp that may be in progress at once
  Modes,      \* what the host may set ioUringScheduler.mode to
  MaxSqes,    \* bound: submissions written
  MaxPosted   \* bound: completions posted when a drive or io_uring_enter begins

ASSUME IoUringAssumption ==
  /\ SqEntries \in Nat \ {0}
  /\ Modes \subseteq {"fifo", "reorder"}
  /\ MaxSqes \in Nat
  /\ MaxPosted \in Nat

VARIABLES
  sq,       \* the submission ring
  sqHead,
  sqTail,
  cq,       \* the completion ring
  cqTail,
  awaiting, \* the drives that wait, and how many entries each has written
  written,  \* how many submissions were written
  posted,   \* ghost: every completion ever posted, in order
  driven    \* ghost: the submissions completed by a drive

vars == <<sq, sqHead, sqTail, cq, cqTail, awaiting, written, posted, driven>>

-----------------------------------------------------------------------------
CqEntries == 2 * SqEntries

SqSlots == 0..(SqEntries - 1)
CqSlots == 0..(CqEntries - 1)

\* A drive that does not wait, or has written 0 and more entries.
NotAwaiting == -1

TypeOK ==
  /\ sq \in [SqSlots -> 0..MaxSqes]
  /\ sqHead \in Nat /\ sqTail \in Nat
  /\ cq \in [CqSlots -> 0..MaxSqes]
  /\ cqTail \in Nat
  /\ awaiting \in [Drives -> {NotAwaiting} \cup SqSlots \cup {SqEntries}]
  /\ written \in 0..MaxSqes
  /\ posted \in Seq(0..MaxSqes)
  /\ driven \subseteq 1..MaxSqes

\* Just after io_uring_setup.
Init ==
  /\ sq = [s \in SqSlots |-> 0]
  /\ sqHead = 0 /\ sqTail = 0
  /\ cq = [s \in CqSlots |-> 0]
  /\ cqTail = 0
  /\ awaiting = [d \in Drives |-> NotAwaiting]
  /\ written = 0
  /\ posted = <<>>
  /\ driven = {}

-----------------------------------------------------------------------------
\* The n submissions from position sqHead of the ring on, none for n < 0.
Batch(n) == [k \in 1..n |-> sq[(sqHead + k - 1) % SqEntries]]

\* The orders a batch may be completed in.  The shuffle of the code is one of
\* the permutations, which one depends on the length.
Orders(batch, mode) ==
  IF mode = "fifo" THEN {batch}
  ELSE {[k \in DOMAIN batch |-> batch[p[k]]] :
          p \in Bijection(DOMAIN batch, DOMAIN batch)}

\* Fault: the completion ring is taken to be as long as the other one.
CqSlotShort(position) == position % SqEntries

CqSlot(position) == position % CqEntries

\* The completions in done are written one after the other from cqTail on.
Post(done) ==
  LET n == Len(done)
      last(s) == {k \in 1..n : CqSlot(cqTail + k - 1) = s}
  IN  /\ cq' = [s \in CqSlots |->
                  IF last(s) = {} THEN cq[s] ELSE done[Max(last(s))]]
      /\ cqTail' = cqTail + n
      /\ posted' = posted \o done

-----------------------------------------------------------------------------
\* Guest code fills the slot at the tail and moves the tail, when it finds the
\* ring not full.
GuestQueues ==
  /\ written < MaxSqes
  /\ sqTail - sqHead < SqEntries
  /\ written' = written + 1
  /\ sq' = [sq EXCEPT ![sqTail % SqEntries] = written + 1]
  /\ sqTail' = sqTail + 1
  /\ UNCHANGED <<sqHead, cq, cqTail, awaiting, posted, driven>>

\* io_uring_enter completes as many submissions as it is asked to, whatever the
\* tail says, and does not move the head.
IoUringEnter(n) ==
  /\ Len(posted) <= MaxPosted
  /\ \E mode \in Modes : \E done \in Orders(Batch(n), mode) : Post(done)
  /\ UNCHANGED <<sq, sqHead, sqTail, awaiting, written, driven>>

\* sendFileOp writes the n entries of its input to the start of the ring, and
\* the tail with them; with no input it leaves both alone.
DriveBegins(d, n) ==
  /\ awaiting[d] = NotAwaiting
  /\ Len(posted) <= MaxPosted
  /\ written + n <= MaxSqes
  /\ awaiting' = [awaiting EXCEPT ![d] = n]
  /\ written' = written + n
  /\ sq' = [s \in SqSlots |-> IF s < n THEN written + s + 1 ELSE sq[s]]
  /\ sqTail' = IF n > 0 THEN n ELSE sqTail
  /\ UNCHANGED <<sqHead, cq, cqTail, posted, driven>>

\* Fault: the head stays where it was, as in io_uring_enter.
DriveSubmitsInPlace(d) ==
  /\ awaiting[d] # NotAwaiting
  /\ LET batch == Batch(sqTail - sqHead)
     IN  /\ \E mode \in Modes : \E done \in Orders(batch, mode) : Post(done)
         /\ driven' = driven \cup Range(batch)
  /\ awaiting' = [awaiting EXCEPT ![d] = NotAwaiting]
  /\ UNCHANGED <<sq, sqHead, sqTail, written>>

\* Fault: the drive takes its entries off the tail instead of moving the head.
DriveSubmitsTakesBack(d) ==
  /\ awaiting[d] # NotAwaiting
  /\ LET batch == Batch(sqTail - sqHead)
     IN  /\ \E mode \in Modes : \E done \in Orders(batch, mode) : Post(done)
         /\ driven' = driven \cup Range(batch)
  /\ sqTail' = sqTail - awaiting[d]
  /\ awaiting' = [awaiting EXCEPT ![d] = NotAwaiting]
  /\ UNCHANGED <<sq, sqHead, written>>

\* Back from the import: what lies between head and tail by now is completed.
DriveSubmits(d) ==
  /\ awaiting[d] # NotAwaiting
  /\ LET batch == Batch(sqTail - sqHead)
     IN  /\ \E mode \in Modes : \E done \in Orders(batch, mode) : Post(done)
         /\ driven' = driven \cup Range(batch)
  /\ sqHead' = sqTail
  /\ awaiting' = [awaiting EXCEPT ![d] = NotAwaiting]
  /\ UNCHANGED <<sq, sqTail, written>>

Next ==
  \/ GuestQueues
  \/ \E n \in 1..SqEntries : IoUringEnter(n)
  \/ \E d \in Drives, n \in 0..SqEntries : DriveBegins(d, n)
  \/ \E d \in Drives : DriveSubmits(d)

Spec == Init /\ [][Next]_vars

-----------------------------------------------------------------------------
(***************************************************************************)
(* Properties.                                                             *)
(***************************************************************************)

\* The completion ring always holds the last completions posted, in their
\* order, up to its length: a drive that waited, a second drive and
\* io_uring_enter neither overwrite nor skip what another has posted.
RingHoldsLog ==
  /\ cqTail = Len(posted)
  /\ \A p \in 0..(cqTail - 1) :
       p >= cqTail - CqEntries => cq[p % CqEntries] = posted[p + 1]

\* Drives complete a submission at most once and nothing that was never
\* written, although each of them resets the tail to the number of its own
\* entries and submits between a head and a tail that others moved meanwhile.
DrivenOnce ==
  [][\A d \in Drives : DriveSubmits(d) =>
       LET batch == Batch(sqTail - sqHead)
       IN  /\ IsInjective(batch)
           /\ Range(batch) \cap (driven \cup {0}) = {}]_vars

=============================================================================

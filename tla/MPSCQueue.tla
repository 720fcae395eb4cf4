----------------------------- MODULE MPSCQueue -----------------------------
(***************************************************************************)
(* common/ring_buffer.hpp, class MPSCQueue: the queue with a sequence      *)
(* number per cell that ADR-003 keeps for merging gateways.  emplace, both *)
(* overloads of push, and pop run the same loop over the index of their    *)
(* side: load it, compare the cell's sequence with it, claim the position  *)
(* with a compare-and-swap, use the cell, and hand it over by storing its  *)
(* next sequence.  Each of these is a step; threads interleave between     *)
(* them.                                                                   *)
(*                                                                         *)
(* Positions are size_t and count modulo 2^64, here modulo Modulus; a      *)
(* behaviour starts after Starts pushes and pops, so that the wrap is met. *)
(* It makes fewer than Modulus pushes: no thread sleeps through 2^64 of    *)
(* them between two of its steps.                                          *)
(***************************************************************************)
EXTENDS Integers, Sequences

CONSTANTS
  Producers, Consumer,  \* the threads that push, the thread that pops
  Values, Capacity,
  Modulus,              \* 2^64 in the code
  Starts,               \* positions a behaviour may start from
  MaxPushes             \* bound of the model: pushes begun after as many claims

VARIABLES
  sequence, data,       \* the fields of each Cell of buffer_
  write_idx, read_idx,
  pc, pos, value,       \* the next step and the locals of each thread
  delivered,            \* what the last pop that returned true gave its caller
  claimed, popped       \* history: pushes that own a position, pops that returned

shared == <<sequence, data, write_idx, read_idx>>
history == <<delivered, claimed, popped>>
vars == <<shared, pc, pos, value, history>>

Threads == Producers \cup {Consumer}
Cells == 0 .. Capacity - 1
Plus(i, n) == (i + n) % Modulus
CellOf(i) == i % Capacity

\* intptr_t(a) - intptr_t(b): a difference in the upper half is negative.
Signed(a, b) ==
  LET d == (a - b) % Modulus IN IF 2 * d >= Modulus THEN d - Modulus ELSE d

\* The cell at position start + k, k < Capacity, waits for the push that takes
\* that position; start = 0 is the constructor.
Init ==
  /\ \E start \in Starts :
       /\ write_idx = start /\ read_idx = start
       /\ sequence = [i \in Cells |-> Plus(start, (i - start) % Capacity)]
  /\ data = [i \in Cells |-> <<>>]
  /\ pc = [t \in Threads |-> "idle"]
  /\ pos = [t \in Threads |-> 0]
  /\ value = [t \in Threads |-> <<>>]
  /\ delivered = <<>> /\ claimed = 0 /\ popped = 0

Goto(t, label) == pc' = [pc EXCEPT ![t] = label]
-----------------------------------------------------------------------------
\* The index a thread works on.
IndexOf(t) == IF t = Consumer THEN read_idx ELSE write_idx
LoadIndex(t) == pos' = [pos EXCEPT ![t] = IndexOf(t)]

PushBegin(p, v) ==
  /\ pc[p] = "idle" /\ claimed < MaxPushes
  /\ value' = [value EXCEPT ![p] = <<v>>]
  /\ LoadIndex(p)
  /\ Goto(p, "compare")
  /\ UNCHANGED <<shared, history>>

PopBegin ==
  /\ pc[Consumer] = "idle"
  /\ LoadIndex(Consumer)
  /\ Goto(Consumer, "compare")
  /\ UNCHANGED <<shared, value, history>>

\* The sequence of a cell that is free for a push, or filled for a pop.
Awaited(t) == IF t = Consumer THEN Plus(pos[t], 1) ELSE pos[t]

\* Mutant: a cell that lags behind counts as free.
VerdictLoose(d) == IF d <= 0 THEN "claim" ELSE "reload"
\* The three cases: ours to claim, full or empty (return false), or taken by
\* another thread since the index was loaded.
Verdict(d) == IF d = 0 THEN "claim" ELSE IF d < 0 THEN "idle" ELSE "reload"

Compare(t) ==
  /\ pc[t] = "compare"
  /\ Goto(t, Verdict(Signed(sequence[CellOf(pos[t])], Awaited(t))))
  /\ UNCHANGED <<shared, pos, value, history>>

Reload(t) ==
  /\ pc[t] = "reload"
  /\ LoadIndex(t)
  /\ Goto(t, "compare")
  /\ UNCHANGED <<shared, value, history>>

\* compare_exchange_weak: on failure, which may be spurious, pos becomes the
\* value found and the loop goes on.
ClaimFails(t) ==
  /\ pc[t] = "claim"
  /\ LoadIndex(t)
  /\ Goto(t, "compare")
  /\ UNCHANGED <<shared, value, history>>

ClaimPush(p) ==
  /\ pc[p] = "claim" /\ pos[p] = write_idx
  /\ write_idx' = Plus(write_idx, 1)
  /\ claimed' = claimed + 1
  /\ Goto(p, "use")
  /\ UNCHANGED <<sequence, data, read_idx, pos, value, delivered, popped>>

ClaimPop ==
  /\ pc[Consumer] = "claim" /\ pos[Consumer] = read_idx
  /\ read_idx' = Plus(read_idx, 1)
  /\ Goto(Consumer, "use")
  /\ UNCHANGED <<sequence, data, write_idx, pos, value, history>>

\* The cell's data, which is not atomic, is assigned or moved out.
Fill(p) ==
  /\ pc[p] = "use"
  /\ data' = [data EXCEPT ![CellOf(pos[p])] = value[p]]
  /\ Goto(p, "store")
  /\ UNCHANGED <<sequence, write_idx, read_idx, pos, value, history>>

MoveOut ==
  /\ pc[Consumer] = "use"
  /\ value' = [value EXCEPT ![Consumer] = data[CellOf(pos[Consumer])]]
  /\ Goto(Consumer, "store")
  /\ UNCHANGED <<shared, pos, history>>

\* Mutant: the push does not hand its cell on.
PublishedAs(p) == pos[p]
Published(p) == Plus(pos[p], 1)

\* push returns true ...
Publish(p) ==
  /\ pc[p] = "store"
  /\ sequence' = [sequence EXCEPT ![CellOf(pos[p])] = Published(p)]
  /\ Goto(p, "idle")
  /\ UNCHANGED <<data, write_idx, read_idx, pos, value, history>>

\* ... and so does pop, with the cell free for the next lap.
Free ==
  /\ pc[Consumer] = "store"
  /\ sequence' = [sequence EXCEPT ![CellOf(pos[Consumer])] = Plus(pos[Consumer], Capacity)]
  /\ delivered' = value[Consumer]
  /\ popped' = popped + 1
  /\ Goto(Consumer, "idle")
  /\ UNCHANGED <<data, write_idx, read_idx, pos, value, claimed>>
-----------------------------------------------------------------------------
\* What a thread inside an operation may do next.
Step(t) == Compare(t) \/ Reload(t) \/ ClaimFails(t)
PushStep(p) == Step(p) \/ ClaimPush(p) \/ Fill(p) \/ Publish(p)
PopStep == Step(Consumer) \/ ClaimPop \/ MoveOut \/ Free

Next ==
  \/ \E p \in Producers : PushStep(p) \/ \E v \in Values : PushBegin(p, v)
  \/ PopBegin \/ PopStep

Spec == Init /\ [][Next]_vars
-----------------------------------------------------------------------------
\* Data-race freedom of Cell::data: a thread that uses a cell has it for itself,
\* whichever threads raced for it.
CellsExclusive ==
  \A t, u \in Threads :
    t # u /\ pc[t] = "use" /\ pc[u] = "use" => CellOf(pos[t]) # CellOf(pos[u])

\* The values pushed and not yet popped, oldest first.  A push counts from its
\* claim on, when it cannot fail any more; its value may still be on its way.
Using(t) == pc[t] \in {"use", "store"}
Oldest == IF Using(Consumer) THEN pos[Consumer] ELSE read_idx
ValueAt(i) ==
  IF \E p \in Producers : Using(p) /\ pos[p] = i
  THEN value[CHOOSE p \in Producers : Using(p) /\ pos[p] = i]
  ELSE data[CellOf(i)]
Contents ==
  [k \in 1 .. (write_idx - Oldest) % Modulus |->
     LET item == ValueAt(Plus(Oldest, k - 1)) IN IF item = <<>> THEN "none" ELSE item[1]]

Fifo == INSTANCE BoundedFifo WITH queue <- Contents

\* Also this queue is a bounded FIFO, in the order in which the producers
\* claimed their positions: nothing is lost, doubled, reordered or torn.
ImplementsFifo == Fifo!Spec

\* A push that has claimed its position is popped in the end: a slow producer
\* only delays those behind it.
ClaimedIsDelivered == \A n \in 1 .. MaxPushes : claimed >= n ~> popped >= n
=============================================================================

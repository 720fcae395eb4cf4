----------------------------- MODULE SPSCQueue -----------------------------
(***************************************************************************)
(* common/ring_buffer.hpp, class SPSCQueue: the ring buffer every thread   *)
(* of the exchange hands its work over with.  Each load and store of an    *)
(* index, and each access to a slot of buffer_, is a step of its own; the  *)
(* threads interleave between them.  The class is written for one producer *)
(* and one consumer; Producers and Consumers are sets so that the way the  *)
(* exchange really shares a queue can be instantiated too.                 *)
(*                                                                         *)
(* The indices are size_t and count modulo 2^64, here modulo Modulus.      *)
(***************************************************************************)
EXTENDS Integers, Sequences

CONSTANTS
  Producers, Consumers,  \* threads calling push/emplace, threads calling pop
  Values,                \* the items
  Capacity,              \* the template parameter
  Modulus,               \* 2^64 in the code
  MaxPushes              \* bound of the model: pushes accepted in a behaviour

\* static_assert(Capacity is a power of 2): it divides the range of size_t.
ASSUME CapacityAssumption ==
  /\ Capacity \in Nat \ {0}
  /\ Modulus \in Nat
  /\ Capacity < Modulus
  /\ Modulus % Capacity = 0
  /\ MaxPushes \in Nat

ASSUME ThreadAssumption == Producers \cap Consumers = {}

VARIABLES
  buffer,      \* buffer_: slot -> <<>> (never written) or <<value>>
  write_idx, read_idx,
  pc,          \* the next step of each thread
  curr_write, curr_read,  \* the locals of the operation a thread is in
  value,       \* the argument of push, or what pop has moved out of its slot
  delivered,   \* what the last pop that returned true gave its caller
  observed,    \* <<the result of size()>> until its caller's next push or pop
  pushed, popped  \* history: operations that returned true, not reduced

shared == <<buffer, write_idx, read_idx>>
local == <<pc, curr_write, curr_read, value>>
history == <<delivered, pushed, popped>>
vars == <<shared, local, observed, history>>

Threads == Producers \cup Consumers
Slot(i) == i % Capacity
Slots == 0 .. Capacity - 1
Indices == 0 .. Modulus - 1

\* size_t subtraction.
Distance(a, b) == (a - b) % Modulus

Init ==
  /\ buffer = [s \in Slots |-> <<>>]
  /\ write_idx = 0 /\ read_idx = 0
  /\ pc = [t \in Threads |-> "idle"]
  /\ curr_write = [t \in Threads |-> 0]
  /\ curr_read = [t \in Threads |-> 0]
  /\ value = [t \in Threads |-> <<>>]
  /\ delivered = <<>> /\ observed = [t \in Threads |-> <<>>]
  /\ pushed = 0 /\ popped = 0

Goto(t, label) == pc' = [pc EXCEPT ![t] = label]
-----------------------------------------------------------------------------
\* push(v): load write_idx_ ...
PushLoadWrite(p, v) ==
  /\ pc[p] = "idle"
  /\ pushed < MaxPushes
  /\ curr_write' = [curr_write EXCEPT ![p] = write_idx]
  /\ value' = [value EXCEPT ![p] = <<v>>]
  /\ observed' = [observed EXCEPT ![p] = <<>>]
  /\ Goto(p, "push_load_read")
  /\ UNCHANGED <<shared, curr_read, history>>

\* Mutant: one slot too many.
FullOffByOne(w, r) == Distance(w, r) > Capacity
Full(w, r) == Distance(w, r) >= Capacity

\* ... load read_idx_ and return false when the ring looks full ...
PushLoadRead(p) ==
  /\ pc[p] = "push_load_read"
  /\ curr_read' = [curr_read EXCEPT ![p] = read_idx]
  /\ IF Full(curr_write[p], read_idx) THEN Goto(p, "idle") ELSE Goto(p, "push_slot")
  /\ UNCHANGED <<shared, curr_write, value, observed, history>>

\* ... fill the slot ...
PushSlot(p) ==
  /\ pc[p] = "push_slot"
  /\ buffer' = [buffer EXCEPT ![Slot(curr_write[p])] = value[p]]
  /\ Goto(p, "push_store")
  /\ UNCHANGED <<write_idx, read_idx, curr_write, curr_read, value, observed, history>>

\* ... publish it and return true.
PushStore(p) ==
  /\ pc[p] = "push_store"
  /\ write_idx' = (curr_write[p] + 1) % Modulus
  /\ pushed' = pushed + 1
  /\ Goto(p, "idle")
  /\ UNCHANGED <<buffer, read_idx, curr_write, curr_read, value, delivered, observed, popped>>
-----------------------------------------------------------------------------
\* pop(value): load read_idx_ ...
PopLoadRead(c) ==
  /\ pc[c] = "idle"
  /\ curr_read' = [curr_read EXCEPT ![c] = read_idx]
  /\ observed' = [observed EXCEPT ![c] = <<>>]
  /\ Goto(c, "pop_load_write")
  /\ UNCHANGED <<shared, curr_write, value, history>>

\* Mutant: the last value is taken for an empty ring.
PopLoadWriteKeepsOne(c) ==
  /\ pc[c] = "pop_load_write"
  /\ curr_write' = [curr_write EXCEPT ![c] = write_idx]
  /\ IF Distance(write_idx, curr_read[c]) <= 1 THEN Goto(c, "idle") ELSE Goto(c, "pop_slot")
  /\ UNCHANGED <<shared, curr_read, value, observed, history>>

\* ... load write_idx_ and return false when the ring looks empty ...
PopLoadWrite(c) ==
  /\ pc[c] = "pop_load_write"
  /\ curr_write' = [curr_write EXCEPT ![c] = write_idx]
  /\ IF curr_read[c] = write_idx THEN Goto(c, "idle") ELSE Goto(c, "pop_slot")
  /\ UNCHANGED <<shared, curr_read, value, observed, history>>

\* ... move the value out of its slot (a moved-from slot is only written) ...
PopSlot(c) ==
  /\ pc[c] = "pop_slot"
  /\ value' = [value EXCEPT ![c] = buffer[Slot(curr_read[c])]]
  /\ Goto(c, "pop_store")
  /\ UNCHANGED <<shared, curr_write, curr_read, observed, history>>

\* ... free the slot and return true.
PopStore(c) ==
  /\ pc[c] = "pop_store"
  /\ read_idx' = (curr_read[c] + 1) % Modulus
  /\ delivered' = value[c]
  /\ popped' = popped + 1
  /\ Goto(c, "idle")
  /\ UNCHANGED <<buffer, write_idx, curr_write, curr_read, value, observed, pushed>>
-----------------------------------------------------------------------------
\* size(), and empty() which is size() == 0, as the code calls them: by the
\* producer or the consumer of the queue.  The two loads are relaxed, but one is
\* of the index that only the caller moves, so their order does not matter.
SizeLoadWrite(t) ==
  /\ pc[t] = "idle"
  /\ curr_write' = [curr_write EXCEPT ![t] = write_idx]
  /\ Goto(t, "size_load_read")
  /\ UNCHANGED <<shared, curr_read, value, observed, history>>

\* Mutant: the difference of the positions in the ring.
SizeOfSlots(w, r) == (Slot(w) - Slot(r)) % Capacity
SizeOf(w, r) == IF w >= r THEN w - r ELSE 0

SizeLoadRead(t) ==
  /\ pc[t] = "size_load_read"
  /\ curr_read' = [curr_read EXCEPT ![t] = read_idx]
  /\ observed' = [observed EXCEPT ![t] = <<SizeOf(curr_write[t], read_idx)>>]
  /\ Goto(t, "idle")
  /\ UNCHANGED <<shared, curr_write, value, history>>
-----------------------------------------------------------------------------
Push(p) ==
  \/ \E v \in Values : PushLoadWrite(p, v)
  \/ PushLoadRead(p) \/ PushSlot(p) \/ PushStore(p)
Pop(c) == PopLoadRead(c) \/ PopLoadWrite(c) \/ PopSlot(c) \/ PopStore(c)
Size(t) == SizeLoadWrite(t) \/ SizeLoadRead(t)

Next ==
  \/ \E p \in Producers : Push(p)
  \/ \E c \in Consumers : Pop(c)
  \/ \E t \in Threads : Size(t)

Spec == Init /\ [][Next]_vars
-----------------------------------------------------------------------------
PushPcs == {"push_load_read", "push_slot", "push_store"}
PopPcs == {"pop_load_write", "pop_slot", "pop_store"}
Items == {<<>>} \cup {<<v>> : v \in Values}

\* Every variable keeps its type; in particular an index stays a size_t.
TypeOK ==
  /\ buffer \in [Slots -> Items]
  /\ write_idx \in Indices /\ read_idx \in Indices
  /\ pc \in [Threads -> {"idle", "size_load_read"} \cup PushPcs \cup PopPcs]
  /\ curr_write \in [Threads -> Indices]
  /\ curr_read \in [Threads -> Indices]
  /\ value \in [Threads -> Items]
  /\ delivered \in Items
  /\ observed \in [Threads -> {<<>>} \cup {<<n>> : n \in Indices}]
  /\ pushed \in Nat /\ popped \in Nat

\* Data-race freedom of buffer_, whose slots are not atomic: two threads are
\* never at accesses of one slot of which one writes it.
NoSlotRace ==
  \A t, u \in Threads :
    t # u /\ pc[t] = "push_slot" =>
      /\ pc[u] = "push_slot" => Slot(curr_write[t]) # Slot(curr_write[u])
      /\ pc[u] = "pop_slot" => Slot(curr_write[t]) # Slot(curr_read[u])

\* size() errs on the safe side for the thread that called it, until its next
\* operation: as many items as the consumer was told of can be popped, and the
\* producer was told of all that are in the ring, at most Capacity.  The indices
\* are compared without their wrap, so this holds until the first one.
SizeIsConservative ==
  pushed < Modulus =>
    /\ \A c \in Consumers : observed[c] # <<>> => observed[c][1] <= pushed - popped
    /\ \A p \in Producers : observed[p] # <<>> => observed[p][1] \in pushed - popped .. Capacity

\* The values between the indices, oldest first.
Contents ==
  [i \in 1 .. Distance(write_idx, read_idx) |->
     buffer[Slot((read_idx + i - 1) % Modulus)][1]]

Fifo == INSTANCE BoundedFifo WITH queue <- Contents

\* The ring buffer is a bounded FIFO: no value is lost, duplicated, reordered
\* or delivered torn, whatever the interleaving of push and pop.
ImplementsFifo == Fifo!Spec

\* A value whose push returned true is eventually popped.
AcceptedIsDelivered == \A n \in 1 .. MaxPushes : pushed >= n ~> popped >= n
=============================================================================

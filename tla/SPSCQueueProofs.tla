-------------------------- MODULE SPSCQueueProofs ---------------------------
(***************************************************************************)
(* The ring buffer with one producer and one consumer, for every capacity, *)
(* every width of the indices and every number of pushes: it keeps its     *)
(* types, it is free of data races, and it implements the bounded FIFO.    *)
(***************************************************************************)
EXTENDS SPSCQueue, DataLemmas

OneOfEach ==
  /\ \A p, q \in Producers : p = q
  /\ \A c, d \in Consumers : c = d

\* The counters the indices are reductions of, and what a thread inside an
\* operation may rely on.
Counters ==
  /\ popped <= pushed /\ pushed <= popped + Capacity
  /\ write_idx = pushed % Modulus /\ read_idx = popped % Modulus

Filled == {<<v>> : v \in Values}

ProducerInv(p) ==
  /\ pc[p] \notin PopPcs
  /\ pc[p] \in PushPcs => curr_write[p] = write_idx /\ value[p] \in Filled
  /\ pc[p] \in {"push_slot", "push_store"} => pushed < popped + Capacity
  /\ pc[p] = "push_store" => buffer[pushed % Capacity] = value[p]

ConsumerInv(c) ==
  /\ pc[c] \notin PushPcs
  /\ pc[c] \in PopPcs => curr_read[c] = read_idx
  /\ pc[c] \in {"pop_slot", "pop_store"} => popped < pushed
  /\ pc[c] = "pop_store" => value[c] = buffer[popped % Capacity]

IInv ==
  /\ TypeOK
  /\ Counters
  /\ \A p \in Producers : ProducerInv(p)
  /\ \A c \in Consumers : ConsumerInv(c)
  /\ \A n \in popped .. pushed - 1 : buffer[n % Capacity] \in Filled
-----------------------------------------------------------------------------
\* The slot of an index is that of the counter behind it.
LEMMA SlotOfCounter ==
  ASSUME NEW n \in Nat
  PROVE  Slot(n % Modulus) = n % Capacity /\ n % Capacity \in Slots /\ n % Modulus \in Indices
<1>1. Modulus \in Nat \ {0} /\ Capacity \in Nat \ {0} /\ Modulus % Capacity = 0
  BY CapacityAssumption
<1> QED
  BY <1>1, ModMod, DivMod DEF Slot, Slots, Indices

\* What size() returns is an index.
LEMMA SizeIsIndex ==
  ASSUME NEW w \in Indices, NEW r \in Indices
  PROVE  SizeOf(w, r) \in Indices
  BY CapacityAssumption DEF SizeOf, Indices

\* Without the wrap the distance is that of the counters.
LEMMA DistanceOfCounters ==
  ASSUME NEW a \in Nat, NEW b \in Nat, b <= a, a <= b + Capacity
  PROVE  Distance(a % Modulus, b % Modulus) = a - b
<1>1. Modulus \in Nat \ {0} /\ a - b < Modulus
  BY CapacityAssumption
<1> QED
  BY <1>1, ModDistance DEF Distance

LEMMA InitIInv == Init => IInv
<1> SUFFICES ASSUME Init PROVE IInv
  OBVIOUS
<1>1. 0 % Modulus = 0
  BY CapacityAssumption, SMT
<1>2. TypeOK
  BY CapacityAssumption DEF Init, TypeOK, Items, Indices, PushPcs, PopPcs
<1>3. Counters
  BY <1>1, CapacityAssumption DEF Init, Counters
<1>4. \A n \in popped .. pushed - 1 : buffer[n % Capacity] \in Filled
  BY DEF Init
<1>5. \A p \in Producers : ProducerInv(p)
  BY DEF Init, ProducerInv, PushPcs, PopPcs, Threads
<1>6. \A c \in Consumers : ConsumerInv(c)
  BY DEF Init, ConsumerInv, PushPcs, PopPcs, Threads
<1> QED
  BY <1>2, <1>3, <1>4, <1>5, <1>6 DEF IInv

LEMMA StepIInv == OneOfEach /\ IInv /\ [Next]_vars => IInv'
<1> SUFFICES ASSUME OneOfEach, IInv, [Next]_vars PROVE IInv'
  OBVIOUS
<1> USE DEF IInv
<1> USE CapacityAssumption, ThreadAssumption
<1>1. ASSUME NEW p \in Producers, NEW v \in Values, PushLoadWrite(p, v)
      PROVE  IInv'
  <2>1. TypeOK'
    BY <1>1 DEF TypeOK, PushLoadWrite, Goto, shared, history, PushPcs, PopPcs, Threads, Items
  <2>2. UNCHANGED <<buffer, write_idx, read_idx, pushed, popped>>
    BY <1>1 DEF PushLoadWrite, shared, history
  <2>3. \A q \in Producers : ProducerInv(q)'
    BY <1>1, <2>2 DEF OneOfEach, TypeOK, ProducerInv, PushLoadWrite, Goto, PushPcs, PopPcs, Threads, Filled
  <2>4. \A d \in Consumers : ConsumerInv(d)'
    BY <1>1, <2>2 DEF OneOfEach, TypeOK, ConsumerInv, PushLoadWrite, Goto, PushPcs, PopPcs, Threads
  <2> QED
    BY <2>1, <2>2, <2>3, <2>4 DEF Counters
<1>2. ASSUME NEW p \in Producers, PushLoadRead(p)
      PROVE  IInv'
  <2>0. ~Full(curr_write[p], read_idx) => pushed < popped + Capacity
    <3>1. curr_write[p] = pushed % Modulus /\ read_idx = popped % Modulus
      BY <1>2 DEF ProducerInv, Counters, PushLoadRead, PushPcs
    <3>2. Distance(curr_write[p], read_idx) = pushed - popped
      BY <3>1, DistanceOfCounters DEF Counters, TypeOK
    <3> QED
      BY <3>2 DEF Full, TypeOK
  <2>1. TypeOK'
    BY <1>2 DEF TypeOK, PushLoadRead, Goto, shared, history, PushPcs, PopPcs, Threads, Items
  <2>2. UNCHANGED <<buffer, write_idx, read_idx, pushed, popped>>
    BY <1>2 DEF PushLoadRead, shared, history
  <2>3. \A q \in Producers : ProducerInv(q)'
    BY <1>2, <2>2, <2>0 DEF OneOfEach, TypeOK, ProducerInv, PushLoadRead, Goto, PushPcs, PopPcs, Threads, Filled
  <2>4. \A d \in Consumers : ConsumerInv(d)'
    BY <1>2, <2>2 DEF OneOfEach, TypeOK, ConsumerInv, PushLoadRead, Goto, PushPcs, PopPcs, Threads
  <2> QED
    BY <2>1, <2>2, <2>3, <2>4 DEF Counters
<1>3. ASSUME NEW p \in Producers, PushSlot(p)
      PROVE  IInv'
  <2>1. /\ pushed \in Nat /\ popped \in Nat /\ popped <= pushed /\ pushed < popped + Capacity
        /\ curr_write[p] = pushed % Modulus /\ value[p] \in Filled
    BY <1>3 DEF TypeOK, Counters, ProducerInv, PushSlot, PushPcs
  <2>2. Slot(curr_write[p]) = pushed % Capacity /\ pushed % Capacity \in Slots
    BY <2>1, SlotOfCounter
  <2>3. buffer' = [buffer EXCEPT ![pushed % Capacity] = value[p]]
    BY <1>3, <2>2 DEF PushSlot
  <2>4. \A n \in popped .. pushed - 1 :
          /\ n \in Nat /\ n % Capacity \in Slots
          /\ buffer'[n % Capacity] = buffer[n % Capacity]
    <3> SUFFICES ASSUME NEW n \in popped .. pushed - 1
                 PROVE  /\ n \in Nat /\ n % Capacity \in Slots
                        /\ buffer'[n % Capacity] = buffer[n % Capacity]
      OBVIOUS
    <3>1. n \in Nat /\ n < pushed /\ pushed - n < Capacity /\ Capacity \in Nat \ {0}
      BY <2>1
    <3>2. n % Capacity \in Slots
      BY <3>1, SlotOfCounter
    <3>3. pushed % Capacity # n % Capacity
      BY <2>1, <3>1, ModDistinct
    <3> QED
      BY <2>2, <2>3, <3>1, <3>2, <3>3 DEF TypeOK
  <2>5. UNCHANGED <<write_idx, read_idx, curr_write, curr_read, value, observed, delivered, pushed,
                    popped>>
    BY <1>3 DEF PushSlot, history
  <2>6. pc' = [pc EXCEPT ![p] = "push_store"]
    BY <1>3 DEF PushSlot, Goto
  <2>7. TypeOK'
    BY <2>1, <2>2, <2>3, <2>5, <2>6 DEF TypeOK, PushPcs, PopPcs, Items, Filled, Threads
  <2>8. \A q \in Producers : ProducerInv(q)'
    <3>1. buffer'[pushed % Capacity] = value[p]
      BY <2>2, <2>3 DEF TypeOK
    <3> QED
      BY <1>3, <2>1, <2>5, <2>6, <3>1
      DEF OneOfEach, TypeOK, ProducerInv, PushSlot, PushPcs, PopPcs, Threads
  <2>9. \A d \in Consumers : ConsumerInv(d)'
    <3> SUFFICES ASSUME NEW d \in Consumers PROVE ConsumerInv(d)'
      OBVIOUS
    <3>1. pc'[d] = pc[d] /\ d \in Threads
      BY <2>6 DEF TypeOK, Threads
    <3>2. popped < pushed => buffer'[popped % Capacity] = buffer[popped % Capacity]
      BY <2>1, <2>4
    <3> QED
      BY <2>5, <3>1, <3>2 DEF ConsumerInv
  <2> QED
    BY <2>4, <2>5, <2>7, <2>8, <2>9 DEF Counters
<1>4. ASSUME NEW p \in Producers, PushStore(p)
      PROVE  IInv'
  <2>1. /\ pushed \in Nat /\ popped \in Nat /\ popped <= pushed /\ pushed < popped + Capacity
        /\ curr_write[p] = pushed % Modulus /\ value[p] \in Filled
        /\ buffer[pushed % Capacity] = value[p]
    BY <1>4 DEF TypeOK, Counters, ProducerInv, PushStore, PushPcs
  <2>2. Modulus \in Nat \ {0}
    OBVIOUS
  <2>3. write_idx' = (pushed + 1) % Modulus
    BY <1>4, <2>1, <2>2, ModPlus DEF PushStore
  <2>4. write_idx' \in Indices
    <3>1. pushed + 1 \in Nat
      BY <2>1
    <3> QED
      BY <2>3, <3>1, SlotOfCounter
  <2>5. /\ pushed' = pushed + 1 /\ pc' = [pc EXCEPT ![p] = "idle"]
        /\ UNCHANGED <<buffer, read_idx, curr_write, curr_read, value, delivered, observed, popped>>
    BY <1>4 DEF PushStore, Goto
  <2>6. TypeOK'
    <3>1. pushed' \in Nat
      BY <2>1, <2>5
    <3>2. pc' \in [Threads -> {"idle", "size_load_read"} \cup PushPcs \cup PopPcs]
      BY <2>5 DEF TypeOK
    <3> QED
      BY <2>4, <2>5, <3>1, <3>2 DEF TypeOK
  <2>7. Counters'
    BY <2>1, <2>3, <2>5 DEF Counters
  <2>8. \A q \in Producers : ProducerInv(q)'
    BY <1>4, <2>5 DEF OneOfEach, TypeOK, ProducerInv, PushPcs, PopPcs, Threads
  <2>9. \A d \in Consumers : ConsumerInv(d)'
    <3> SUFFICES ASSUME NEW d \in Consumers PROVE ConsumerInv(d)'
      OBVIOUS
    <3>1. pc'[d] = pc[d]
      BY <2>5 DEF TypeOK, Threads
    <3> QED
      BY <2>1, <2>5, <3>1 DEF ConsumerInv
  <2>10. \A n \in popped' .. pushed' - 1 : buffer'[n % Capacity] \in Filled
    <3> SUFFICES ASSUME NEW n \in popped .. pushed PROVE buffer[n % Capacity] \in Filled
      BY <2>1, <2>5
    <3>1. CASE n = pushed
      BY <2>1, <3>1
    <3>2. CASE n # pushed
      <4>1. n \in popped .. pushed - 1
        BY <2>1, <3>2
      <4> QED
        BY <4>1
    <3> QED
      BY <3>1, <3>2
  <2> QED
    BY <2>6, <2>7, <2>8, <2>9, <2>10
<1>5. ASSUME NEW c \in Consumers, PopLoadRead(c)
      PROVE  IInv'
  <2>1. TypeOK'
    BY <1>5 DEF TypeOK, PopLoadRead, Goto, shared, history, PushPcs, PopPcs, Threads, Items
  <2>2. UNCHANGED <<buffer, write_idx, read_idx, pushed, popped>>
    BY <1>5 DEF PopLoadRead, shared, history
  <2>3. \A q \in Producers : ProducerInv(q)'
    BY <1>5, <2>2 DEF OneOfEach, TypeOK, ProducerInv, PopLoadRead, Goto, PushPcs, PopPcs, Threads, Filled
  <2>4. \A d \in Consumers : ConsumerInv(d)'
    BY <1>5, <2>2 DEF OneOfEach, TypeOK, ConsumerInv, PopLoadRead, Goto, PushPcs, PopPcs, Threads
  <2> QED
    BY <2>1, <2>2, <2>3, <2>4 DEF Counters
<1>6. ASSUME NEW c \in Consumers, PopLoadWrite(c)
      PROVE  IInv'
  <2>0. curr_read[c] # write_idx => popped < pushed
    BY <1>6 DEF ConsumerInv, Counters, TypeOK, PopLoadWrite, PopPcs
  <2>1. TypeOK'
    BY <1>6 DEF TypeOK, PopLoadWrite, Goto, shared, history, PushPcs, PopPcs, Threads, Items
  <2>2. UNCHANGED <<buffer, write_idx, read_idx, pushed, popped>>
    BY <1>6 DEF PopLoadWrite, shared, history
  <2>3. \A q \in Producers : ProducerInv(q)'
    BY <1>6, <2>2 DEF OneOfEach, TypeOK, ProducerInv, PopLoadWrite, Goto, PushPcs, PopPcs, Threads, Filled
  <2>4. \A d \in Consumers : ConsumerInv(d)'
    BY <1>6, <2>2, <2>0 DEF OneOfEach, TypeOK, ConsumerInv, PopLoadWrite, Goto, PushPcs, PopPcs, Threads
  <2> QED
    BY <2>1, <2>2, <2>3, <2>4 DEF Counters
<1>7. ASSUME NEW c \in Consumers, PopSlot(c)
      PROVE  IInv'
  <2>0. Slot(curr_read[c]) = popped % Capacity /\ popped % Capacity \in Slots
    BY <1>7, SlotOfCounter DEF ConsumerInv, Counters, TypeOK, PopSlot, PopPcs
  <2>1. TypeOK'
    BY <1>7, <2>0 DEF TypeOK, PopSlot, Goto, shared, history, PushPcs, PopPcs, Threads, Items
  <2>2. UNCHANGED <<buffer, write_idx, read_idx, pushed, popped>>
    BY <1>7 DEF PopSlot, shared, history
  <2>3. \A q \in Producers : ProducerInv(q)'
    BY <1>7, <2>2 DEF OneOfEach, TypeOK, ProducerInv, PopSlot, Goto, PushPcs, PopPcs, Threads, Filled
  <2>4. \A d \in Consumers : ConsumerInv(d)'
    BY <1>7, <2>2, <2>0 DEF OneOfEach, TypeOK, ConsumerInv, PopSlot, Goto, PushPcs, PopPcs, Threads
  <2> QED
    BY <2>1, <2>2, <2>3, <2>4 DEF Counters
<1>8. ASSUME NEW c \in Consumers, PopStore(c)
      PROVE  IInv'
  <2>1. /\ pushed \in Nat /\ popped \in Nat /\ popped < pushed /\ pushed <= popped + Capacity
        /\ curr_read[c] = popped % Modulus /\ value[c] \in Items
    BY <1>8 DEF TypeOK, Counters, ConsumerInv, PopStore, PopPcs, Threads
  <2>2. Modulus \in Nat \ {0}
    OBVIOUS
  <2>3. read_idx' = (popped + 1) % Modulus
    BY <1>8, <2>1, <2>2, ModPlus DEF PopStore
  <2>4. read_idx' \in Indices
    <3>1. popped + 1 \in Nat
      BY <2>1
    <3> QED
      BY <2>3, <3>1, SlotOfCounter
  <2>5. /\ popped' = popped + 1 /\ pc' = [pc EXCEPT ![c] = "idle"] /\ delivered' = value[c]
        /\ UNCHANGED <<buffer, write_idx, curr_write, curr_read, value, observed, pushed>>
    BY <1>8 DEF PopStore, Goto
  <2>6. TypeOK'
    <3>1. popped' \in Nat
      BY <2>1, <2>5
    <3>2. pc' \in [Threads -> {"idle", "size_load_read"} \cup PushPcs \cup PopPcs]
      BY <2>5 DEF TypeOK
    <3> QED
      BY <2>1, <2>4, <2>5, <3>1, <3>2 DEF TypeOK
  <2>7. Counters'
    BY <2>1, <2>3, <2>5 DEF Counters
  <2>8. \A q \in Producers : ProducerInv(q)'
    <3> SUFFICES ASSUME NEW q \in Producers PROVE ProducerInv(q)'
      OBVIOUS
    <3>1. pc'[q] = pc[q]
      BY <2>5 DEF TypeOK, Threads
    <3> QED
      BY <2>1, <2>5, <3>1 DEF ProducerInv
  <2>9. \A d \in Consumers : ConsumerInv(d)'
    BY <1>8, <2>5 DEF OneOfEach, TypeOK, ConsumerInv, PushPcs, PopPcs, Threads
  <2>10. \A n \in popped' .. pushed' - 1 : buffer'[n % Capacity] \in Filled
    BY <2>1, <2>5
  <2> QED
    BY <2>6, <2>7, <2>8, <2>9, <2>10
<1>9. ASSUME NEW t \in Threads, SizeLoadWrite(t)
      PROVE  IInv'
  <2>1. TypeOK'
    BY <1>9 DEF TypeOK, SizeLoadWrite, Goto, shared, history, PushPcs, PopPcs, Threads, Items
  <2>2. UNCHANGED <<buffer, write_idx, read_idx, pushed, popped>>
    BY <1>9 DEF SizeLoadWrite, shared, history
  <2>3. \A q \in Producers : ProducerInv(q)'
    BY <1>9, <2>2 DEF OneOfEach, TypeOK, ProducerInv, SizeLoadWrite, Goto, PushPcs, PopPcs, Threads, Filled
  <2>4. \A d \in Consumers : ConsumerInv(d)'
    BY <1>9, <2>2 DEF OneOfEach, TypeOK, ConsumerInv, SizeLoadWrite, Goto, PushPcs, PopPcs, Threads
  <2> QED
    BY <2>1, <2>2, <2>3, <2>4 DEF Counters
<1>10. ASSUME NEW t \in Threads, SizeLoadRead(t)
      PROVE  IInv'
  <2>0. SizeOf(curr_write[t], read_idx) \in Indices
    BY SizeIsIndex DEF TypeOK
  <2>1. TypeOK'
    BY <1>10, <2>0 DEF TypeOK, SizeLoadRead, Goto, shared, history, PushPcs, PopPcs, Threads, Items
  <2>2. UNCHANGED <<buffer, write_idx, read_idx, pushed, popped>>
    BY <1>10 DEF SizeLoadRead, shared, history
  <2>3. \A q \in Producers : ProducerInv(q)'
    BY <1>10, <2>2 DEF OneOfEach, TypeOK, ProducerInv, SizeLoadRead, Goto, PushPcs, PopPcs, Threads, Filled
  <2>4. \A d \in Consumers : ConsumerInv(d)'
    BY <1>10, <2>2 DEF OneOfEach, TypeOK, ConsumerInv, SizeLoadRead, Goto, PushPcs, PopPcs, Threads
  <2> QED
    BY <2>1, <2>2, <2>3, <2>4 DEF Counters
<1>11. CASE UNCHANGED vars
  BY <1>11 DEF vars, shared, local, history, TypeOK, Counters, ProducerInv, ConsumerInv
<1> QED
  BY <1>1, <1>2, <1>3, <1>4, <1>5, <1>6, <1>7, <1>8, <1>9, <1>10, <1>11
  DEF Next, Push, Pop, Size
-----------------------------------------------------------------------------
LEMMA InvariantIInv ==
  ASSUME OneOfEach
  PROVE  Spec => []IInv
<1>1. IInv /\ [Next]_vars => IInv'
  BY StepIInv
<1> QED
  BY <1>1, InitIInv, PTL DEF Spec

\* Every index stays a size_t and every slot holds a value or nothing, for any
\* capacity and number of pushes.
THEOREM TypeCorrect ==
  ASSUME OneOfEach
  PROVE  Spec => []TypeOK
<1>1. IInv => TypeOK
  BY DEF IInv
<1> QED
  BY <1>1, InvariantIInv, PTL

\* The producer never writes the slot that the consumer is reading, whatever
\* the two have read of each other's index and whether or not it has wrapped.
THEOREM RaceFree ==
  ASSUME OneOfEach
  PROVE  Spec => []NoSlotRace
<1>1. IInv => NoSlotRace
  <2> SUFFICES ASSUME IInv,
                      NEW t \in Threads, NEW u \in Threads, t # u, pc[t] = "push_slot"
               PROVE  /\ pc[u] = "push_slot" => Slot(curr_write[t]) # Slot(curr_write[u])
                      /\ pc[u] = "pop_slot" => Slot(curr_write[t]) # Slot(curr_read[u])
    BY DEF NoSlotRace
  <2>1. t \in Producers
    BY DEF IInv, ConsumerInv, Threads, PushPcs
  <2>2. pc[u] # "push_slot"
    BY <2>1 DEF IInv, ConsumerInv, Threads, PushPcs, OneOfEach
  <2>3. ASSUME pc[u] = "pop_slot"
        PROVE  Slot(curr_write[t]) # Slot(curr_read[u])
    <3>1. u \in Consumers
      BY <2>3 DEF IInv, ProducerInv, Threads, PopPcs
    <3>2. curr_write[t] = pushed % Modulus /\ pushed < popped + Capacity
      BY <2>1 DEF IInv, ProducerInv, Counters, PushPcs
    <3>3. curr_read[u] = popped % Modulus /\ popped < pushed
      BY <2>3, <3>1 DEF IInv, ConsumerInv, Counters, PopPcs
    <3>4. pushed \in Nat /\ popped \in Nat /\ Capacity \in Nat \ {0}
      BY CapacityAssumption DEF IInv, TypeOK
    <3>5. pushed - popped < Capacity
      BY <3>2, <3>4
    <3>6. pushed % Capacity # popped % Capacity
      BY <3>3, <3>4, <3>5, ModDistinct
    <3> QED
      BY <3>2, <3>3, <3>4, <3>6, SlotOfCounter
  <2> QED
    BY <2>2, <2>3
<1> QED
  BY <1>1, InvariantIInv, PTL
-----------------------------------------------------------------------------
\* What the refinement mapping shows of the ring.
Count == pushed - popped
Waiting(i) == buffer[(popped + i - 1) % Capacity][1]
ContentsFacts ==
  /\ Count \in 0 .. Capacity
  /\ Contents \in Seq(Values) /\ Len(Contents) = Count
  /\ \A i \in 1 .. Count : Contents[i] = Waiting(i)

LEMMA ContentsOfRing == IInv => ContentsFacts
<1> SUFFICES ASSUME IInv PROVE ContentsFacts
  OBVIOUS
<1>1. /\ pushed \in Nat /\ popped \in Nat /\ popped <= pushed /\ pushed <= popped + Capacity
      /\ write_idx = pushed % Modulus /\ read_idx = popped % Modulus
  BY DEF IInv, TypeOK, Counters
<1>2. Capacity \in Nat \ {0} /\ Modulus \in Nat \ {0}
  BY CapacityAssumption
<1>3. Count \in 0 .. Capacity
  BY <1>1, <1>2 DEF Count
<1>4. Distance(write_idx, read_idx) = Count
  BY <1>1, DistanceOfCounters DEF Count
<1>5. \A i \in 1 .. Count :
        /\ buffer[Slot((read_idx + i - 1) % Modulus)][1] = Waiting(i)
        /\ Waiting(i) \in Values
  <2> SUFFICES ASSUME NEW i \in 1 .. Count
               PROVE  /\ buffer[Slot((read_idx + i - 1) % Modulus)][1] = Waiting(i)
                      /\ Waiting(i) \in Values
    OBVIOUS
  <2>1. i - 1 \in Nat /\ popped + (i - 1) \in Nat /\ popped + (i - 1) \in popped .. pushed - 1
    BY <1>1, <1>2 DEF Count
  <2>2. (read_idx + (i - 1)) % Modulus = (popped + (i - 1)) % Modulus
    BY <1>1, <1>2, <2>1, ModPlus
  <2>3. Slot((read_idx + (i - 1)) % Modulus) = (popped + (i - 1)) % Capacity
    BY <2>1, <2>2, SlotOfCounter
  <2>4. read_idx + (i - 1) = read_idx + i - 1 /\ popped + (i - 1) = popped + i - 1
    BY <1>1, <2>1 DEF IInv, TypeOK, Indices
  <2>5. buffer[(popped + (i - 1)) % Capacity] \in Filled
    BY <2>1 DEF IInv
  <2> QED
    BY <2>3, <2>4, <2>5 DEF Waiting, Filled
<1>6. Contents = [i \in 1 .. Count |-> Waiting(i)]
  BY <1>3, <1>4, <1>5 DEF Contents
<1> HIDE DEF Count, Waiting, Contents
<1> QED
  BY <1>2, <1>3, <1>5, <1>6 DEF ContentsFacts
\* Sequences are equal when their elements are; what an element more or less at
\* an end makes of them.
LEMMA SameElements ==
  ASSUME NEW V, NEW s \in Seq(V), NEW t \in Seq(V), Len(t) = Len(s),
         \A i \in 1 .. Len(s) : t[i] = s[i]
  PROVE  t = s
  OBVIOUS

LEMMA SeqAppend ==
  ASSUME NEW V, NEW s \in Seq(V), NEW t \in Seq(V), NEW v \in V, Len(t) = Len(s) + 1,
         \A i \in 1 .. Len(s) : t[i] = s[i], t[Len(s) + 1] = v
  PROVE  t = Append(s, v)
  OBVIOUS

LEMMA SeqTail ==
  ASSUME NEW V, NEW s \in Seq(V), NEW t \in Seq(V), s # <<>>, Len(t) = Len(s) - 1,
         \A i \in 1 .. Len(t) : t[i] = s[i + 1]
  PROVE  t = Tail(s)
  OBVIOUS

\* The producer's store of write_idx_ is the abstract push.
LEMMA PushRefines ==
  ASSUME IInv, IInv', ContentsFacts, ContentsFacts', NEW p \in Producers, PushStore(p)
  PROVE  \E v \in Values : Fifo!Push(v)
<1>1. /\ pushed' = pushed + 1
      /\ UNCHANGED <<buffer, delivered, popped>>
  BY DEF PushStore
<1>2. /\ pushed \in Nat /\ popped \in Nat /\ popped <= pushed /\ pushed < popped + Capacity
      /\ value[p] \in Filled /\ buffer[pushed % Capacity] = value[p]
  BY DEF IInv, TypeOK, Counters, ProducerInv, PushStore, PushPcs
<1>3. PICK v \in Values : buffer[pushed % Capacity] = <<v>>
  BY <1>2 DEF Filled
<1>4. Count' = Count + 1 /\ Count \in Nat /\ Count < Capacity
  BY <1>1, <1>2, CapacityAssumption DEF Count
<1>5. \A i \in 1 .. Count : Waiting(i)' = Waiting(i)
  BY <1>1 DEF Waiting
<1>6. Waiting(Count)' = v
  <2>1. popped' + Count' - 1 = pushed
    BY <1>1, <1>2 DEF Count
  <2> QED
    BY <1>1, <1>3, <2>1 DEF Waiting
<1> HIDE DEF Count, Waiting, Contents
<1>7. /\ Contents \in Seq(Values) /\ Contents' \in Seq(Values)
      /\ Len(Contents) = Count /\ Len(Contents') = Len(Contents) + 1
  BY <1>4 DEF ContentsFacts
<1>8. \A i \in 1 .. Len(Contents) : Contents'[i] = Contents[i]
  BY <1>4, <1>5, <1>7 DEF ContentsFacts
<1>9. Contents'[Len(Contents) + 1] = v
  BY <1>4, <1>6, <1>7 DEF ContentsFacts
<1>10. Contents' = Append(Contents, v)
  BY <1>7, <1>8, <1>9, SeqAppend
<1> QED
  BY <1>1, <1>4, <1>7, <1>10 DEF Fifo!Push

\* The consumer's store of read_idx_ is the abstract pop.
LEMMA PopRefines ==
  ASSUME IInv, IInv', ContentsFacts, ContentsFacts', NEW c \in Consumers, PopStore(c)
  PROVE  Fifo!Pop
<1>1. /\ popped' = popped + 1 /\ delivered' = value[c]
      /\ UNCHANGED <<buffer, pushed>>
  BY DEF PopStore
<1>2. /\ pushed \in Nat /\ popped \in Nat /\ popped < pushed /\ pushed <= popped + Capacity
      /\ value[c] = buffer[popped % Capacity]
  BY DEF IInv, TypeOK, Counters, ConsumerInv, PopStore, PopPcs
<1>3. buffer[popped % Capacity] \in Filled
  <2>1. popped \in popped .. pushed - 1
    BY <1>2
  <2> QED
    BY <2>1 DEF IInv
<1>4. Count' = Count - 1 /\ Count \in Nat \ {0}
  BY <1>1, <1>2 DEF Count
<1>5. \A i \in 1 .. Count' : Waiting(i)' = Waiting(i + 1)
  <2> SUFFICES ASSUME NEW i \in 1 .. Count' PROVE Waiting(i)' = Waiting(i + 1)
    OBVIOUS
  <2>1. popped' + i - 1 = popped + (i + 1) - 1
    BY <1>1, <1>2, <1>4
  <2> QED
    BY <1>1, <2>1 DEF Waiting
<1>6. delivered' = <<Waiting(1)>>
  <2>1. popped + 1 - 1 = popped
    BY <1>2
  <2> QED
    BY <1>1, <1>2, <1>3, <2>1 DEF Waiting, Filled
<1> HIDE DEF Count, Waiting, Contents
<1>7. /\ Contents \in Seq(Values) /\ Contents' \in Seq(Values)
      /\ Len(Contents) = Count /\ Len(Contents') = Len(Contents) - 1 /\ Contents # <<>>
  BY <1>4 DEF ContentsFacts
<1>8. \A i \in 1 .. Len(Contents') : Contents'[i] = Contents[i + 1]
  BY <1>4, <1>5, <1>7 DEF ContentsFacts
<1>9. Contents' = Tail(Contents)
  BY <1>7, <1>8, SeqTail
<1>10. Head(Contents) = Waiting(1)
  BY <1>4, <1>7 DEF ContentsFacts
<1> QED
  BY <1>6, <1>7, <1>9, <1>10 DEF Fifo!Pop

\* Filling a slot that is not published yet changes nothing that can be seen.
LEMMA SlotRefines ==
  ASSUME IInv, ContentsFacts, ContentsFacts', NEW p \in Producers, PushSlot(p)
  PROVE  UNCHANGED <<Contents, delivered>>
<1>1. UNCHANGED <<pushed, popped, delivered>>
  BY DEF PushSlot, history
<1>2. /\ pushed \in Nat /\ popped \in Nat /\ popped <= pushed /\ pushed < popped + Capacity
      /\ curr_write[p] = pushed % Modulus /\ Capacity \in Nat \ {0}
  BY CapacityAssumption DEF IInv, TypeOK, Counters, ProducerInv, PushSlot, PushPcs
<1>3. buffer' = [buffer EXCEPT ![pushed % Capacity] = value[p]]
  BY <1>2, SlotOfCounter DEF PushSlot
<1>4. Count' = Count /\ Count \in Nat
  BY <1>1, <1>2 DEF Count
<1>5. \A i \in 1 .. Count : Waiting(i)' = Waiting(i)
  <2> SUFFICES ASSUME NEW i \in 1 .. Count PROVE Waiting(i)' = Waiting(i)
    OBVIOUS
  <2> DEFINE n == popped + i - 1
  <2>1. n \in Nat /\ n < pushed /\ pushed - n < Capacity
    BY <1>2 DEF Count
  <2>2. pushed % Capacity # n % Capacity
    BY <1>2, <2>1, ModDistinct
  <2>3. n % Capacity \in Slots
    BY <2>1, SlotOfCounter
  <2>4. buffer'[n % Capacity] = buffer[n % Capacity]
    BY <1>3, <2>2, <2>3 DEF IInv, TypeOK
  <2> QED
    BY <1>1, <2>4 DEF Waiting
<1> HIDE DEF Count, Waiting, Contents
<1>6. /\ Contents \in Seq(Values) /\ Contents' \in Seq(Values) /\ Len(Contents') = Len(Contents)
      /\ \A i \in 1 .. Len(Contents) : Contents'[i] = Contents[i]
  BY <1>4, <1>5 DEF ContentsFacts
<1> QED
  BY <1>1, <1>6, SameElements

\* The ring buffer implements the bounded FIFO: under the mapping that shows the
\* slots between the indices, each step is a push, a pop or nothing.
THEOREM QueueIsFifo ==
  ASSUME OneOfEach
  PROVE  Spec => ImplementsFifo
<1>1. Init => Fifo!Init
  <2> SUFFICES ASSUME Init PROVE Fifo!Init
    OBVIOUS
  <2>1. ContentsFacts /\ pushed = 0 /\ popped = 0
    BY InitIInv, ContentsOfRing DEF Init
  <2>2. Contents \in Seq(Values) /\ Len(Contents) = 0
    BY <2>1 DEF ContentsFacts, Count
  <2>3. Contents = <<>>
    BY <2>2
  <2> QED
    BY <2>3 DEF Init, Fifo!Init
<1>2. IInv /\ IInv' /\ ContentsFacts /\ ContentsFacts' /\ [Next]_vars => [Fifo!Next]_(Fifo!vars)
  <2> SUFFICES ASSUME IInv, IInv', ContentsFacts, ContentsFacts', [Next]_vars
               PROVE  [Fifo!Next]_(Fifo!vars)
    OBVIOUS
  <2>1. ASSUME NEW p \in Producers, PushStore(p) PROVE [Fifo!Next]_(Fifo!vars)
    BY <2>1, PushRefines DEF Fifo!Next
  <2>2. ASSUME NEW c \in Consumers, PopStore(c) PROVE [Fifo!Next]_(Fifo!vars)
    BY <2>2, PopRefines DEF Fifo!Next
  <2>3. ASSUME NEW p \in Producers, PushSlot(p) PROVE [Fifo!Next]_(Fifo!vars)
    BY <2>3, SlotRefines DEF Fifo!vars
  <2>4. ASSUME UNCHANGED <<shared, delivered>> PROVE [Fifo!Next]_(Fifo!vars)
    BY <2>4 DEF Fifo!vars, Contents, shared
  <2>5. ASSUME NEW p \in Producers, NEW v \in Values, PushLoadWrite(p, v)
        PROVE  UNCHANGED <<shared, delivered>>
    BY <2>5 DEF PushLoadWrite, history
  <2>6. ASSUME NEW p \in Producers, PushLoadRead(p) PROVE UNCHANGED <<shared, delivered>>
    BY <2>6 DEF PushLoadRead, history
  <2>7. ASSUME NEW c \in Consumers, PopLoadRead(c) \/ PopLoadWrite(c) \/ PopSlot(c)
        PROVE  UNCHANGED <<shared, delivered>>
    BY <2>7 DEF PopLoadRead, PopLoadWrite, PopSlot, history
  <2>8. ASSUME NEW t \in Threads, Size(t) PROVE UNCHANGED <<shared, delivered>>
    BY <2>8 DEF Size, SizeLoadWrite, SizeLoadRead, history
  <2>9. CASE UNCHANGED vars
    BY <2>4, <2>9 DEF vars, history
  <2> QED
    BY <2>1, <2>2, <2>3, <2>4, <2>5, <2>6, <2>7, <2>8, <2>9 DEF Next, Push, Pop
<1> QED
  BY <1>1, <1>2, InvariantIInv, ContentsOfRing, PTL DEF Spec, ImplementsFifo, Fifo!Spec
-----------------------------------------------------------------------------
\* What size() told its caller is kept up to date by nobody; it stays on the safe
\* side because only the caller moves the index that could make it wrong.
Resting(t) == pc[t] \in {"idle", "size_load_read"}
ConsumerSize(c) ==
  /\ pc[c] = "size_load_read" => curr_write[c] <= pushed
  /\ observed[c] # <<>> => Resting(c) /\ observed[c][1] <= pushed - popped
ProducerSize(p) ==
  /\ pc[p] = "size_load_read" => curr_write[p] = pushed
  /\ observed[p] # <<>> => Resting(p) /\ observed[p][1] \in pushed - popped .. Capacity
SizeInv ==
  pushed < Modulus =>
    (\A c \in Consumers : ConsumerSize(c)) /\ (\A p \in Producers : ProducerSize(p))

\* Before the first wrap an index is its counter.
LEMMA NoWrap ==
  ASSUME IInv, pushed < Modulus
  PROVE  write_idx = pushed /\ read_idx = popped
<1>1. \A n \in 0 .. Modulus - 1 : n % Modulus = n
  <2> SUFFICES ASSUME NEW n \in 0 .. Modulus - 1 PROVE n % Modulus = n
    OBVIOUS
  <2>1. Modulus \in Nat \ {0} /\ (Modulus * 0 + n) % Modulus = n
    BY CapacityAssumption, ModUnique
  <2> QED
    BY <2>1
<1>2. pushed \in 0 .. Modulus - 1 /\ popped \in 0 .. Modulus - 1
  BY CapacityAssumption DEF IInv, TypeOK, Counters
<1> QED
  BY <1>1, <1>2 DEF IInv, Counters

LEMMA StepSizeInv == OneOfEach /\ IInv /\ SizeInv /\ [Next]_vars => SizeInv'
<1> SUFFICES ASSUME OneOfEach, IInv, SizeInv, [Next]_vars, pushed' < Modulus
             PROVE  /\ \A c \in Consumers : ConsumerSize(c)'
                    /\ \A p \in Producers : ProducerSize(p)'
  BY DEF SizeInv
<1>1. /\ pushed \in Nat /\ popped \in Nat /\ popped <= pushed /\ pushed <= popped + Capacity
      /\ Capacity \in Nat /\ Modulus \in Nat
  BY CapacityAssumption DEF IInv, TypeOK, Counters
<1>2. pushed < Modulus
  <2>1. pushed' = pushed \/ pushed' = pushed + 1
    BY DEF Next, Push, Pop, Size, PushLoadWrite, PushLoadRead, PushSlot, PushStore, PopLoadRead,
           PopLoadWrite, PopSlot, PopStore, SizeLoadWrite, SizeLoadRead, vars, history
  <2> QED
    BY <1>1, <2>1
<1>3. write_idx = pushed /\ read_idx = popped
  BY <1>2, NoWrap
<1>4. /\ \A c \in Consumers : ConsumerSize(c)
      /\ \A p \in Producers : ProducerSize(p)
  BY <1>2 DEF SizeInv
<1>5. ASSUME NEW p \in Producers, Push(p)
      PROVE  /\ \A c \in Consumers : ConsumerSize(c)'
             /\ \A q \in Producers : ProducerSize(q)'
  <2>1. /\ popped' = popped /\ (pushed' = pushed \/ pushed' = pushed + 1)
        /\ \A c \in Consumers :
             /\ pc'[c] = pc[c] /\ curr_write'[c] = curr_write[c] /\ observed'[c] = observed[c]
    BY <1>5, ThreadAssumption
    DEF IInv, TypeOK, Threads, Goto, Push, PushLoadWrite, PushLoadRead, PushSlot, PushStore, history
  <2>2. \A c \in Consumers : ConsumerSize(c)'
    <3> SUFFICES ASSUME NEW c \in Consumers PROVE ConsumerSize(c)'
      OBVIOUS
    <3>1. curr_write[c] \in Nat /\ (observed[c] # <<>> => observed[c][1] \in Nat)
      BY CapacityAssumption DEF IInv, TypeOK, Threads, Indices
    <3> QED
      BY <1>1, <1>4, <2>1, <3>1 DEF ConsumerSize, Resting
  <2>3. observed'[p] = <<>> /\ pc'[p] # "size_load_read"
    <3>1. p \in Threads /\ pc \in [Threads -> {"idle", "size_load_read"} \cup PushPcs \cup PopPcs]
          /\ observed \in [Threads -> {<<>>} \cup {<<n>> : n \in Indices}]
      BY DEF IInv, TypeOK, Threads
    <3>2. pc[p] \in {"push_load_read", "push_slot", "push_store"} => observed[p] = <<>>
      BY <1>4 DEF ProducerSize, Resting
    <3> QED
      BY <1>5, <3>1, <3>2
      DEF Goto, Push, PushLoadWrite, PushLoadRead, PushSlot, PushStore, history
  <2>4. \A q \in Producers : ProducerSize(q)'
    BY <2>3 DEF OneOfEach, ProducerSize
  <2> QED
    BY <2>2, <2>4
<1>6. ASSUME NEW c \in Consumers, Pop(c)
      PROVE  /\ \A d \in Consumers : ConsumerSize(d)'
             /\ \A p \in Producers : ProducerSize(p)'
  <2>1. /\ pushed' = pushed /\ (popped' = popped \/ popped' = popped + 1)
        /\ \A p \in Producers :
             /\ pc'[p] = pc[p] /\ curr_write'[p] = curr_write[p] /\ observed'[p] = observed[p]
    BY <1>6, ThreadAssumption
    DEF IInv, TypeOK, Threads, Goto, Pop, PopLoadRead, PopLoadWrite, PopSlot, PopStore, history
  <2>2. \A p \in Producers : ProducerSize(p)'
    <3> SUFFICES ASSUME NEW p \in Producers PROVE ProducerSize(p)'
      OBVIOUS
    <3>1. observed[p] # <<>> => observed[p][1] \in Nat
      BY CapacityAssumption DEF IInv, TypeOK, Threads, Indices
    <3> QED
      BY <1>1, <1>4, <2>1, <3>1 DEF ProducerSize, Resting
  <2>3. observed'[c] = <<>> /\ pc'[c] # "size_load_read"
    <3>1. c \in Threads /\ pc \in [Threads -> {"idle", "size_load_read"} \cup PushPcs \cup PopPcs]
          /\ observed \in [Threads -> {<<>>} \cup {<<n>> : n \in Indices}]
      BY DEF IInv, TypeOK, Threads
    <3>2. pc[c] \in {"pop_load_write", "pop_slot", "pop_store"} => observed[c] = <<>>
      BY <1>4 DEF ConsumerSize, Resting
    <3> QED
      BY <1>6, <3>1, <3>2
      DEF Goto, Pop, PopLoadRead, PopLoadWrite, PopSlot, PopStore, history
  <2>4. \A d \in Consumers : ConsumerSize(d)'
    BY <2>3 DEF OneOfEach, ConsumerSize
  <2> QED
    BY <2>2, <2>4
<1>7. ASSUME NEW t \in Threads, SizeLoadWrite(t)
      PROVE  /\ \A c \in Consumers : ConsumerSize(c)'
             /\ \A p \in Producers : ProducerSize(p)'
  <2>1. /\ pushed' = pushed /\ popped' = popped /\ observed' = observed /\ pc[t] = "idle"
        /\ pc' = [pc EXCEPT ![t] = "size_load_read"]
        /\ curr_write' = [curr_write EXCEPT ![t] = pushed]
    BY <1>3, <1>7 DEF SizeLoadWrite, Goto, history
  <2> QED
    BY <1>1, <1>4, <2>1 DEF IInv, TypeOK, Threads, ConsumerSize, ProducerSize, Resting
<1>8. ASSUME NEW t \in Threads, SizeLoadRead(t)
      PROVE  /\ \A c \in Consumers : ConsumerSize(c)'
             /\ \A p \in Producers : ProducerSize(p)'
  <2> DEFINE n == SizeOf(curr_write[t], popped)
  <2>1. /\ pushed' = pushed /\ popped' = popped /\ curr_write' = curr_write
        /\ pc[t] = "size_load_read" /\ pc' = [pc EXCEPT ![t] = "idle"]
        /\ observed' = [observed EXCEPT ![t] = <<n>>]
    BY <1>3, <1>8 DEF SizeLoadRead, Goto, history
  <2>2. curr_write[t] \in Nat
    BY CapacityAssumption DEF IInv, TypeOK, Indices
  <2>3. t \in Consumers => n <= pushed - popped
    BY <1>1, <1>4, <2>1, <2>2 DEF ConsumerSize, SizeOf
  <2>4. t \in Producers => n \in pushed - popped .. Capacity
    BY <1>1, <1>4, <2>1, <2>2 DEF ProducerSize, SizeOf
  <2> HIDE DEF n
  <2> QED
    BY <1>4, <2>1, <2>3, <2>4 DEF IInv, TypeOK, Threads, ConsumerSize, ProducerSize, Resting
<1>9. CASE UNCHANGED vars
  BY <1>4, <1>9 DEF vars, shared, local, history, ConsumerSize, ProducerSize, Resting
<1> QED
  BY <1>5, <1>6, <1>7, <1>8, <1>9 DEF Next, Size

\* Until the first wrap of the indices, size() never promises the consumer an
\* item that is not there, nor the producer a free slot that is not there.
THEOREM SizeSafe ==
  ASSUME OneOfEach
  PROVE  Spec => []SizeIsConservative
<1>1. Init => SizeInv
  BY DEF Init, SizeInv, ConsumerSize, ProducerSize, Threads
<1>2. IInv /\ SizeInv /\ [Next]_vars => SizeInv'
  BY StepSizeInv
<1>3. SizeInv => SizeIsConservative
  BY DEF SizeInv, ConsumerSize, ProducerSize, SizeIsConservative
<1> QED
  BY <1>1, <1>2, <1>3, InvariantIInv, PTL DEF Spec
=============================================================================

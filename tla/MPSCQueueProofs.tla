-------------------------- MODULE MPSCQueueProofs ---------------------------
(***************************************************************************)
(* The queue with several producers, for every number of them, every       *)
(* capacity from 2 on and every width of the positions: no two threads     *)
(* ever use a cell at the same time.                                       *)
(***************************************************************************)
EXTENDS MPSCQueue, DataLemmas

\* The static_assert of the class also admits a capacity of 1, for which the
\* sequence of a filled cell is the one that the next push waits for.
SoundConstants ==
  /\ Capacity \in Nat /\ Capacity >= 2
  /\ Modulus \in Nat /\ Capacity < Modulus /\ Modulus % Capacity = 0
  /\ Starts \subseteq 0 .. Modulus - 1
  /\ Consumer \notin Producers

\* The position of the k-th push (and pop) of a behaviour that starts at s, and
\* its cell.
Position(s, k) == (s + k) % Modulus
Cell(s, k) == (s + k) % Capacity

Labels == {"idle", "compare", "reload", "claim", "use", "store"}
Looping(t) == pc[t] \in {"compare", "reload", "claim"}

\* The pops that own a position: those that returned, and one that is under way.
Taken == IF Using(Consumer) THEN popped + 1 ELSE popped

Types ==
  /\ pc \in [Threads -> Labels]
  /\ pos \in [Threads -> 0 .. Modulus - 1]
  /\ sequence \in [Cells -> 0 .. Modulus - 1]
  /\ claimed \in Nat /\ popped \in Nat

Counters(s) ==
  /\ write_idx = Position(s, claimed) /\ read_idx = Position(s, Taken)
  /\ Taken <= claimed /\ claimed <= popped + Capacity

\* The cells of the current lap: free ones wait for their push, the others are
\* being filled or are filled.
Lap(s) ==
  \A k \in popped .. popped + Capacity - 1 :
    \/ sequence[Cell(s, k)] = Position(s, k)
    \/ k < claimed /\ sequence[Cell(s, k)] = Position(s, k + 1)

\* A producer that owns a position has not handed its cell on, and is its only
\* owner.
OwnerInv(s) ==
  /\ \A p \in Producers : Using(p) =>
       \E k \in Taken .. claimed - 1 :
         pos[p] = Position(s, k) /\ sequence[Cell(s, k)] = Position(s, k)
  /\ \A p, q \in Producers : p # q /\ Using(p) /\ Using(q) => pos[p] # pos[q]

\* A producer in the loop has some position, perhaps an old one; if it found the
\* cell free and the position is still the next, there is room.
ProducerInv(s) ==
  \A p \in Producers : Looping(p) =>
    \E j \in 0 .. claimed :
      /\ pos[p] = Position(s, j)
      /\ pc[p] = "claim" /\ j = claimed => claimed < popped + Capacity

ConsumerInv(s) ==
  /\ pc[Consumer] # "idle" => pos[Consumer] = Position(s, popped)
  /\ pc[Consumer] = "claim" => sequence[Cell(s, popped)] = Position(s, popped + 1)

InvFrom(s) == Types /\ Counters(s) /\ Lap(s) /\ OwnerInv(s) /\ ProducerInv(s) /\ ConsumerInv(s)

\* No thread sleeps through as many pushes as there are positions.
IInv == claimed \in Nat /\ (claimed < Modulus => \E s \in Nat : InvFrom(s))
-----------------------------------------------------------------------------
LEMMA PositionFacts ==
  ASSUME SoundConstants, NEW s \in Nat, NEW k \in Nat
  PROVE  /\ Position(s, k) \in 0 .. Modulus - 1 /\ Cell(s, k) \in Cells
         /\ CellOf(Position(s, k)) = Cell(s, k)
         /\ \A n \in Nat : Plus(Position(s, k), n) = Position(s, k + n)
<1>1. Modulus \in Nat \ {0} /\ Capacity \in Nat \ {0} /\ Modulus % Capacity = 0 /\ s + k \in Nat
  BY DEF SoundConstants
<1>2. (s + k) % Modulus \in 0 .. Modulus - 1 /\ (s + k) % Capacity \in 0 .. Capacity - 1
  BY <1>1, DivMod
<1>3. ((s + k) % Modulus) % Capacity = (s + k) % Capacity
  BY <1>1, ModMod
<1>4. ASSUME NEW n \in Nat PROVE Plus(Position(s, k), n) = Position(s, k + n)
  <2>1. (((s + k) % Modulus) + n) % Modulus = ((s + k) + n) % Modulus
    BY <1>1, ModPlus
  <2>2. (s + k) + n = s + (k + n)
    OBVIOUS
  <2> QED
    BY <2>1, <2>2 DEF Plus, Position
<1> QED
  BY <1>2, <1>3, <1>4 DEF Position, Cell, Cells, CellOf

\* Positions less than Modulus apart are different, and so are cells less than
\* Capacity apart.
LEMMA PositionsDiffer ==
  ASSUME SoundConstants, NEW s \in Nat, NEW k \in Nat, NEW n \in Nat, k < n
  PROVE  /\ n - k < Modulus => Position(s, k) # Position(s, n)
         /\ n - k < Capacity => Cell(s, k) # Cell(s, n)
<1>1. Modulus \in Nat \ {0} /\ Capacity \in Nat \ {0}
  BY DEF SoundConstants
<1>2. s + k \in Nat /\ s + n \in Nat /\ s + k < s + n /\ (s + n) - (s + k) = n - k
  OBVIOUS
<1>3. ASSUME n - k < Modulus PROVE (s + n) % Modulus # (s + k) % Modulus
  BY <1>1, <1>2, <1>3, ModDistinct
<1>4. ASSUME n - k < Capacity PROVE (s + n) % Capacity # (s + k) % Capacity
  BY <1>1, <1>2, <1>4, ModDistinct
<1> QED
  BY <1>3, <1>4 DEF Position, Cell

\* A position of the next lap has the same cell.
LEMMA CellRecurs ==
  ASSUME SoundConstants, NEW s \in Nat, NEW k \in Nat
  PROVE  Cell(s, k + Capacity) = Cell(s, k)
<1>1. s + k \in Nat /\ Capacity \in Nat \ {0}
  BY DEF SoundConstants
<1> DEFINE r == (s + k) % Capacity
           q == (s + k) \div Capacity
<1>2. r \in 0 .. Capacity - 1 /\ q \in Nat /\ s + k = q * Capacity + r
  BY <1>1, DivMod
<1> HIDE DEF r, q
<1>3. q + 1 \in Int /\ s + (k + Capacity) = Capacity * (q + 1) + r
  BY <1>1, <1>2
<1>4. (Capacity * (q + 1) + r) % Capacity = r
  BY <1>1, <1>2, <1>3, ModUnique
<1> QED
  BY <1>3, <1>4 DEF Cell, r

\* The signed difference is 0 only for equal positions.
LEMMA SignedZero ==
  ASSUME SoundConstants, NEW a \in 0 .. Modulus - 1, NEW b \in 0 .. Modulus - 1,
         Verdict(Signed(a, b)) = "claim"
  PROVE  a = b
<1> DEFINE d == (a - b) % Modulus
<1>1. Modulus \in Nat \ {0} /\ a - b \in Int
  BY DEF SoundConstants
<1>2. d \in 0 .. Modulus - 1
  BY <1>1
<1>3. Signed(a, b) = 0
  BY DEF Verdict
<1>4. d = 0
  BY <1>1, <1>2, <1>3 DEF Signed
<1>5. CASE a >= b
  <2>1. a - b \in 0 .. Modulus - 1
    BY <1>1, <1>5
  <2>2. (Modulus * 0 + (a - b)) % Modulus = a - b
    BY <1>1, <2>1, ModUnique
  <2>3. Modulus * 0 + (a - b) = a - b
    BY <1>1
  <2> QED
    BY <1>1, <1>4, <2>2, <2>3
<1>6. CASE a < b
  <2>1. a - b + Modulus \in 0 .. Modulus - 1
    BY <1>1, <1>6
  <2>2. (Modulus * (-1) + (a - b + Modulus)) % Modulus = a - b + Modulus
    BY <1>1, <2>1, ModUnique
  <2>3. Modulus * (-1) + (a - b + Modulus) = a - b
    BY <1>1
  <2> QED
    BY <1>1, <1>4, <1>6, <2>2, <2>3
<1> QED
  BY <1>1, <1>5, <1>6
-----------------------------------------------------------------------------
LEMMA InitInv ==
  ASSUME SoundConstants, Init
  PROVE  IInv
<1>1. PICK s \in Starts : /\ write_idx = s /\ read_idx = s
                          /\ sequence = [i \in Cells |-> Plus(s, (i - s) % Capacity)]
  BY DEF Init
<1>2. s \in Nat /\ s < Modulus /\ claimed = 0 /\ popped = 0 /\ Capacity \in Nat \ {0}
      /\ Modulus \in Nat \ {0}
  BY DEF Init, SoundConstants
<1>3. s % Modulus = s
  <2>1. (Modulus * 0 + s) % Modulus = s
    BY <1>2, ModUnique
  <2> QED
    BY <1>2, <2>1
<1>4. \A t \in Threads : pc[t] = "idle"
  BY DEF Init
<1>5. Consumer \in Threads /\ Producers \subseteq Threads
  BY DEF Threads
<1>6. Types
  <2>1. \A i \in Cells : Plus(s, (i - s) % Capacity) \in 0 .. Modulus - 1
    <3> SUFFICES ASSUME NEW i \in Cells PROVE Plus(s, (i - s) % Capacity) \in 0 .. Modulus - 1
      OBVIOUS
    <3>1. (i - s) % Capacity \in Nat
      BY <1>2 DEF Cells
    <3>2. s + ((i - s) % Capacity) \in Nat
      BY <1>2, <3>1
    <3> QED
      BY <1>2, <3>2, DivMod DEF Plus
  <2> QED
    BY <1>1, <1>2, <2>1 DEF Types, Init, Labels, Threads
<1>7. Counters(s)
  BY <1>1, <1>2, <1>3, <1>4, <1>5 DEF Counters, Position, Taken, Using
<1>8. Lap(s)
  <2> SUFFICES ASSUME NEW k \in 0 .. Capacity - 1
               PROVE  sequence[Cell(s, k)] = Position(s, k)
    BY <1>2 DEF Lap
  <2>1. k \in Nat /\ Cell(s, k) \in Cells
    BY <1>2, PositionFacts
  <2> DEFINE c == (s + k) % Capacity
             q == (s + k) \div Capacity
  <2>2. c \in 0 .. Capacity - 1 /\ q \in Nat /\ s + k = q * Capacity + c
    <3>1. s + k \in Nat
      BY <1>2, <2>1
    <3> QED
      BY <1>2, <3>1, DivMod
  <2> HIDE DEF c, q
  <2>3. c - s = Capacity * (-q) + k
    BY <1>2, <2>1, <2>2
  <2>4. (c - s) % Capacity = k
    BY <1>2, <2>2, <2>3, ModUnique
  <2> QED
    BY <1>1, <2>1, <2>4 DEF Cell, c, Plus, Position
<1>9. OwnerInv(s) /\ ProducerInv(s) /\ ConsumerInv(s)
  BY <1>4, <1>5 DEF OwnerInv, ProducerInv, ConsumerInv, Using, Looping
<1> QED
  BY <1>2, <1>6, <1>7, <1>8, <1>9 DEF IInv, InvFrom
-----------------------------------------------------------------------------
\* A producer loads write_idx: to begin, again, or when its claim fails.
LEMMA ProducerLoads ==
  ASSUME SoundConstants, NEW s \in Nat, InvFrom(s), NEW p \in Producers, ~Using(p),
         pos' = [pos EXCEPT ![p] = write_idx], pc' = [pc EXCEPT ![p] = "compare"],
         UNCHANGED <<sequence, write_idx, read_idx, claimed, popped>>
  PROVE  InvFrom(s)'
<1>1. p # Consumer /\ p \in Threads /\ Consumer \in Threads /\ Producers \subseteq Threads
  BY DEF SoundConstants, Threads
<1>2. write_idx = Position(s, claimed) /\ claimed \in Nat /\ popped \in Nat
      /\ write_idx \in 0 .. Modulus - 1
  BY PositionFacts DEF InvFrom, Counters, Types
<1>3. /\ pc'[p] = "compare" /\ pos'[p] = Position(s, claimed)
      /\ \A t \in Threads \ {p} : pc'[t] = pc[t] /\ pos'[t] = pos[t]
  BY <1>1, <1>2 DEF InvFrom, Types
<1>4. Types'
  BY <1>2 DEF InvFrom, Types, Labels
<1>5. Taken' = Taken /\ \A t \in Threads : Using(t)' <=> Using(t)
  BY <1>1, <1>3 DEF Taken, Using
<1>6. Counters(s)' /\ Lap(s)' /\ OwnerInv(s)'
  <2>1. Counters(s)' /\ Lap(s)'
    BY <1>5 DEF InvFrom, Counters, Lap, Position, Cell
  <2>2. \A q \in Producers : Using(q)' => Using(q) /\ q # p /\ pos'[q] = pos[q]
    BY <1>1, <1>3, <1>5
  <2> QED
    BY <1>5, <2>1, <2>2 DEF InvFrom, OwnerInv, Position, Cell
<1>7. ProducerInv(s)'
  <2> SUFFICES ASSUME NEW q \in Producers, Looping(q)'
               PROVE  \E j \in 0 .. claimed :
                        /\ pos'[q] = Position(s, j)
                        /\ pc'[q] = "claim" /\ j = claimed => claimed < popped + Capacity
    BY DEF ProducerInv, Position
  <2>1. CASE q = p
    BY <1>2, <1>3, <2>1
  <2>2. CASE q # p
    BY <1>1, <1>3, <2>2 DEF InvFrom, ProducerInv, Looping
  <2> QED
    BY <2>1, <2>2
<1>8. ConsumerInv(s)'
  BY <1>1, <1>3 DEF InvFrom, ConsumerInv, Position, Cell
<1> QED
  BY <1>4, <1>6, <1>7, <1>8 DEF InvFrom

\* A producer compares: when it may claim the next position, the cell is free,
\* since the cell of the lap before has another sequence.
LEMMA ProducerCompares ==
  ASSUME SoundConstants, NEW s \in Nat, InvFrom(s), claimed < Modulus, NEW p \in Producers, Compare(p)
  PROVE  InvFrom(s)'
<1>1. p # Consumer /\ p \in Threads /\ Consumer \in Threads /\ Producers \subseteq Threads
  BY DEF SoundConstants, Threads
<1> DEFINE verdict == Verdict(Signed(sequence[CellOf(pos[p])], pos[p]))
<1>2. /\ pc[p] = "compare" /\ pc' = [pc EXCEPT ![p] = verdict]
      /\ UNCHANGED <<pos, sequence, write_idx, read_idx, claimed, popped>>
  BY <1>1 DEF Compare, Goto, Awaited, shared, history
<1>3. verdict \in {"claim", "idle", "reload"}
  BY DEF Verdict
<1> HIDE DEF verdict
<1>4. pc'[p] = verdict /\ \A t \in Threads \ {p} : pc'[t] = pc[t]
  BY <1>1, <1>2 DEF InvFrom, Types
<1>5. Types'
  BY <1>2, <1>3 DEF InvFrom, Types, Labels
<1>6. Taken' = Taken /\ \A t \in Threads : Using(t)' <=> Using(t)
  BY <1>1, <1>2, <1>3, <1>4 DEF Taken, Using
<1>7. Counters(s)' /\ Lap(s)' /\ OwnerInv(s)'
  BY <1>1, <1>2, <1>6 DEF InvFrom, Counters, Lap, OwnerInv, Position, Cell
<1>8. ProducerInv(s)'
  <2> SUFFICES ASSUME NEW q \in Producers, Looping(q)'
               PROVE  \E j \in 0 .. claimed :
                        /\ pos[q] = Position(s, j)
                        /\ pc'[q] = "claim" /\ j = claimed => claimed < popped + Capacity
    BY <1>2 DEF ProducerInv, Position
  <2>1. CASE q # p
    BY <1>1, <1>4, <2>1 DEF InvFrom, ProducerInv, Looping
  <2>2. CASE q = p
    <3>1. PICK j \in 0 .. claimed : pos[p] = Position(s, j)
      BY <1>2 DEF InvFrom, ProducerInv, Looping
    <3>2. /\ claimed \in Nat /\ popped \in Nat /\ j \in Nat /\ claimed <= popped + Capacity
          /\ Capacity \in Nat /\ Capacity >= 2 /\ Capacity < Modulus /\ Modulus \in Nat
      BY DEF InvFrom, Types, Counters, Taken, SoundConstants
    <3> SUFFICES ASSUME verdict = "claim", j = claimed, claimed = popped + Capacity PROVE FALSE
      BY <1>4, <2>2, <3>1, <3>2
    <3>3. CellOf(pos[p]) = Cell(s, j) /\ Cell(s, j) \in Cells /\ pos[p] \in 0 .. Modulus - 1
      BY <3>1, <3>2, PositionFacts
    <3>4. sequence[Cell(s, j)] \in 0 .. Modulus - 1
      BY <3>3 DEF InvFrom, Types
    <3>5. sequence[Cell(s, j)] = Position(s, j)
      BY <3>1, <3>3, <3>4, SignedZero DEF verdict
    <3>6. Cell(s, popped + Capacity) = Cell(s, popped)
      BY <3>2, CellRecurs
    <3>7. \/ sequence[Cell(s, popped)] = Position(s, popped)
          \/ sequence[Cell(s, popped)] = Position(s, popped + 1)
      BY <3>2 DEF InvFrom, Lap
    <3>8. Position(s, popped) # Position(s, popped + Capacity)
      BY <3>2, PositionsDiffer
    <3>9. Position(s, popped + 1) # Position(s, popped + Capacity)
      <4>1. popped + 1 \in Nat /\ popped + Capacity \in Nat /\ popped + 1 < popped + Capacity
            /\ (popped + Capacity) - (popped + 1) < Modulus
        BY <3>2
      <4> QED
        BY <4>1, PositionsDiffer
    <3> QED
      BY <3>5, <3>6, <3>7, <3>8, <3>9
  <2> QED
    BY <2>1, <2>2
<1>9. ConsumerInv(s)'
  BY <1>1, <1>2, <1>4 DEF InvFrom, ConsumerInv, Position, Cell
<1> QED
  BY <1>5, <1>7, <1>8, <1>9 DEF InvFrom

\* A claim that succeeds: the position is the next one, so there was room, and
\* the cell still waits for it.
LEMMA ProducerClaims ==
  ASSUME SoundConstants, NEW s \in Nat, InvFrom(s), claimed < Modulus, NEW p \in Producers, ClaimPush(p)
  PROVE  InvFrom(s)'
<1>1. p # Consumer /\ p \in Threads /\ Consumer \in Threads /\ Producers \subseteq Threads
  BY DEF SoundConstants, Threads
<1>2. /\ pc[p] = "claim" /\ pos[p] = write_idx /\ pc' = [pc EXCEPT ![p] = "use"]
      /\ write_idx' = Plus(write_idx, 1) /\ claimed' = claimed + 1
      /\ UNCHANGED <<pos, sequence, read_idx, popped>>
  BY DEF ClaimPush, Goto
<1>3. /\ claimed \in Nat /\ popped \in Nat /\ Taken \in Nat /\ popped <= Taken /\ Taken <= claimed
      /\ claimed <= popped + Capacity /\ write_idx = Position(s, claimed)
      /\ Capacity \in Nat /\ Modulus \in Nat
  BY DEF InvFrom, Types, Counters, Taken, SoundConstants
<1>4. pc'[p] = "use" /\ \A t \in Threads \ {p} : pc'[t] = pc[t]
  BY <1>1, <1>2 DEF InvFrom, Types
<1>5. Taken' = Taken /\ \A t \in Threads \ {p} : Using(t)' <=> Using(t)
  BY <1>1, <1>2, <1>4 DEF Taken, Using
<1>6. claimed < popped + Capacity
  <2>1. PICK j \in 0 .. claimed : /\ pos[p] = Position(s, j)
                                  /\ j = claimed => claimed < popped + Capacity
    BY <1>2 DEF InvFrom, ProducerInv, Looping
  <2>2. CASE j < claimed
    <3>1. claimed - j < Modulus
      BY <1>3
    <3>2. Position(s, j) # Position(s, claimed)
      BY <1>3, <2>2, <3>1, PositionsDiffer
    <3> QED
      BY <1>2, <1>3, <2>1, <3>2
  <2> QED
    BY <1>3, <2>1, <2>2
<1>7. Types'
  <2>1. claimed' \in Nat
    BY <1>2, <1>3
  <2> QED
    BY <1>2, <2>1 DEF InvFrom, Types, Labels
<1>8. Counters(s)'
  <2>1. write_idx' = Position(s, claimed + 1)
    BY <1>2, <1>3, PositionFacts
  <2> QED
    BY <1>2, <1>3, <1>5, <1>6, <2>1 DEF InvFrom, Counters, Position
<1>9. Lap(s)'
  BY <1>2, <1>3 DEF InvFrom, Lap, Position, Cell
<1>10. OwnerInv(s)'
  <2>1. sequence[Cell(s, claimed)] = Position(s, claimed)
    BY <1>3, <1>6 DEF InvFrom, Lap
  <2>2. ASSUME NEW q \in Producers, q # p, Using(q)'
        PROVE  \E k \in Taken .. claimed - 1 :
                 pos[q] = Position(s, k) /\ sequence[Cell(s, k)] = Position(s, k)
    BY <1>1, <1>5, <2>2 DEF InvFrom, OwnerInv
  <2>3. ASSUME NEW q \in Producers, q # p, Using(q)' PROVE pos[q] # pos[p]
    <3>1. PICK k \in Taken .. claimed - 1 : pos[q] = Position(s, k)
      BY <2>2, <2>3
    <3>2. k \in Nat /\ k < claimed /\ claimed - k < Modulus
      BY <1>3
    <3> QED
      BY <1>2, <1>3, <3>1, <3>2, PositionsDiffer
  <2>4. ASSUME NEW q \in Producers, Using(q)'
        PROVE  \E k \in Taken' .. claimed' - 1 :
                 pos'[q] = Position(s, k) /\ sequence'[Cell(s, k)] = Position(s, k)
    <3>1. CASE q = p
      <4>1. claimed \in Taken' .. claimed' - 1
        BY <1>2, <1>3, <1>5
      <4> QED
        BY <1>2, <1>3, <2>1, <3>1, <4>1
    <3>2. CASE q # p
      <4>1. Taken .. claimed - 1 \subseteq Taken' .. claimed' - 1
        BY <1>2, <1>3, <1>5
      <4> QED
        BY <1>2, <2>2, <2>4, <3>2, <4>1
    <3> QED
      BY <3>1, <3>2
  <2>5. ASSUME NEW q \in Producers, NEW u \in Producers, q # u, Using(q)', Using(u)'
        PROVE  pos'[q] # pos'[u]
    <3>1. CASE q = p
      BY <1>2, <2>3, <2>5, <3>1
    <3>2. CASE u = p
      BY <1>2, <2>3, <2>5, <3>2
    <3>3. CASE q # p /\ u # p
      BY <1>1, <1>2, <1>5, <2>5, <3>3 DEF InvFrom, OwnerInv
    <3> QED
      BY <3>1, <3>2, <3>3
  <2> QED
    BY <2>4, <2>5 DEF OwnerInv, Position, Cell
<1>11. ProducerInv(s)'
  <2> SUFFICES ASSUME NEW q \in Producers, Looping(q)'
               PROVE  \E j \in 0 .. claimed' :
                        /\ pos'[q] = Position(s, j)
                        /\ pc'[q] = "claim" /\ j = claimed' => claimed' < popped' + Capacity
    BY DEF ProducerInv, Position
  <2>1. q # p
    BY <1>4 DEF Looping
  <2>2. PICK j \in 0 .. claimed : pos[q] = Position(s, j)
    BY <1>1, <1>4, <2>1 DEF InvFrom, ProducerInv, Looping
  <2>3. j \in 0 .. claimed' /\ j # claimed'
    BY <1>2, <1>3
  <2> QED
    BY <1>2, <2>2, <2>3
<1>12. ConsumerInv(s)'
  BY <1>1, <1>2, <1>4 DEF InvFrom, ConsumerInv, Position, Cell
<1> QED
  BY <1>7, <1>8, <1>9, <1>10, <1>11, <1>12 DEF InvFrom

LEMMA ProducerFills ==
  ASSUME SoundConstants, NEW s \in Nat, InvFrom(s), NEW p \in Producers, Fill(p)
  PROVE  InvFrom(s)'
<1>1. p # Consumer /\ p \in Threads /\ Consumer \in Threads /\ Producers \subseteq Threads
  BY DEF SoundConstants, Threads
<1>2. /\ pc[p] = "use" /\ pc' = [pc EXCEPT ![p] = "store"]
      /\ UNCHANGED <<pos, sequence, write_idx, read_idx, claimed, popped>>
  BY DEF Fill, Goto, history
<1>3. pc'[p] = "store" /\ \A t \in Threads \ {p} : pc'[t] = pc[t]
  BY <1>1, <1>2 DEF InvFrom, Types
<1>4. Taken' = Taken /\ \A t \in Threads : Using(t)' <=> Using(t)
  BY <1>1, <1>2, <1>3 DEF Taken, Using
<1>5. Types'
  BY <1>2 DEF InvFrom, Types, Labels
<1>6. Counters(s)' /\ Lap(s)' /\ OwnerInv(s)'
  BY <1>1, <1>2, <1>4 DEF InvFrom, Counters, Lap, OwnerInv, Position, Cell
<1>7. \A q \in Producers : Looping(q)' => q # p /\ pc'[q] = pc[q]
  BY <1>1, <1>3 DEF Looping
<1>8. ProducerInv(s)' /\ ConsumerInv(s)'
  BY <1>1, <1>2, <1>3, <1>7 DEF InvFrom, ProducerInv, ConsumerInv, Looping, Position, Cell
<1> QED
  BY <1>5, <1>6, <1>8 DEF InvFrom

\* A producer hands its cell on; no other producer, and no pop that is about to
\* claim, has anything to do with that cell.
LEMMA ProducerPublishes ==
  ASSUME SoundConstants, NEW s \in Nat, InvFrom(s), NEW p \in Producers, Publish(p)
  PROVE  InvFrom(s)'
<1>1. p # Consumer /\ p \in Threads /\ Consumer \in Threads /\ Producers \subseteq Threads
  BY DEF SoundConstants, Threads
<1>2. /\ pc[p] = "store" /\ pc' = [pc EXCEPT ![p] = "idle"]
      /\ sequence' = [sequence EXCEPT ![CellOf(pos[p])] = Plus(pos[p], 1)]
      /\ UNCHANGED <<pos, write_idx, read_idx, claimed, popped>>
  BY DEF Publish, Published, Goto, history
<1>3. /\ claimed \in Nat /\ popped \in Nat /\ Taken \in Nat /\ popped <= Taken /\ Taken <= claimed
      /\ claimed <= popped + Capacity /\ Capacity \in Nat /\ Modulus \in Nat /\ Capacity < Modulus
      /\ Capacity >= 2
  BY DEF InvFrom, Types, Counters, Taken, SoundConstants
<1>4. pc'[p] = "idle" /\ \A t \in Threads \ {p} : pc'[t] = pc[t]
  BY <1>1, <1>2 DEF InvFrom, Types
<1>5. Taken' = Taken /\ ~Using(p)' /\ \A t \in Threads \ {p} : Using(t)' <=> Using(t)
  BY <1>1, <1>2, <1>4 DEF Taken, Using
<1>6. PICK k \in Taken .. claimed - 1 :
        pos[p] = Position(s, k) /\ sequence[Cell(s, k)] = Position(s, k)
  BY <1>2 DEF InvFrom, OwnerInv, Using
<1>7. k \in Nat /\ popped <= k /\ k < claimed /\ k < popped + Capacity
  BY <1>3
<1>8. /\ Cell(s, k) \in Cells /\ Position(s, k + 1) \in 0 .. Modulus - 1
      /\ sequence' = [sequence EXCEPT ![Cell(s, k)] = Position(s, k + 1)]
  <2>1. /\ Cell(s, k) \in Cells /\ CellOf(Position(s, k)) = Cell(s, k)
        /\ Plus(Position(s, k), 1) = Position(s, k + 1)
    BY <1>7, PositionFacts
  <2>2. k + 1 \in Nat
    BY <1>7
  <2>3. Position(s, k + 1) \in 0 .. Modulus - 1
    BY <2>2, PositionFacts
  <2> QED
    BY <1>2, <1>6, <2>1, <2>3
<1>9. ASSUME NEW n \in Nat, popped <= n, n < popped + Capacity, n # k
      PROVE  Cell(s, n) # Cell(s, k) /\ sequence'[Cell(s, n)] = sequence[Cell(s, n)]
  <2>1. Cell(s, n) # Cell(s, k)
    <3>1. CASE n < k
      <4>1. k - n < Capacity
        BY <1>3, <1>7, <1>9
      <4> QED
        BY <1>7, <3>1, <4>1, PositionsDiffer
    <3>2. CASE k < n
      <4>1. n - k < Capacity
        BY <1>3, <1>7, <1>9
      <4> QED
        BY <1>7, <3>2, <4>1, PositionsDiffer
    <3> QED
      BY <1>7, <1>9, <3>1, <3>2
  <2>2. Cell(s, n) \in Cells
    BY PositionFacts
  <2> QED
    BY <1>8, <2>1, <2>2 DEF InvFrom, Types
<1>10. sequence'[Cell(s, k)] = Position(s, k + 1)
  BY <1>8 DEF InvFrom, Types
<1>11. Types'
  BY <1>2, <1>8 DEF InvFrom, Types, Labels
<1>12. Counters(s)'
  BY <1>2, <1>5 DEF InvFrom, Counters, Position
<1>13. Lap(s)'
  <2> SUFFICES ASSUME NEW n \in popped .. popped + Capacity - 1
               PROVE  \/ sequence'[Cell(s, n)] = Position(s, n)
                      \/ n < claimed /\ sequence'[Cell(s, n)] = Position(s, n + 1)
    BY <1>2 DEF Lap, Position, Cell
  <2>1. n \in Nat /\ popped <= n /\ n < popped + Capacity
    BY <1>3
  <2>2. CASE n = k
    BY <1>7, <1>10, <2>2
  <2>3. CASE n # k
    BY <1>9, <2>1, <2>3 DEF InvFrom, Lap
  <2> QED
    BY <2>2, <2>3
<1>14. OwnerInv(s)'
  <2>1. ASSUME NEW q \in Producers, Using(q)'
        PROVE  \E n \in Taken .. claimed - 1 :
                 pos[q] = Position(s, n) /\ sequence'[Cell(s, n)] = Position(s, n)
    <3>1. q # p /\ Using(q)
      BY <1>1, <1>5, <2>1
    <3>2. pos[q] # pos[p]
      BY <1>2, <3>1 DEF InvFrom, OwnerInv, Using
    <3>3. PICK n \in Taken .. claimed - 1 :
            pos[q] = Position(s, n) /\ sequence[Cell(s, n)] = Position(s, n)
      BY <3>1 DEF InvFrom, OwnerInv
    <3>4. n \in Nat /\ popped <= n /\ n < popped + Capacity /\ n # k
      BY <1>3, <1>6, <3>2, <3>3
    <3> QED
      BY <1>9, <3>3, <3>4
  <2>2. ASSUME NEW q \in Producers, NEW u \in Producers, q # u, Using(q)', Using(u)'
        PROVE  pos[q] # pos[u]
    BY <1>1, <1>5, <2>2 DEF InvFrom, OwnerInv
  <2> QED
    BY <1>2, <1>5, <2>1, <2>2 DEF OwnerInv, Position, Cell
<1>15. ProducerInv(s)'
  <2>1. \A q \in Producers : Looping(q)' => Looping(q) /\ pc'[q] = pc[q]
    BY <1>1, <1>4 DEF Looping
  <2> QED
    BY <1>2, <2>1 DEF InvFrom, ProducerInv, Position
<1>16. ConsumerInv(s)'
  <2>1. pc'[Consumer] = pc[Consumer]
    BY <1>1, <1>4
  <2>2. ASSUME pc[Consumer] = "claim"
        PROVE  sequence'[Cell(s, popped)] = Position(s, popped + 1)
    <3>1. sequence[Cell(s, popped)] = Position(s, popped + 1)
      BY <2>2 DEF InvFrom, ConsumerInv
    <3>2. Position(s, popped) # Position(s, popped + 1)
      <4>1. popped + 1 \in Nat /\ popped < popped + 1 /\ (popped + 1) - popped < Modulus
        BY <1>3
      <4> QED
        BY <1>3, <4>1, PositionsDiffer
    <3>3. k # popped
      BY <1>6, <3>1, <3>2
    <3>4. popped <= popped /\ popped < popped + Capacity
      BY <1>3
    <3> QED
      BY <1>3, <1>9, <3>1, <3>3, <3>4
  <2> QED
    BY <1>2, <2>1, <2>2 DEF InvFrom, ConsumerInv, Position, Cell
<1> QED
  BY <1>11, <1>12, <1>13, <1>14, <1>15, <1>16 DEF InvFrom
-----------------------------------------------------------------------------
\* The consumer loads read_idx, which nobody else moves.
LEMMA ConsumerLoads ==
  ASSUME SoundConstants, NEW s \in Nat, InvFrom(s), ~Using(Consumer),
         pos' = [pos EXCEPT ![Consumer] = read_idx], pc' = [pc EXCEPT ![Consumer] = "compare"],
         UNCHANGED <<sequence, write_idx, read_idx, claimed, popped>>
  PROVE  InvFrom(s)'
<1>1. Consumer \in Threads /\ Producers \subseteq Threads \ {Consumer}
  BY DEF SoundConstants, Threads
<1>2. read_idx = Position(s, popped) /\ popped \in Nat /\ read_idx \in 0 .. Modulus - 1
  BY PositionFacts DEF InvFrom, Counters, Types, Taken
<1>3. /\ pc'[Consumer] = "compare" /\ pos'[Consumer] = Position(s, popped)
      /\ \A p \in Producers : pc'[p] = pc[p] /\ pos'[p] = pos[p]
  BY <1>1, <1>2 DEF InvFrom, Types
<1>4. Types'
  BY <1>2 DEF InvFrom, Types, Labels
<1>5. Taken' = Taken /\ \A p \in Producers : (Using(p)' <=> Using(p)) /\ (Looping(p)' <=> Looping(p))
  BY <1>3 DEF Taken, Using, Looping
<1>6. Counters(s)' /\ Lap(s)' /\ OwnerInv(s)' /\ ProducerInv(s)'
  BY <1>3, <1>5 DEF InvFrom, Counters, Lap, OwnerInv, ProducerInv, Position, Cell
<1>7. ConsumerInv(s)'
  BY <1>3 DEF ConsumerInv, Position
<1> QED
  BY <1>4, <1>6, <1>7 DEF InvFrom

\* The consumer compares: when it may claim, the cell has been filled.
LEMMA ConsumerCompares ==
  ASSUME SoundConstants, NEW s \in Nat, InvFrom(s), Compare(Consumer)
  PROVE  InvFrom(s)'
<1>1. Consumer \in Threads /\ Producers \subseteq Threads \ {Consumer}
  BY DEF SoundConstants, Threads
<1> DEFINE verdict == Verdict(Signed(sequence[CellOf(pos[Consumer])], Plus(pos[Consumer], 1)))
<1>2. /\ pc[Consumer] = "compare" /\ pc' = [pc EXCEPT ![Consumer] = verdict]
      /\ UNCHANGED <<pos, sequence, write_idx, read_idx, claimed, popped>>
  BY DEF Compare, Goto, Awaited, shared, history
<1>3. verdict \in {"claim", "idle", "reload"}
  BY DEF Verdict
<1> HIDE DEF verdict
<1>4. pc'[Consumer] = verdict /\ \A p \in Producers : pc'[p] = pc[p]
  BY <1>1, <1>2 DEF InvFrom, Types
<1>5. Types'
  BY <1>2, <1>3 DEF InvFrom, Types, Labels
<1>6. Taken' = Taken /\ \A p \in Producers : (Using(p)' <=> Using(p)) /\ (Looping(p)' <=> Looping(p))
  BY <1>2, <1>3, <1>4 DEF Taken, Using, Looping
<1>7. Counters(s)' /\ Lap(s)' /\ OwnerInv(s)' /\ ProducerInv(s)'
  BY <1>2, <1>4, <1>6 DEF InvFrom, Counters, Lap, OwnerInv, ProducerInv, Position, Cell
<1>8. ConsumerInv(s)'
  <2>1. pos[Consumer] = Position(s, popped) /\ popped \in Nat /\ popped + 1 \in Nat
    BY <1>2 DEF InvFrom, ConsumerInv, Types
  <2>2. /\ CellOf(pos[Consumer]) = Cell(s, popped) /\ Cell(s, popped) \in Cells
        /\ Plus(pos[Consumer], 1) = Position(s, popped + 1)
    <3>1. /\ CellOf(Position(s, popped)) = Cell(s, popped) /\ Cell(s, popped) \in Cells
          /\ Plus(Position(s, popped), 1) = Position(s, popped + 1)
      BY <2>1, PositionFacts
    <3> QED
      BY <2>1, <3>1
  <2>3. Position(s, popped + 1) \in 0 .. Modulus - 1 /\ sequence[Cell(s, popped)] \in 0 .. Modulus - 1
    BY <2>1, <2>2, PositionFacts DEF InvFrom, Types
  <2>4. verdict = "claim" => sequence[Cell(s, popped)] = Position(s, popped + 1)
    BY <2>2, <2>3, SignedZero DEF verdict
  <2> QED
    BY <1>2, <1>4, <2>1, <2>4 DEF ConsumerInv, Position, Cell
<1> QED
  BY <1>5, <1>7, <1>8 DEF InvFrom

\* The pop owns a position that was claimed by a push which has handed it on.
LEMMA ConsumerClaims ==
  ASSUME SoundConstants, NEW s \in Nat, InvFrom(s), ClaimPop
  PROVE  InvFrom(s)'
<1>1. Consumer \in Threads /\ Producers \subseteq Threads \ {Consumer}
  BY DEF SoundConstants, Threads
<1>2. /\ pc[Consumer] = "claim" /\ pc' = [pc EXCEPT ![Consumer] = "use"]
      /\ read_idx' = Plus(read_idx, 1)
      /\ UNCHANGED <<pos, sequence, write_idx, claimed, popped>>
  BY DEF ClaimPop, Goto, history
<1>3. pc'[Consumer] = "use" /\ \A p \in Producers : pc'[p] = pc[p]
  BY <1>1, <1>2 DEF InvFrom, Types
<1>4. Taken = popped /\ Taken' = popped + 1
      /\ \A p \in Producers : (Using(p)' <=> Using(p)) /\ (Looping(p)' <=> Looping(p))
  BY <1>2, <1>3 DEF Taken, Using, Looping
<1>5. /\ claimed \in Nat /\ popped \in Nat /\ popped <= claimed /\ claimed <= popped + Capacity
      /\ read_idx = Position(s, popped) /\ Capacity \in Nat /\ Capacity >= 2
      /\ Modulus \in Nat /\ Capacity < Modulus
  BY <1>4 DEF InvFrom, Types, Counters, SoundConstants
<1>6. sequence[Cell(s, popped)] = Position(s, popped + 1)
  BY <1>2 DEF InvFrom, ConsumerInv
<1>7. Position(s, popped) # Position(s, popped + 1)
  <2>1. popped + 1 \in Nat /\ popped < popped + 1 /\ (popped + 1) - popped < Modulus
    BY <1>5
  <2> QED
    BY <1>5, <2>1, PositionsDiffer
<1>8. popped < claimed
  <2>1. popped \in popped .. popped + Capacity - 1
    BY <1>5
  <2> QED
    BY <1>6, <1>7, <2>1 DEF InvFrom, Lap
<1>9. Types'
  BY <1>2 DEF InvFrom, Types, Labels
<1>10. Counters(s)'
  <2>1. read_idx' = Position(s, popped + 1)
    BY <1>2, <1>5, PositionFacts
  <2> QED
    BY <1>2, <1>4, <1>5, <1>8, <2>1 DEF InvFrom, Counters, Position
<1>11. Lap(s)' /\ ProducerInv(s)'
  BY <1>2, <1>3, <1>4 DEF InvFrom, Lap, ProducerInv, Position, Cell
<1>12. OwnerInv(s)'
  <2>1. ASSUME NEW p \in Producers, Using(p)'
        PROVE  \E k \in popped + 1 .. claimed - 1 :
                 pos[p] = Position(s, k) /\ sequence[Cell(s, k)] = Position(s, k)
    <3>1. PICK k \in popped .. claimed - 1 :
            pos[p] = Position(s, k) /\ sequence[Cell(s, k)] = Position(s, k)
      BY <1>4, <2>1 DEF InvFrom, OwnerInv
    <3>2. k # popped
      BY <1>6, <1>7, <3>1
    <3>3. k \in popped + 1 .. claimed - 1
      BY <1>5, <3>2
    <3> QED
      BY <3>1, <3>3
  <2>2. ASSUME NEW p \in Producers, NEW q \in Producers, p # q, Using(p)', Using(q)'
        PROVE  pos[p] # pos[q]
    BY <1>4, <2>2 DEF InvFrom, OwnerInv
  <2> QED
    BY <1>2, <1>4, <2>1, <2>2 DEF OwnerInv, Position, Cell
<1>13. ConsumerInv(s)'
  BY <1>2, <1>3 DEF InvFrom, ConsumerInv, Position
<1> QED
  BY <1>9, <1>10, <1>11, <1>12, <1>13 DEF InvFrom

LEMMA ConsumerMoves ==
  ASSUME SoundConstants, NEW s \in Nat, InvFrom(s), MoveOut
  PROVE  InvFrom(s)'
<1>1. Consumer \in Threads /\ Producers \subseteq Threads \ {Consumer}
  BY DEF SoundConstants, Threads
<1>2. /\ pc[Consumer] = "use" /\ pc' = [pc EXCEPT ![Consumer] = "store"]
      /\ UNCHANGED <<pos, sequence, write_idx, read_idx, claimed, popped>>
  BY DEF MoveOut, Goto, shared, history
<1>3. pc'[Consumer] = "store" /\ \A p \in Producers : pc'[p] = pc[p]
  BY <1>1, <1>2 DEF InvFrom, Types
<1>4. Taken' = Taken /\ \A p \in Producers : (Using(p)' <=> Using(p)) /\ (Looping(p)' <=> Looping(p))
  BY <1>2, <1>3 DEF Taken, Using, Looping
<1>5. Types'
  BY <1>2 DEF InvFrom, Types, Labels
<1>6. Counters(s)' /\ Lap(s)' /\ OwnerInv(s)' /\ ProducerInv(s)'
  BY <1>2, <1>3, <1>4 DEF InvFrom, Counters, Lap, OwnerInv, ProducerInv, Position, Cell
<1>7. ConsumerInv(s)'
  BY <1>2, <1>3 DEF InvFrom, ConsumerInv, Position
<1> QED
  BY <1>5, <1>6, <1>7 DEF InvFrom

\* The consumer frees its cell, which becomes the last of the lap.
LEMMA ConsumerFrees ==
  ASSUME SoundConstants, NEW s \in Nat, InvFrom(s), Free
  PROVE  InvFrom(s)'
<1>1. Consumer \in Threads /\ Producers \subseteq Threads \ {Consumer}
  BY DEF SoundConstants, Threads
<1>2. /\ pc[Consumer] = "store" /\ pc' = [pc EXCEPT ![Consumer] = "idle"]
      /\ sequence' = [sequence EXCEPT ![CellOf(pos[Consumer])] = Plus(pos[Consumer], Capacity)]
      /\ popped' = popped + 1
      /\ UNCHANGED <<pos, write_idx, read_idx, claimed>>
  BY DEF Free, Goto
<1>3. pc'[Consumer] = "idle" /\ \A p \in Producers : pc'[p] = pc[p]
  BY <1>1, <1>2 DEF InvFrom, Types
<1>4. Taken = popped + 1 /\ Taken' = popped + 1
      /\ \A p \in Producers : (Using(p)' <=> Using(p)) /\ (Looping(p)' <=> Looping(p))
  BY <1>2, <1>3 DEF Taken, Using, Looping
<1>5. /\ claimed \in Nat /\ popped \in Nat /\ popped + 1 <= claimed /\ claimed <= popped + Capacity
      /\ Capacity \in Nat /\ Capacity >= 2 /\ Modulus \in Nat
      /\ pos[Consumer] = Position(s, popped)
  BY <1>2, <1>4 DEF InvFrom, Types, Counters, ConsumerInv, SoundConstants
<1>6. /\ Cell(s, popped) \in Cells /\ Position(s, popped + Capacity) \in 0 .. Modulus - 1
      /\ sequence' = [sequence EXCEPT ![Cell(s, popped)] = Position(s, popped + Capacity)]
  <2>1. /\ Cell(s, popped) \in Cells /\ CellOf(Position(s, popped)) = Cell(s, popped)
        /\ Plus(Position(s, popped), Capacity) = Position(s, popped + Capacity)
    BY <1>5, PositionFacts
  <2>2. popped + Capacity \in Nat
    BY <1>5
  <2>3. Position(s, popped + Capacity) \in 0 .. Modulus - 1
    BY <2>2, PositionFacts
  <2> QED
    BY <1>2, <1>5, <2>1, <2>3
<1>7. ASSUME NEW n \in Nat, popped < n, n < popped + Capacity
      PROVE  sequence'[Cell(s, n)] = sequence[Cell(s, n)]
  <2>1. n - popped < Capacity
    BY <1>5, <1>7
  <2>2. Cell(s, popped) # Cell(s, n)
    BY <1>5, <1>7, <2>1, PositionsDiffer
  <2>3. Cell(s, n) \in Cells
    BY PositionFacts
  <2> QED
    BY <1>6, <2>2, <2>3 DEF InvFrom, Types
<1>8. Types'
  <2>1. popped' \in Nat
    BY <1>2, <1>5
  <2> QED
    BY <1>2, <1>6, <2>1 DEF InvFrom, Types, Labels
<1>9. Counters(s)'
  BY <1>2, <1>4, <1>5 DEF InvFrom, Counters, Position
<1>10. Lap(s)'
  <2> SUFFICES ASSUME NEW n \in popped' .. popped' + Capacity - 1
               PROVE  \/ sequence'[Cell(s, n)] = Position(s, n)
                      \/ n < claimed' /\ sequence'[Cell(s, n)] = Position(s, n + 1)
    BY DEF Lap, Position, Cell
  <2>1. CASE n = popped + Capacity
    <3>1. Cell(s, popped + Capacity) = Cell(s, popped)
      BY <1>5, CellRecurs
    <3> QED
      BY <1>6, <2>1, <3>1 DEF InvFrom, Types
  <2>2. CASE n # popped + Capacity
    <3>1. n \in Nat /\ popped < n /\ n < popped + Capacity /\ n \in popped .. popped + Capacity - 1
      BY <1>2, <1>5, <2>2
    <3> QED
      BY <1>2, <1>7, <3>1 DEF InvFrom, Lap
  <2> QED
    BY <2>1, <2>2
<1>11. OwnerInv(s)'
  <2>1. ASSUME NEW p \in Producers, Using(p)'
        PROVE  \E k \in popped + 1 .. claimed - 1 :
                 pos[p] = Position(s, k) /\ sequence'[Cell(s, k)] = Position(s, k)
    <3>1. PICK k \in popped + 1 .. claimed - 1 :
            pos[p] = Position(s, k) /\ sequence[Cell(s, k)] = Position(s, k)
      BY <1>4, <2>1 DEF InvFrom, OwnerInv
    <3>2. k \in Nat /\ popped < k /\ k < popped + Capacity
      BY <1>5
    <3> QED
      BY <1>7, <3>1, <3>2
  <2>2. ASSUME NEW p \in Producers, NEW q \in Producers, p # q, Using(p)', Using(q)'
        PROVE  pos[p] # pos[q]
    BY <1>4, <2>2 DEF InvFrom, OwnerInv
  <2> QED
    BY <1>2, <1>4, <2>1, <2>2 DEF OwnerInv, Position, Cell
<1>12. ProducerInv(s)'
  <2> SUFFICES ASSUME NEW p \in Producers, Looping(p)'
               PROVE  \E j \in 0 .. claimed :
                        /\ pos[p] = Position(s, j)
                        /\ pc[p] = "claim" /\ j = claimed => claimed < (popped + 1) + Capacity
    BY <1>2, <1>3 DEF ProducerInv, Position
  <2>1. PICK j \in 0 .. claimed : pos[p] = Position(s, j)
    BY <1>4 DEF InvFrom, ProducerInv
  <2>2. claimed < (popped + 1) + Capacity
    BY <1>5
  <2> QED
    BY <2>1, <2>2
<1>13. ConsumerInv(s)'
  BY <1>3 DEF ConsumerInv
<1> QED
  BY <1>8, <1>9, <1>10, <1>11, <1>12, <1>13 DEF InvFrom
-----------------------------------------------------------------------------
LEMMA StepFrom ==
  ASSUME SoundConstants, NEW s \in Nat, InvFrom(s), claimed < Modulus, Next
  PROVE  InvFrom(s)'
<1>1. Consumer \notin Producers
  BY DEF SoundConstants
<1>2. ASSUME NEW p \in Producers, NEW v \in Values, PushBegin(p, v) PROVE InvFrom(s)'
  BY <1>1, <1>2, ProducerLoads DEF PushBegin, LoadIndex, IndexOf, Goto, Using, shared, history
<1>3. ASSUME NEW p \in Producers, Reload(p) \/ ClaimFails(p) PROVE InvFrom(s)'
  BY <1>1, <1>3, ProducerLoads
  DEF Reload, ClaimFails, LoadIndex, IndexOf, Goto, Using, shared, history
<1>4. ASSUME NEW p \in Producers, PushStep(p) PROVE InvFrom(s)'
  BY <1>3, <1>4, ProducerCompares, ProducerClaims, ProducerFills, ProducerPublishes
  DEF PushStep, Step
<1>5. ASSUME PopBegin \/ Reload(Consumer) \/ ClaimFails(Consumer) PROVE InvFrom(s)'
  BY <1>5, ConsumerLoads
  DEF PopBegin, Reload, ClaimFails, LoadIndex, IndexOf, Goto, Using, shared, history
<1>6. ASSUME PopStep PROVE InvFrom(s)'
  BY <1>5, <1>6, ConsumerCompares, ConsumerClaims, ConsumerMoves, ConsumerFrees DEF PopStep, Step
<1> QED
  BY <1>2, <1>4, <1>5, <1>6 DEF Next

LEMMA StepInv ==
  ASSUME SoundConstants, IInv, [Next]_vars
  PROVE  IInv'
<1>1. claimed' \in Nat /\ claimed <= claimed'
  <2>1. claimed \in Nat
    BY DEF IInv
  <2>2. claimed' = claimed \/ claimed' = claimed + 1
    BY DEF Next, PushStep, PopStep, Step, PushBegin, PopBegin, Compare, Reload, ClaimFails, ClaimPush,
           ClaimPop, Fill, MoveOut, Publish, Free, history, vars
  <2> QED
    BY <2>1, <2>2
<1> SUFFICES ASSUME claimed' < Modulus PROVE \E s \in Nat : InvFrom(s)'
  BY <1>1 DEF IInv
<1>2. claimed < Modulus
  BY <1>1 DEF IInv, SoundConstants
<1>3. PICK s \in Nat : InvFrom(s)
  BY <1>2 DEF IInv
<1>4. CASE Next
  BY <1>2, <1>3, <1>4, StepFrom
<1>5. CASE UNCHANGED vars
  BY <1>3, <1>5
  DEF vars, shared, history, InvFrom, Types, Counters, Lap, OwnerInv, ProducerInv, ConsumerInv,
      Taken, Using, Looping, Position, Cell
<1> QED
  BY <1>4, <1>5

\* Whatever the number of producers and wherever they are held up between their
\* steps, no cell of MPSCQueue is used by two threads at once: not by two
\* producers that raced for a position, and not by a producer a lap ahead of
\* the pop.  This holds until the positions have gone round once, the time a
\* thread would have to sleep to take an old position for the current one.
THEOREM MpscRaceFree ==
  ASSUME SoundConstants
  PROVE  Spec => [](claimed < Modulus => CellsExclusive)
<1>1. Init => IInv
  BY InitInv
<1>2. IInv /\ [Next]_vars => IInv'
  BY StepInv
<1>3. IInv => (claimed < Modulus => CellsExclusive)
  <2> SUFFICES ASSUME IInv, claimed < Modulus PROVE CellsExclusive
    OBVIOUS
  <2>1. PICK s \in Nat : InvFrom(s)
    BY DEF IInv
  <2>2. /\ claimed \in Nat /\ popped \in Nat /\ Taken \in Nat /\ popped <= Taken
        /\ claimed <= popped + Capacity /\ Capacity \in Nat
    BY <2>1 DEF InvFrom, Types, Counters, Taken, SoundConstants
  <2>3. ASSUME NEW j \in Nat, NEW k \in Nat, j # k, popped <= j, popped <= k,
               j < popped + Capacity, k < popped + Capacity
        PROVE  CellOf(Position(s, j)) # CellOf(Position(s, k))
    <3>1. j - k < Capacity /\ k - j < Capacity /\ (j < k \/ k < j)
      BY <2>2, <2>3
    <3>2. Cell(s, j) # Cell(s, k)
      BY <3>1, PositionsDiffer
    <3> QED
      BY <3>2, PositionFacts
  <2>4. ASSUME NEW p \in Producers, Using(p)
        PROVE  \E k \in Nat : /\ pos[p] = Position(s, k) /\ Taken <= k
                              /\ popped <= k /\ k < popped + Capacity
    <3>1. PICK k \in Taken .. claimed - 1 : pos[p] = Position(s, k)
      BY <2>1, <2>4 DEF InvFrom, OwnerInv
    <3>2. k \in Nat /\ Taken <= k /\ popped <= k /\ k < popped + Capacity
      BY <2>2
    <3> QED
      BY <3>1, <3>2
  <2>5. ASSUME NEW p \in Producers, NEW q \in Producers, p # q, Using(p), Using(q)
        PROVE  CellOf(pos[p]) # CellOf(pos[q])
    <3>1. pos[p] # pos[q]
      BY <2>1, <2>5 DEF InvFrom, OwnerInv
    <3>2. PICK j \in Nat : pos[p] = Position(s, j) /\ popped <= j /\ j < popped + Capacity
      BY <2>4, <2>5
    <3>3. PICK k \in Nat : pos[q] = Position(s, k) /\ popped <= k /\ k < popped + Capacity
      BY <2>4, <2>5
    <3> QED
      BY <2>3, <3>1, <3>2, <3>3
  <2>6. ASSUME NEW p \in Producers, Using(p), Using(Consumer)
        PROVE  CellOf(pos[p]) # CellOf(pos[Consumer])
    <3>1. pos[Consumer] = Position(s, popped) /\ Taken = popped + 1
      BY <2>1, <2>6 DEF InvFrom, ConsumerInv, Using, Taken
    <3>2. PICK k \in Nat : pos[p] = Position(s, k) /\ Taken <= k /\ k < popped + Capacity
      BY <2>4, <2>6
    <3>3. k # popped /\ popped <= k /\ popped <= popped /\ popped < popped + Capacity
      BY <2>2, <3>1, <3>2
    <3> QED
      BY <2>2, <2>3, <3>1, <3>2, <3>3
  <2> QED
    BY <2>5, <2>6 DEF CellsExclusive, Threads, Using
<1> QED
  BY <1>1, <1>2, <1>3, PTL DEF Spec
=============================================================================

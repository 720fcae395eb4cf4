-------------------------- MODULE OrderBookProofs --------------------------
(***************************************************************************)
(* What the functions of the order book preserve, for every set of prices, *)
(* orders and pool slots: BookOK, the part of the matching engine's        *)
(* inductive invariant that speaks of the book alone.                      *)
(*                                                                         *)
(* BookOK looks at the levels of a side as a set, since in a sorted side a *)
(* level is known by its price.                                            *)
(***************************************************************************)
EXTENDS OrderBook, DataLemmas

Level == [price : Prices, orders : Seq(Slots), total_qty : Int, order_count : Int]
LiveOrder == [id : OrderIds, price : Prices, remaining : Nat, since : Nat]

\* The updates of the actions, named so that lemmas can speak of them.
Updated(f, x, v) == [f EXCEPT ![x] = v]
Retotalled(lv, d) == [lv EXCEPT !.total_qty = @ + d]
Resized(l, s, q) == [l EXCEPT ![s].remaining = q]
Restarted(l, s, q, t) == [l EXCEPT ![s].remaining = q, ![s].since = t]

Remaining(l) == [s \in DOMAIN l |-> l[s].remaining]

\* A level of the book whose live orders are l: its aggregates are right, and
\* its queue holds orders of its price, by arrival.
Tidy(l, lv) ==
  /\ lv.order_count = Len(lv.orders)
  /\ lv.total_qty = SumFunctionOnSet(Remaining(l), QueuedAt(lv))
  /\ \A s \in QueuedAt(lv) : s \in DOMAIN l /\ l[s].price = lv.price
  /\ \A i, j \in DOMAIN lv.orders : i < j => l[lv.orders[i]].since < l[lv.orders[j]].since

GoodLevel(l, lv) == lv.orders # <<>> /\ Tidy(l, lv)

Entries(l, k) ==
  /\ DOMAIN l \subseteq Slots /\ l \in [DOMAIN l -> LiveOrder]
  /\ DOMAIN k \subseteq OrderIds /\ k \in [DOMAIN k -> Slots]

BookTypes(L, l, k) == L \in [Sides -> Seq(Level)] /\ Entries(l, k)

Ordered(side, ls) ==
  \A i, j \in DOMAIN ls : i < j => Better(side, ls[i].price, ls[j].price)

Apart(L) == \A b \in Range(L["Buy"]), a \in Range(L["Sell"]) : b.price < a.price

Indexed(l, k) ==
  /\ \A s \in DOMAIN l : l[s].id \in DOMAIN k /\ k[l[s].id] = s
  /\ \A id \in DOMAIN k : k[id] \in DOMAIN l /\ l[k[id]].id = id

BookOK(L, l, k) ==
  /\ BookTypes(L, l, k)
  /\ \A side \in Sides : Ordered(side, L[side])
  /\ Apart(L)
  /\ \A side \in Sides : \A lv \in Range(L[side]) : GoodLevel(l, lv)
  /\ \A s \in DOMAIN l : \E side \in Sides : \E lv \in Range(L[side]) : s \in QueuedAt(lv)
  /\ Indexed(l, k)

\* A step that changes no order but s, and the levels Old of a side, which alone
\* may hold s, to the levels New.
OnlyChanges(l, m, s) ==
  /\ \A u \in DOMAIN l \ {s} : u \in DOMAIN m /\ m[u] = l[u]
  /\ DOMAIN m \subseteq DOMAIN l \cup {s}

Rehoused(L, side, Old, New, m, s) ==
  /\ \A b \in Sides : \A lv \in Range(L[b]) : s \in QueuedAt(lv) => b = side /\ lv \in Old
  /\ \A lv \in Old : \A u \in QueuedAt(lv) \ {s} : \E new \in New : u \in QueuedAt(new)
  /\ s \in DOMAIN m => \E new \in New : s \in QueuedAt(new)
  /\ \A new \in New : GoodLevel(m, new)
-----------------------------------------------------------------------------
\* What is left of a sequence without its element i.
LEMMA ErasedFacts ==
  ASSUME NEW S, NEW s \in Seq(S), NEW i \in 1 .. Len(s)
  PROVE  /\ Erased(s, i) \in Seq(S)
         /\ Len(Erased(s, i)) = Len(s) - 1
         /\ \A j \in 1 .. Len(s) - 1 : Erased(s, i)[j] = IF j < i THEN s[j] ELSE s[j + 1]
<1> DEFINE a == SubSeq(s, 1, i - 1)
           b == SubSeq(s, i + 1, Len(s))
<1>1. a \in Seq(S) /\ Len(a) = i - 1 /\ \A j \in 1 .. i - 1 : a[j] = s[j]
  OBVIOUS
<1>2. b \in Seq(S) /\ Len(b) = Len(s) - i /\ \A j \in 1 .. Len(s) - i : b[j] = s[i + j]
  OBVIOUS
<1>3. Erased(s, i) = a \o b
  BY DEF Erased
<1> HIDE DEF a, b
<1>4. a \o b \in Seq(S) /\ Len(a \o b) = Len(s) - 1
  <2>1. a \o b \in Seq(S) /\ Len(a \o b) = Len(a) + Len(b)
    BY <1>1, <1>2, ConcatProperties
  <2> QED
    BY <1>1, <1>2, <2>1
<1>5. ASSUME NEW j \in 1 .. Len(s) - 1
      PROVE  (a \o b)[j] = IF j < i THEN s[j] ELSE s[j + 1]
  <2>1. CASE j < i
    BY <1>1, <1>2, <2>1
  <2>2. CASE ~(j < i)
    <3>1. (a \o b)[j] = b[j - (i - 1)]
      BY <1>1, <1>2, <2>2
    <3>2. j - (i - 1) \in 1 .. Len(s) - i /\ i + (j - (i - 1)) = j + 1
      BY <2>2
    <3> QED
      BY <1>2, <2>2, <3>1, <3>2
  <2> QED
    BY <2>1, <2>2
<1> QED
  BY <1>3, <1>4, <1>5

\* A sequence with e as its new element i.
LEMMA InsertedFacts ==
  ASSUME NEW S, NEW s \in Seq(S), NEW i \in 1 .. Len(s) + 1, NEW e \in S
  PROVE  /\ Inserted(s, i, e) \in Seq(S)
         /\ Len(Inserted(s, i, e)) = Len(s) + 1
         /\ \A j \in 1 .. i - 1 : Inserted(s, i, e)[j] = s[j]
         /\ Inserted(s, i, e)[i] = e
         /\ \A j \in i + 1 .. Len(s) + 1 : Inserted(s, i, e)[j] = s[j - 1]
<1> DEFINE a == SubSeq(s, 1, i - 1)
           b == SubSeq(s, i, Len(s))
           c == a \o <<e>>
<1>1. a \in Seq(S) /\ Len(a) = i - 1 /\ \A j \in 1 .. i - 1 : a[j] = s[j]
  OBVIOUS
<1>2. b \in Seq(S) /\ Len(b) = Len(s) - i + 1 /\ \A j \in 1 .. Len(s) - i + 1 : b[j] = s[i + j - 1]
  OBVIOUS
<1>3. Inserted(s, i, e) = c \o b
  BY DEF Inserted
<1> HIDE DEF a, b
<1>4. c \in Seq(S) /\ Len(c) = i /\ \A j \in 1 .. i : c[j] = IF j < i THEN s[j] ELSE e
  BY <1>1
<1> HIDE DEF c
<1>5. c \o b \in Seq(S) /\ Len(c \o b) = Len(s) + 1
  <2>1. c \o b \in Seq(S) /\ Len(c \o b) = Len(c) + Len(b)
    BY <1>2, <1>4, ConcatProperties
  <2> QED
    BY <1>2, <1>4, <2>1
<1>6. ASSUME NEW j \in 1 .. Len(s) + 1
      PROVE  (c \o b)[j] = IF j < i THEN s[j] ELSE IF j = i THEN e ELSE s[j - 1]
  <2>1. CASE j <= i
    BY <1>2, <1>4, <2>1
  <2>2. CASE ~(j <= i)
    <3>1. (c \o b)[j] = b[j - i]
      BY <1>2, <1>4, <2>2
    <3>2. j - i \in 1 .. Len(s) - i + 1 /\ i + (j - i) - 1 = j - 1
      BY <2>2
    <3> QED
      BY <1>2, <2>2, <3>1, <3>2
  <2> QED
    BY <2>1, <2>2
<1> QED
  BY <1>3, <1>5, <1>6

\* Unlinked takes out the one element that is there.
LEMMA UnlinkedIs ==
  ASSUME NEW S, NEW s \in Seq(S), NEW i \in 1 .. Len(s),
         \A j \in 1 .. Len(s) : s[j] = s[i] => j = i
  PROVE  Unlinked(s, s[i]) = Erased(s, i)
<1>1. DOMAIN s = 1 .. Len(s)
  OBVIOUS
<1>2. (CHOOSE j \in DOMAIN s : s[j] = s[i]) = i
  BY <1>1
<1> QED
  BY <1>1, <1>2 DEF Unlinked
-----------------------------------------------------------------------------
\* The slots queued at a level.
LEMMA QueuedFacts ==
  ASSUME NEW lv \in Level
  PROVE  /\ lv.orders \in Seq(Slots) /\ DOMAIN lv.orders = 1 .. Len(lv.orders)
         /\ QueuedAt(lv) \in SUBSET Slots /\ IsFiniteSet(QueuedAt(lv))
<1>1. lv.orders \in Seq(Slots) /\ DOMAIN lv.orders = 1 .. Len(lv.orders)
  BY DEF Level
<1>2. QueuedAt(lv) \in SUBSET Slots
  BY <1>1 DEF QueuedAt
<1>3. IsFiniteSet(QueuedAt(lv))
  BY <1>2, BookAssumption, FS_Subset
<1> QED
  BY <1>1, <1>2, <1>3

\* A tidy level depends on its own orders only.
LEMMA TidyKept ==
  ASSUME NEW lv \in Level, NEW l, NEW m, Tidy(l, lv),
         \A s \in QueuedAt(lv) : s \in DOMAIN m /\ m[s] = l[s]
  PROVE  Tidy(m, lv)
<1>1. \A s \in QueuedAt(lv) : s \in DOMAIN l /\ s \in DOMAIN m /\ m[s] = l[s]
  BY DEF Tidy
<1>2. \A s \in QueuedAt(lv) : Remaining(l)[s] = Remaining(m)[s]
  BY <1>1 DEF Remaining
<1>3. SumFunctionOnSet(Remaining(l), QueuedAt(lv)) = SumFunctionOnSet(Remaining(m), QueuedAt(lv))
  BY <1>2, QueuedFacts, SumAgree
<1>4. \A i \in DOMAIN lv.orders : m[lv.orders[i]] = l[lv.orders[i]]
  BY <1>1 DEF QueuedAt
<1> QED
  BY <1>1, <1>3, <1>4 DEF Tidy

\* No order waits twice in a queue.
LEMMA OnePlace ==
  ASSUME NEW lv \in Level, NEW l, l \in [DOMAIN l -> LiveOrder], Tidy(l, lv),
         NEW i \in DOMAIN lv.orders, NEW j \in DOMAIN lv.orders, lv.orders[i] = lv.orders[j]
  PROVE  i = j
<1>1. i \in Nat /\ j \in Nat
  BY QueuedFacts
<1>2. lv.orders[i] \in DOMAIN l
  BY DEF Tidy, QueuedAt
<1>3. l[lv.orders[i]].since \in Nat
  BY <1>2 DEF LiveOrder
<1>4. ~(i < j) /\ ~(j < i)
  BY <1>3 DEF Tidy
<1> QED
  BY <1>1, <1>4

\* An order with a new place at the end of the queue.
LEMMA Enqueued ==
  ASSUME NEW lv \in Level, NEW l, l \in [DOMAIN l -> LiveOrder], Tidy(l, lv),
         NEW s \in Slots, s \notin DOMAIN l, NEW o \in LiveOrder, o.price = lv.price,
         \A u \in DOMAIN l : l[u].since < o.since,
         NEW m, m = Put(l, s, o), NEW new, new = Enqueue(lv, s, o.remaining)
  PROVE  /\ new \in Level /\ new.price = lv.price
         /\ QueuedAt(new) = QueuedAt(lv) \cup {s}
         /\ GoodLevel(m, new)
<1> DEFINE q == lv.orders
           r == new.orders
           S == QueuedAt(lv)
<1>1. /\ q \in Seq(Slots) /\ DOMAIN q = 1 .. Len(q) /\ Len(q) \in Nat
      /\ S \in SUBSET Slots /\ IsFiniteSet(S)
  BY QueuedFacts
<1>2. /\ new = [price |-> lv.price, orders |-> Append(q, s), total_qty |-> lv.total_qty + o.remaining,
                order_count |-> lv.order_count + 1]
  BY DEF Enqueue, Level
<1>3. /\ r = Append(q, s) /\ new.price = lv.price /\ new.total_qty = lv.total_qty + o.remaining
      /\ new.order_count = lv.order_count + 1
  BY <1>2
<1>4. /\ r \in Seq(Slots) /\ Len(r) = Len(q) + 1 /\ r[Len(q) + 1] = s
      /\ \A i \in 1 .. Len(q) : r[i] = q[i]
  BY <1>1, <1>3
<1>5. new \in Level
  <2>1. r \in Seq(Slots) /\ lv.price \in Prices /\ lv.total_qty + o.remaining \in Int /\ lv.order_count + 1 \in Int
    BY <1>4 DEF Level, LiveOrder
  <2> QED
    BY <1>2, <1>3, <2>1 DEF Level
<1>6. DOMAIN r = 1 .. Len(q) + 1
  BY <1>1, <1>4
<1>7. QueuedAt(new) = S \cup {s}
  <2>1. ASSUME NEW u \in QueuedAt(new) PROVE u \in S \cup {s}
    <3>1. PICK i \in 1 .. Len(q) + 1 : u = r[i]
      BY <1>6 DEF QueuedAt
    <3>2. CASE i = Len(q) + 1
      BY <1>4, <3>1, <3>2
    <3>3. CASE i # Len(q) + 1
      <4>1. i \in 1 .. Len(q)
        BY <1>1, <3>3
      <4> QED
        BY <1>1, <1>4, <3>1, <4>1 DEF QueuedAt
    <3> QED
      BY <3>2, <3>3
  <2>2. ASSUME NEW u \in S \cup {s} PROVE u \in QueuedAt(new)
    <3>1. CASE u = s
      <4>1. Len(q) + 1 \in DOMAIN r
        BY <1>1, <1>6
      <4> QED
        BY <1>4, <3>1, <4>1 DEF QueuedAt
    <3>2. CASE u \in S
      <4>1. PICK i \in 1 .. Len(q) : u = q[i]
        BY <1>1, <3>2 DEF QueuedAt
      <4>2. i \in DOMAIN r /\ r[i] = u
        BY <1>1, <1>4, <1>6, <4>1
      <4> QED
        BY <4>2 DEF QueuedAt
    <3> QED
      BY <3>1, <3>2
  <2> QED
    BY <2>1, <2>2
<1>8. /\ DOMAIN m = DOMAIN l \cup {s} /\ m[s] = o
      /\ \A u \in DOMAIN l : m[u] = l[u]
  BY DEF Put
<1>9. S \subseteq DOMAIN l /\ s \notin S /\ \A u \in S : l[u].price = lv.price
  BY DEF Tidy
<1>10. new.total_qty = SumFunctionOnSet(Remaining(m), QueuedAt(new))
  <2> DEFINE f == Remaining(m)
  <2>1. \A u \in S \cup {s} : f[u] \in Int
    BY <1>8, <1>9 DEF Remaining, LiveOrder
  <2>2. IsFiniteSet(S \cup {s}) /\ (S \cup {s}) \ {s} = S
    BY <1>1, <1>9, FS_AddElement
  <2>3. f[s] = o.remaining
    BY <1>8 DEF Remaining
  <2>4. \A u \in S : f[u] = Remaining(l)[u]
    BY <1>8, <1>9 DEF Remaining
  <2> HIDE DEF f, S
  <2>5. SumFunctionOnSet(f, S \cup {s}) = f[s] + SumFunctionOnSet(f, (S \cup {s}) \ {s})
    BY <2>1, <2>2, SumSplit
  <2>6. SumFunctionOnSet(f, S) = SumFunctionOnSet(Remaining(l), S)
    BY <1>1, <2>4, SumAgree
  <2>7. lv.total_qty = SumFunctionOnSet(Remaining(l), S) /\ lv.total_qty \in Int /\ o.remaining \in Int
    BY DEF Tidy, S, Level, LiveOrder
  <2>8. SumFunctionOnSet(f, S \cup {s}) = lv.total_qty + o.remaining
    <3>1. SumFunctionOnSet(f, S \cup {s}) = o.remaining + SumFunctionOnSet(f, S)
      BY <2>2, <2>3, <2>5
    <3> QED
      BY <2>6, <2>7, <3>1
  <2> QED
    BY <1>3, <1>7, <2>8 DEF f
<1>11. ASSUME NEW i \in DOMAIN r, NEW j \in DOMAIN r, i < j
       PROVE  m[r[i]].since < m[r[j]].since
  <2>1. i \in 1 .. Len(q) /\ r[i] = q[i] /\ q[i] \in S
    BY <1>1, <1>4, <1>6, <1>11 DEF QueuedAt
  <2>2. m[r[i]] = l[q[i]] /\ q[i] \in DOMAIN l
    BY <1>8, <1>9, <2>1
  <2>3. CASE j = Len(q) + 1
    BY <1>4, <1>8, <2>2, <2>3
  <2>4. CASE j # Len(q) + 1
    <3>1. j \in 1 .. Len(q) /\ r[j] = q[j] /\ q[j] \in S
      BY <1>1, <1>4, <1>6, <2>4 DEF QueuedAt
    <3>2. m[r[j]] = l[q[j]]
      BY <1>8, <1>9, <3>1
    <3>3. l[q[i]].since < l[q[j]].since
      BY <1>1, <1>11, <2>1, <3>1 DEF Tidy
    <3> QED
      BY <2>2, <3>2, <3>3
  <2> QED
    BY <2>3, <2>4
<1>12. \A u \in QueuedAt(new) : u \in DOMAIN m /\ m[u].price = new.price
  BY <1>3, <1>7, <1>8, <1>9
<1>13. new.order_count = Len(r) /\ r # <<>>
  <2>1. lv.order_count = Len(q)
    BY DEF Tidy
  <2> QED
    BY <1>1, <1>3, <1>4, <2>1
<1> QED
  BY <1>3, <1>5, <1>7, <1>10, <1>11, <1>12, <1>13 DEF GoodLevel, Tidy

\* An order taken out of its queue.
LEMMA Dequeued ==
  ASSUME NEW lv \in Level, NEW l, l \in [DOMAIN l -> LiveOrder], Tidy(l, lv),
         NEW s \in QueuedAt(lv), NEW m, \A u \in DOMAIN l \ {s} : u \in DOMAIN m /\ m[u] = l[u],
         NEW new, new = Dequeue(lv, s, l[s].remaining)
  PROVE  /\ new \in Level /\ new.price = lv.price
         /\ QueuedAt(new) = QueuedAt(lv) \ {s}
         /\ Tidy(m, new)
<1> DEFINE q == lv.orders
           r == Unlinked(q, s)
           S == QueuedAt(lv)
           From(j, p) == IF j < p THEN j ELSE j + 1
<1>1. /\ q \in Seq(Slots) /\ DOMAIN q = 1 .. Len(q) /\ Len(q) \in Nat
      /\ S \in SUBSET Slots /\ IsFiniteSet(S)
  BY QueuedFacts
<1>2. PICK p \in 1 .. Len(q) : s = q[p]
  BY <1>1 DEF QueuedAt
<1>3. \A j \in 1 .. Len(q) : q[j] = s => j = p
  BY <1>1, <1>2, OnePlace
<1>4. r = Erased(q, p)
  BY <1>1, <1>2, <1>3, UnlinkedIs
<1>5. /\ r \in Seq(Slots) /\ Len(r) = Len(q) - 1 /\ DOMAIN r = 1 .. Len(q) - 1
      /\ \A j \in 1 .. Len(q) - 1 : r[j] = q[From(j, p)]
  <2>1. Erased(q, p) \in Seq(Slots) /\ Len(Erased(q, p)) = Len(q) - 1
    BY <1>1, ErasedFacts
  <2>2. \A j \in 1 .. Len(q) - 1 : Erased(q, p)[j] = IF j < p THEN q[j] ELSE q[j + 1]
    BY <1>1, ErasedFacts
  <2> QED
    BY <1>1, <1>4, <2>1, <2>2
<1>6. \A j \in 1 .. Len(q) - 1 : From(j, p) \in 1 .. Len(q) /\ From(j, p) # p
  BY <1>1
<1>7. \A i, j \in 1 .. Len(q) - 1 : i < j => From(i, p) < From(j, p)
  OBVIOUS
<1>8. \A i \in 1 .. Len(q) : i # p => \E j \in 1 .. Len(q) - 1 : From(j, p) = i
  <2> SUFFICES ASSUME NEW i \in 1 .. Len(q), i # p
               PROVE  \E j \in 1 .. Len(q) - 1 : From(j, p) = i
    OBVIOUS
  <2>1. CASE i < p
    <3>1. i \in 1 .. Len(q) - 1 /\ From(i, p) = i
      BY <1>1, <2>1
    <3> QED
      BY <3>1
  <2>2. CASE i > p
    <3>1. i - 1 \in 1 .. Len(q) - 1 /\ From(i - 1, p) = i
      BY <1>1, <2>2
    <3> QED
      BY <3>1
  <2> QED
    BY <2>1, <2>2
<1>9. /\ new = [price |-> lv.price, orders |-> r, total_qty |-> lv.total_qty - l[s].remaining,
                order_count |-> lv.order_count - 1]
  BY DEF Dequeue, Level
<1> HIDE DEF r, From
<1>10. /\ new.orders = r /\ new.price = lv.price /\ new.total_qty = lv.total_qty - l[s].remaining
       /\ new.order_count = lv.order_count - 1
  BY <1>9
<1>11. S \subseteq DOMAIN l /\ \A u \in S : l[u].price = lv.price /\ l[u] \in LiveOrder
  BY DEF Tidy
<1>12. new \in Level
  <2>1. /\ lv.price \in Prices /\ lv.total_qty - l[s].remaining \in Int /\ lv.order_count - 1 \in Int
    BY <1>11 DEF Level, LiveOrder
  <2> QED
    BY <1>5, <1>9, <2>1 DEF Level
<1>13. QueuedAt(new) = S \ {s}
  <2>1. ASSUME NEW u \in QueuedAt(new) PROVE u \in S \ {s}
    <3>1. PICK j \in 1 .. Len(q) - 1 : u = r[j]
      BY <1>5, <1>10 DEF QueuedAt
    <3>2. u = q[From(j, p)] /\ From(j, p) \in DOMAIN q /\ From(j, p) # p
      BY <1>1, <1>5, <1>6, <3>1
    <3> QED
      BY <1>1, <1>3, <3>2 DEF QueuedAt
  <2>2. ASSUME NEW u \in S \ {s} PROVE u \in QueuedAt(new)
    <3>1. PICK i \in 1 .. Len(q) : u = q[i]
      BY <1>1 DEF QueuedAt
    <3>2. i # p
      BY <1>2, <3>1
    <3>3. PICK j \in 1 .. Len(q) - 1 : From(j, p) = i
      BY <1>8, <3>2
    <3>4. j \in DOMAIN r /\ r[j] = u
      BY <1>5, <3>1, <3>3
    <3> QED
      BY <1>10, <3>4 DEF QueuedAt
  <2> QED
    BY <2>1, <2>2
<1>14. new.total_qty = SumFunctionOnSet(Remaining(m), QueuedAt(new))
  <2> DEFINE f == Remaining(l)
             T == S \ {s}
  <2>1. \A u \in S : f[u] \in Int
    BY <1>11 DEF Remaining, LiveOrder
  <2>2. f[s] = l[s].remaining
    BY <1>11 DEF Remaining
  <2>3. \A u \in T : f[u] = Remaining(m)[u]
    BY <1>11 DEF Remaining
  <2>4. IsFiniteSet(T)
    BY <1>1, FS_Subset
  <2>5. \A u \in T : f[u] \in Int
    BY <2>1
  <2> HIDE DEF f, S
  <2>6. SumFunctionOnSet(f, S) = f[s] + SumFunctionOnSet(f, S \ {s})
    <3>1. s \in S
      BY DEF S
    <3> QED
      BY <1>1, <2>1, <3>1, SumSplit
  <2> HIDE DEF T
  <2>7. SumFunctionOnSet(f, T) = SumFunctionOnSet(Remaining(m), T) /\ SumFunctionOnSet(f, T) \in Int
    BY <2>3, <2>4, <2>5, SumAgree, SumType
  <2>8. lv.total_qty = SumFunctionOnSet(f, S)
    BY DEF Tidy, S, f
  <2>9. l[s].remaining \in Int
    BY <1>11 DEF LiveOrder, S
  <2>10. SumFunctionOnSet(Remaining(m), T) = lv.total_qty - l[s].remaining
    <3>1. lv.total_qty = l[s].remaining + SumFunctionOnSet(Remaining(m), T)
      BY <2>2, <2>6, <2>7, <2>8 DEF T
    <3> QED
      BY <2>7, <2>9, <3>1
  <2> QED
    BY <1>10, <1>13, <2>10 DEF T
<1>15. ASSUME NEW i \in DOMAIN r, NEW j \in DOMAIN r, i < j
       PROVE  m[r[i]].since < m[r[j]].since
  <2>1. /\ i \in 1 .. Len(q) - 1 /\ j \in 1 .. Len(q) - 1
    BY <1>5
  <2>2. From(i, p) < From(j, p) /\ From(i, p) \in DOMAIN q /\ From(j, p) \in DOMAIN q
    BY <1>1, <1>6, <1>7, <1>15, <2>1
  <2>3. l[q[From(i, p)]].since < l[q[From(j, p)]].since
    BY <2>2 DEF Tidy
  <2>4. r[i] = q[From(i, p)] /\ r[j] = q[From(j, p)] /\ r[i] \in S \ {s} /\ r[j] \in S \ {s}
    BY <1>5, <1>10, <1>13, <2>1 DEF QueuedAt
  <2>5. m[r[i]] = l[r[i]] /\ m[r[j]] = l[r[j]]
    BY <1>11, <2>4
  <2> QED
    BY <2>3, <2>4, <2>5
<1>16. new.order_count = Len(r)
  <2>1. lv.order_count = Len(q)
    BY DEF Tidy
  <2> QED
    BY <1>5, <1>10, <2>1
<1>17. \A u \in QueuedAt(new) : u \in DOMAIN m /\ m[u].price = new.price
  BY <1>10, <1>11, <1>13
<1> QED
  BY <1>10, <1>12, <1>13, <1>14, <1>15, <1>16, <1>17 DEF Tidy

\* An order that keeps its place with another quantity.
LEMMA Adjusted ==
  ASSUME NEW lv \in Level, NEW l, l \in [DOMAIN l -> LiveOrder], Tidy(l, lv),
         NEW s \in QueuedAt(lv), NEW x \in Nat,
         NEW m, m = Resized(l, s, x), NEW new, new = Retotalled(lv, x - l[s].remaining)
  PROVE  /\ new \in Level /\ new.price = lv.price
         /\ new.orders = lv.orders /\ QueuedAt(new) = QueuedAt(lv)
         /\ Tidy(m, new)
<1> DEFINE S == QueuedAt(lv)
           old == l[s].remaining
<1>1. S \subseteq DOMAIN l /\ \A u \in S : l[u].price = lv.price
  BY DEF Tidy
<1>2. l[s] \in LiveOrder /\ old \in Int
  BY <1>1 DEF LiveOrder
<1>3. /\ DOMAIN m = DOMAIN l /\ m[s].remaining = x /\ m[s].price = l[s].price
      /\ m[s].since = l[s].since
      /\ \A u \in DOMAIN l \ {s} : m[u] = l[u]
  BY <1>1, <1>2 DEF LiveOrder, Resized
<1>4. /\ new = [price |-> lv.price, orders |-> lv.orders, total_qty |-> lv.total_qty + (x - old),
                order_count |-> lv.order_count]
  BY DEF Level, Retotalled
<1>5. /\ new.price = lv.price /\ new.orders = lv.orders /\ new.order_count = lv.order_count
      /\ new.total_qty = lv.total_qty + (x - old)
  BY <1>4
<1>6. new \in Level
  <2>1. lv.total_qty + (x - old) \in Int
    BY <1>2 DEF Level
  <2> QED
    BY <1>4, <2>1 DEF Level
<1>7. QueuedAt(new) = S
  BY <1>5 DEF QueuedAt
<1>8. new.total_qty = SumFunctionOnSet(Remaining(m), S)
  <2> DEFINE f == Remaining(l)
             g == Remaining(m)
             T == S \ {s}
  <2>1. \A u \in S : f[u] \in Int
    BY <1>1 DEF Remaining, LiveOrder
  <2>2. f[s] = old /\ g[s] = x
    BY <1>1, <1>3 DEF Remaining
  <2>3. \A u \in T : f[u] = g[u]
    BY <1>1, <1>3 DEF Remaining
  <2>4. IsFiniteSet(S) /\ IsFiniteSet(T)
    BY QueuedFacts, FS_Subset
  <2>5. \A u \in S : g[u] \in Int
    <3> HIDE DEF f, g, S
    <3> QED
      BY <2>1, <2>2, <2>3
  <2>6. s \in S /\ lv.total_qty = SumFunctionOnSet(f, S)
    BY DEF Tidy
  <2> HIDE DEF f, g, S
  <2>7. SumFunctionOnSet(f, S) = f[s] + SumFunctionOnSet(f, S \ {s})
    BY <2>1, <2>4, <2>6, SumSplit
  <2>8. SumFunctionOnSet(g, S) = g[s] + SumFunctionOnSet(g, S \ {s})
    BY <2>4, <2>5, <2>6, SumSplit
  <2>9. \A u \in T : f[u] \in Int
    BY <2>1
  <2> HIDE DEF T
  <2>10. SumFunctionOnSet(f, T) = SumFunctionOnSet(g, T) /\ SumFunctionOnSet(f, T) \in Int
    BY <2>3, <2>4, <2>9, SumAgree, SumType
  <2>11. lv.total_qty = old + SumFunctionOnSet(f, T) /\ SumFunctionOnSet(g, S) = x + SumFunctionOnSet(f, T)
    BY <2>2, <2>6, <2>7, <2>8, <2>10 DEF T
  <2> HIDE DEF old
  <2>12. SumFunctionOnSet(g, S) = lv.total_qty + (x - old)
    BY <1>2, <2>10, <2>11
  <2> QED
    BY <1>5, <2>12 DEF g
<1>9. \A u \in S : m[u].since = l[u].since /\ m[u].price = lv.price /\ u \in DOMAIN m
  BY <1>1, <1>3
<1>10. \A i, j \in DOMAIN lv.orders : i < j => m[lv.orders[i]].since < m[lv.orders[j]].since
  <2>1. \A i \in DOMAIN lv.orders : lv.orders[i] \in S
    BY DEF QueuedAt
  <2> QED
    BY <1>9, <2>1 DEF Tidy
<1>11. lv.order_count = Len(lv.orders)
  BY DEF Tidy
<1> QED
  BY <1>5, <1>6, <1>7, <1>8, <1>9, <1>10, <1>11 DEF Tidy

\* An order that loses its place, at time t, by asking for more.
LEMMA Regrown ==
  ASSUME NEW lv \in Level, NEW l, l \in [DOMAIN l -> LiveOrder], Tidy(l, lv),
         NEW s \in QueuedAt(lv), NEW x \in Nat, x > l[s].remaining, NEW t \in Nat,
         \A u \in DOMAIN l : l[u].since < t,
         NEW m, m = Restarted(l, s, x, t),
         NEW new, new = Requeue(lv, s, l[s].remaining, x)
  PROVE  /\ new \in Level /\ new.price = lv.price
         /\ QueuedAt(new) = QueuedAt(lv)
         /\ GoodLevel(m, new)
<1> DEFINE out == Dequeue(lv, s, l[s].remaining)
           o == [l[s] EXCEPT !.remaining = x, !.since = t]
           l0 == Drop(l, s)
<1>1. s \in DOMAIN l /\ l[s] \in LiveOrder /\ l[s].price = lv.price /\ s \in Slots
  BY QueuedFacts DEF Tidy
<1>2. DOMAIN l0 = DOMAIN l \ {s} /\ \A u \in DOMAIN l \ {s} : l0[u] = l[u]
  BY DEF Drop
<1>3. out \in Level /\ out.price = lv.price /\ QueuedAt(out) = QueuedAt(lv) \ {s} /\ Tidy(l0, out)
  BY <1>2, Dequeued
<1>4. o \in LiveOrder /\ o.price = lv.price /\ o.since = t /\ o.remaining = x
  BY <1>1 DEF LiveOrder
<1>5. l0 \in [DOMAIN l0 -> LiveOrder]
  BY <1>2 DEF Drop
<1>6. m = Put(l0, s, o)
  BY <1>1, <1>2 DEF Put, Drop, Restarted
<1>7. new = Enqueue(out, s, x)
  <2>1. /\ lv.total_qty \in Int /\ lv.order_count \in Int /\ l[s].remaining \in Int
    BY <1>1 DEF Level, LiveOrder
  <2> DEFINE q == Unlinked(lv.orders, s)
             d == l[s].remaining
  <2>2. out = [lv EXCEPT !.orders = q, !.total_qty = lv.total_qty - d, !.order_count = lv.order_count - 1]
    BY DEF Dequeue
  <2> HIDE DEF q, d, out
  <2>3. out = [price |-> lv.price, orders |-> q, total_qty |-> lv.total_qty - d,
               order_count |-> lv.order_count - 1]
    BY <2>2 DEF Level
  <2>4. Enqueue(out, s, x) =
          [price |-> lv.price, orders |-> Append(q, s), total_qty |-> (lv.total_qty - d) + x,
           order_count |-> (lv.order_count - 1) + 1]
    <3> DEFINE e == Enqueue(out, s, x)
    <3>1. e = [out EXCEPT !.orders = Append(out.orders, s), !.total_qty = out.total_qty + x,
                          !.order_count = out.order_count + 1]
      BY DEF Enqueue
    <3> HIDE DEF e
    <3>2. e = [price |-> out.price, orders |-> Append(out.orders, s), total_qty |-> out.total_qty + x,
               order_count |-> out.order_count + 1]
      BY <1>3, <3>1 DEF Level
    <3> QED
      BY <2>3, <3>2 DEF e
  <2>5. new = [price |-> lv.price, orders |-> Append(q, s), total_qty |-> lv.total_qty + (x - d),
               order_count |-> lv.order_count]
    <3>1. new = [lv EXCEPT !.orders = Append(q, s), !.total_qty = lv.total_qty + (x - d)]
      BY DEF Requeue, q, d
    <3> QED
      BY <3>1 DEF Level
  <2>6. lv.total_qty + (x - d) = (lv.total_qty - d) + x /\ (lv.order_count - 1) + 1 = lv.order_count
    BY <2>1 DEF d
  <2> QED
    BY <2>4, <2>5, <2>6
<1> HIDE DEF out, o, l0
<1>8. /\ out \in Level /\ l0 \in [DOMAIN l0 -> LiveOrder] /\ Tidy(l0, out)
      /\ s \in Slots /\ s \notin DOMAIN l0 /\ o \in LiveOrder /\ o.price = out.price
      /\ \A u \in DOMAIN l0 : l0[u].since < o.since
      /\ m = Put(l0, s, o) /\ new = Enqueue(out, s, o.remaining)
  BY <1>1, <1>2, <1>3, <1>4, <1>5, <1>6, <1>7
<1>9. /\ new \in Level /\ new.price = out.price /\ QueuedAt(new) = QueuedAt(out) \cup {s}
      /\ GoodLevel(m, new)
  BY ONLY <1>8, Enqueued
<1> QED
  BY <1>3, <1>9

-----------------------------------------------------------------------------
\* The levels of one side of the book.
LEMMA SideFacts ==
  ASSUME NEW L \in [Sides -> Seq(Level)], NEW side \in Sides
  PROVE  /\ L[side] \in Seq(Level) /\ Len(L[side]) \in Nat
         /\ DOMAIN L[side] = 1 .. Len(L[side])
         /\ \A i \in DOMAIN L[side] : L[side][i] \in Level /\ L[side][i] \in Range(L[side])
         /\ \A lv \in Range(L[side]) : lv \in Level /\ \E i \in DOMAIN L[side] : lv = L[side][i]
<1>1. L[side] \in Seq(Level)
  OBVIOUS
<1> QED
  BY <1>1 DEF Range

\* In a sorted side a level is known by its price.
LEMMA SameLevel ==
  ASSUME NEW ls \in Seq(Level), NEW side, Ordered(side, ls),
         NEW i \in DOMAIN ls, NEW j \in DOMAIN ls, ls[i].price = ls[j].price
  PROVE  i = j
<1>1. i \in Nat /\ j \in Nat /\ ls[i] \in Level
  OBVIOUS
<1>2. ls[i].price \in Int
  BY <1>1, BookAssumption DEF Level
<1>3. ~(i < j) /\ ~(j < i)
  BY <1>2 DEF Ordered, Better
<1> QED
  BY <1>1, <1>3

\* Two levels of the book never have the same price.
LEMMA OneLevel ==
  ASSUME NEW L, NEW l, NEW k, BookOK(L, l, k), NEW a \in Sides, NEW b \in Sides,
         NEW lv \in Range(L[a]), NEW lu \in Range(L[b]), lv.price = lu.price
  PROVE  a = b /\ lv = lu
<1>1. L \in [Sides -> Seq(Level)]
  BY DEF BookOK, BookTypes
<1>2. lv \in Level /\ lu \in Level
  BY <1>1, SideFacts
<1>3. lv.price \in Int
  BY <1>2, BookAssumption DEF Level
<1>4. a = b
  <2>1. CASE a = "Buy" /\ b = "Sell"
    BY <1>3, <2>1 DEF BookOK, Apart
  <2>2. CASE a = "Sell" /\ b = "Buy"
    BY <1>3, <2>2 DEF BookOK, Apart
  <2> QED
    BY <2>1, <2>2 DEF Sides
<1>5. PICK i \in DOMAIN L[a] : lv = L[a][i]
  BY DEF Range
<1>6. PICK j \in DOMAIN L[a] : lu = L[a][j]
  BY <1>4 DEF Range
<1>7. Ordered(a, L[a]) /\ L[a] \in Seq(Level)
  BY <1>1 DEF BookOK
<1>8. i = j
  BY <1>5, <1>6, <1>7, SameLevel
<1> QED
  BY <1>4, <1>5, <1>6, <1>8

\* No order waits at two levels.
LEMMA OneQueue ==
  ASSUME NEW L, NEW l, NEW k, BookOK(L, l, k), NEW a \in Sides, NEW b \in Sides,
         NEW lv \in Range(L[a]), NEW lu \in Range(L[b]), NEW s \in QueuedAt(lv), s \in QueuedAt(lu)
  PROVE  a = b /\ lv = lu
<1>1. GoodLevel(l, lv) /\ GoodLevel(l, lu)
  BY DEF BookOK
<1>2. lv.price = lu.price
  BY <1>1 DEF GoodLevel, Tidy
<1> QED
  BY <1>2, OneLevel

\* Such a step keeps the book in order.
LEMMA Changed ==
  ASSUME NEW L, NEW l, NEW k, BookOK(L, l, k), NEW side \in Sides, NEW ls, Ordered(side, ls),
         NEW Old, NEW New, Range(ls) = (Range(L[side]) \ Old) \cup New,
         NEW M, M = Updated(L, side, ls), Apart(M),
         NEW m, NEW n, BookTypes(M, m, n), Indexed(m, n), NEW s,
         OnlyChanges(l, m, s), Rehoused(L, side, Old, New, m, s)
  PROVE  BookOK(M, m, n)
<1>1. L \in [Sides -> Seq(Level)] /\ M \in [Sides -> Seq(Level)]
  BY DEF BookOK, BookTypes
<1>2. M[side] = ls /\ \A b \in Sides : b # side => M[b] = L[b]
  BY <1>1 DEF Updated
<1>3. ASSUME NEW b \in Sides PROVE Ordered(b, M[b])
  BY <1>2 DEF BookOK
<1>4. ASSUME NEW b \in Sides, NEW lv \in Range(M[b]) PROVE GoodLevel(m, lv)
  <2>1. CASE b = side /\ lv \in New
    BY <2>1 DEF Rehoused
  <2>2. CASE ~(b = side /\ lv \in New)
    <3>1. lv \in Range(L[b]) /\ ~(b = side /\ lv \in Old)
      BY <1>2, <1>4, <2>2
    <3>2. lv \in Level /\ GoodLevel(l, lv) /\ s \notin QueuedAt(lv)
      BY <1>1, <3>1, SideFacts DEF BookOK, Rehoused
    <3>3. \A u \in QueuedAt(lv) : u \in DOMAIN m /\ m[u] = l[u]
      BY <3>2 DEF GoodLevel, Tidy, OnlyChanges
    <3>4. Tidy(m, lv)
      BY <3>2, <3>3, TidyKept DEF GoodLevel
    <3> QED
      BY <3>2, <3>4 DEF GoodLevel
  <2> QED
    BY <2>1, <2>2
<1>5. ASSUME NEW u \in DOMAIN m PROVE \E b \in Sides : \E lv \in Range(M[b]) : u \in QueuedAt(lv)
  <2>1. New \subseteq Range(M[side])
    BY <1>2
  <2>2. CASE u = s
    BY <2>1, <2>2 DEF Rehoused
  <2>3. CASE u # s
    <3>1. PICK b \in Sides : \E lv \in Range(L[b]) : u \in QueuedAt(lv)
      BY <2>3 DEF BookOK, OnlyChanges
    <3>2. PICK lv \in Range(L[b]) : u \in QueuedAt(lv)
      BY <3>1
    <3>3. CASE b = side /\ lv \in Old
      BY <2>1, <2>3, <3>2, <3>3 DEF Rehoused
    <3>4. CASE ~(b = side /\ lv \in Old)
      <4>1. lv \in Range(M[b])
        BY <1>2, <3>2, <3>4
      <4> QED
        BY <3>2, <4>1
    <3> QED
      BY <3>3, <3>4
  <2> QED
    BY <2>2, <2>3
<1> QED
  BY <1>3, <1>4, <1>5 DEF BookOK

\* A side that gets no new price stays clear of the other one.
LEMMA StillApart ==
  ASSUME NEW L \in [Sides -> Seq(Level)], Apart(L), NEW side \in Sides, NEW ls,
         NEW M, M = Updated(L, side, ls),
         \A lv \in Range(ls) : \E lu \in Range(L[side]) : lu.price = lv.price
  PROVE  Apart(M)
<1>1. M[side] = ls /\ \A b \in Sides : b # side => M[b] = L[b]
  BY DEF Updated
<1>2. "Buy" \in Sides /\ "Sell" \in Sides
  BY DEF Sides
<1>3. CASE side = "Buy"
  BY <1>1, <1>2, <1>3 DEF Apart
<1>4. CASE side = "Sell"
  BY <1>1, <1>2, <1>4 DEF Apart
<1> QED
  BY <1>3, <1>4 DEF Sides

\* So does one that gets a price clear of the other side.
LEMMA JoinedApart ==
  ASSUME NEW L \in [Sides -> Seq(Level)], Apart(L), NEW side \in Sides, NEW ls,
         NEW M, M = Updated(L, side, ls), NEW price,
         \A lu \in Range(L[Opposite(side)]) : Better(Opposite(side), price, lu.price),
         \A lv \in Range(ls) : (\E lu \in Range(L[side]) : lu.price = lv.price) \/ lv.price = price
  PROVE  Apart(M)
<1>1. M[side] = ls /\ \A b \in Sides : b # side => M[b] = L[b]
  BY DEF Updated
<1>2. "Buy" \in Sides /\ "Sell" \in Sides
  BY DEF Sides
<1>3. CASE side = "Buy"
  <2>1. \A lu \in Range(L["Sell"]) : price < lu.price
    BY <1>3 DEF Opposite, Better
  <2> QED
    BY <1>1, <1>2, <1>3, <2>1 DEF Apart
<1>4. CASE side = "Sell"
  <2>1. \A lu \in Range(L["Buy"]) : price > lu.price
    BY <1>4 DEF Opposite, Better
  <2>2. ASSUME NEW b \in Range(M["Buy"]), NEW a \in Range(M["Sell"]) PROVE b.price < a.price
    <3>1. b \in Range(L["Buy"]) /\ a \in Range(ls)
      BY <1>1, <1>2, <1>4
    <3>2. CASE a.price = price
      BY <2>1, <3>1, <3>2
    <3>3. CASE \E lu \in Range(L["Sell"]) : lu.price = a.price
      BY <1>4, <3>1, <3>3 DEF Apart
    <3> QED
      BY <1>4, <3>1, <3>2, <3>3
  <2> QED
    BY <2>2 DEF Apart
<1> QED
  BY <1>3, <1>4 DEF Sides

\* A level updated in place.
LEMMA ReplacedLevels ==
  ASSUME NEW ls \in Seq(Level), NEW side, Ordered(side, ls), NEW i \in DOMAIN ls,
         NEW new \in Level, new.price = ls[i].price, NEW r, r = Updated(ls, i, new)
  PROVE  /\ r \in Seq(Level) /\ Ordered(side, r)
         /\ Range(r) = (Range(ls) \ {ls[i]}) \cup {new}
<1>1. r \in Seq(Level) /\ DOMAIN r = DOMAIN ls
  BY DEF Updated
<1>2. \A j \in DOMAIN ls : r[j] = IF j = i THEN new ELSE ls[j]
  BY DEF Updated
<1>3. \A j \in DOMAIN ls : r[j].price = ls[j].price
  BY <1>2
<1>4. Ordered(side, r)
  BY <1>1, <1>3 DEF Ordered
<1>5. \A j \in DOMAIN ls : ls[j] = ls[i] => j = i
  BY SameLevel
<1>6. ASSUME NEW lv \in Range(r) PROVE lv \in (Range(ls) \ {ls[i]}) \cup {new}
  BY <1>1, <1>2, <1>5 DEF Range
<1>7. ASSUME NEW lv \in (Range(ls) \ {ls[i]}) \cup {new} PROVE lv \in Range(r)
  BY <1>1, <1>2 DEF Range
<1> QED
  BY <1>1, <1>4, <1>6, <1>7

\* A level unlinked.
LEMMA RemovedLevels ==
  ASSUME NEW ls \in Seq(Level), NEW side, Ordered(side, ls), NEW i \in DOMAIN ls,
         NEW r, r = Erased(ls, i)
  PROVE  /\ r \in Seq(Level) /\ Ordered(side, r)
         /\ Range(r) = Range(ls) \ {ls[i]}
<1> DEFINE From(j) == IF j < i THEN j ELSE j + 1
<1>1. i \in 1 .. Len(ls) /\ Len(ls) \in Nat /\ DOMAIN ls = 1 .. Len(ls)
  OBVIOUS
<1>2. /\ r \in Seq(Level) /\ Len(r) = Len(ls) - 1
      /\ \A j \in 1 .. Len(ls) - 1 : r[j] = IF j < i THEN ls[j] ELSE ls[j + 1]
  BY <1>1, ErasedFacts
<1>3. DOMAIN r = 1 .. Len(ls) - 1
  BY <1>2
<1>4. \A j \in DOMAIN r : r[j] = ls[From(j)] /\ From(j) \in DOMAIN ls /\ From(j) # i
  BY <1>1, <1>2, <1>3
<1>5. \A j, h \in DOMAIN r : j < h => From(j) < From(h)
  BY <1>3
<1>6. Ordered(side, r)
  <2> HIDE DEF From
  <2> QED
    BY <1>4, <1>5 DEF Ordered
<1>7. \A j \in DOMAIN ls : ls[j] = ls[i] => j = i
  BY SameLevel
<1>8. ASSUME NEW lv \in Range(r) PROVE lv \in Range(ls) \ {ls[i]}
  <2>1. PICK j \in DOMAIN r : lv = r[j]
    BY DEF Range
  <2> HIDE DEF From
  <2> QED
    BY <1>4, <1>7, <2>1 DEF Range
<1>9. ASSUME NEW lv \in Range(ls) \ {ls[i]} PROVE lv \in Range(r)
  <2>1. PICK j \in 1 .. Len(ls) : lv = ls[j]
    BY <1>1 DEF Range
  <2>2. j # i
    BY <2>1
  <2>3. CASE j < i
    <3>1. j \in DOMAIN r /\ r[j] = lv
      BY <1>1, <1>2, <1>3, <2>1, <2>3
    <3> QED
      BY <3>1 DEF Range
  <2>4. CASE j > i
    <3>1. j - 1 \in DOMAIN r /\ ~(j - 1 < i) /\ (j - 1) + 1 = j
      BY <1>1, <1>3, <2>4
    <3>2. r[j - 1] = lv
      BY <1>2, <1>3, <2>1, <3>1
    <3> QED
      BY <3>1, <3>2 DEF Range
  <2> QED
    BY <1>1, <2>2, <2>3, <2>4
<1> QED
  BY <1>2, <1>6, <1>8, <1>9

\* A new level linked in at position p.
LEMMA InsertedLevels ==
  ASSUME NEW ls \in Seq(Level), NEW side, Ordered(side, ls), NEW p \in 1 .. Len(ls) + 1,
         NEW new \in Level, NEW r, r = Inserted(ls, p, new),
         \A j \in 1 .. p - 1 : Better(side, ls[j].price, new.price),
         \A j \in p .. Len(ls) : Better(side, new.price, ls[j].price)
  PROVE  /\ r \in Seq(Level) /\ Ordered(side, r)
         /\ Range(r) = Range(ls) \cup {new}
<1>1. Len(ls) \in Nat /\ DOMAIN ls = 1 .. Len(ls)
  OBVIOUS
<1>2. /\ r \in Seq(Level) /\ Len(r) = Len(ls) + 1
      /\ \A j \in 1 .. p - 1 : r[j] = ls[j]
      /\ r[p] = new
      /\ \A j \in p + 1 .. Len(ls) + 1 : r[j] = ls[j - 1]
  BY <1>1, InsertedFacts
<1>3. \A j \in 1 .. Len(ls) + 1 :
        r[j] = IF j < p THEN ls[j] ELSE IF j = p THEN new ELSE ls[j - 1]
  BY <1>1, <1>2
<1>4. DOMAIN r = 1 .. Len(ls) + 1
  BY <1>2
<1>5. ASSUME NEW i \in DOMAIN r, NEW j \in DOMAIN r, i < j
      PROVE  Better(side, r[i].price, r[j].price)
  <2>1. CASE j < p
    <3>1. r[i] = ls[i] /\ r[j] = ls[j] /\ i \in DOMAIN ls /\ j \in DOMAIN ls
      BY <1>1, <1>3, <1>4, <1>5, <2>1
    <3> QED
      BY <1>5, <3>1 DEF Ordered
  <2>2. CASE j = p
    <3>1. r[i] = ls[i] /\ r[j] = new /\ i \in 1 .. p - 1
      BY <1>1, <1>3, <1>4, <1>5, <2>2
    <3> QED
      BY <3>1
  <2>3. CASE j > p /\ i = p
    <3>1. r[i] = new /\ r[j] = ls[j - 1] /\ j - 1 \in p .. Len(ls)
      BY <1>1, <1>3, <1>4, <1>5, <2>3
    <3> QED
      BY <3>1
  <2>4. CASE j > p /\ i < p
    <3>1. r[i] = ls[i] /\ r[j] = ls[j - 1] /\ i \in DOMAIN ls /\ j - 1 \in DOMAIN ls /\ i < j - 1
      BY <1>1, <1>3, <1>4, <2>4
    <3> QED
      BY <3>1 DEF Ordered
  <2>5. CASE j > p /\ i > p
    <3>1. r[i] = ls[i - 1] /\ r[j] = ls[j - 1] /\ i - 1 \in DOMAIN ls /\ j - 1 \in DOMAIN ls
          /\ i - 1 < j - 1
      BY <1>1, <1>3, <1>4, <1>5, <2>5
    <3> QED
      BY <3>1 DEF Ordered
  <2> QED
    BY <1>1, <1>4, <2>1, <2>2, <2>3, <2>4, <2>5
<1>6. ASSUME NEW lv \in Range(r) PROVE lv \in Range(ls) \cup {new}
  <2>1. PICK j \in DOMAIN r : lv = r[j]
    BY DEF Range
  <2>2. lv = new \/ (j < p /\ lv = ls[j] /\ j \in DOMAIN ls) \/ (lv = ls[j - 1] /\ j - 1 \in DOMAIN ls)
    BY <1>1, <1>3, <1>4, <2>1
  <2> QED
    BY <2>2 DEF Range
<1>7. ASSUME NEW lv \in Range(ls) PROVE lv \in Range(r)
  <2>1. PICK j \in 1 .. Len(ls) : lv = ls[j]
    BY <1>1 DEF Range
  <2>2. CASE j < p
    <3>1. j \in DOMAIN r /\ r[j] = lv
      BY <1>1, <1>3, <1>4, <2>1, <2>2
    <3> QED
      BY <3>1 DEF Range
  <2>3. CASE j >= p
    <3>1. j + 1 \in DOMAIN r /\ ~(j + 1 < p) /\ j + 1 # p /\ (j + 1) - 1 = j
      BY <1>1, <1>4, <2>3
    <3>2. r[j + 1] = lv
      BY <1>3, <1>4, <2>1, <3>1
    <3> QED
      BY <3>1, <3>2 DEF Range
  <2> QED
    BY <1>1, <2>2, <2>3
<1>8. new \in Range(r)
  <2>1. p \in DOMAIN r /\ r[p] = new
    BY <1>1, <1>3, <1>4
  <2> QED
    BY <2>1 DEF Range
<1> QED
  BY <1>2, <1>5, <1>6, <1>7, <1>8 DEF Ordered

\* A level of the book updated because of order s, and unlinked if it is empty.
LEMMA LevelSettled ==
  ASSUME NEW L, NEW l, NEW k, BookOK(L, l, k), NEW side \in Sides, NEW i \in DOMAIN L[side],
         NEW new \in Level, new.price = L[side][i].price,
         NEW m, NEW n, Entries(m, n), Indexed(m, n), Tidy(m, new), NEW s,
         OnlyChanges(l, m, s),
         s \in QueuedAt(L[side][i]) \/ s \notin DOMAIN l,
         QueuedAt(L[side][i]) \ {s} \subseteq QueuedAt(new),
         s \in DOMAIN m => s \in QueuedAt(new),
         NEW ls, ls = IF new.orders = <<>> THEN Erased(L[side], i) ELSE Updated(L[side], i, new),
         NEW M, M = Updated(L, side, ls)
  PROVE  BookOK(M, m, n)
<1> DEFINE lv == L[side][i]
           Old == {lv}
           New == IF new.orders = <<>> THEN {} ELSE {new}
<1>1. L \in [Sides -> Seq(Level)] /\ L[side] \in Seq(Level) /\ Ordered(side, L[side]) /\ Apart(L)
  BY DEF BookOK, BookTypes
<1>2. ls \in Seq(Level) /\ Ordered(side, ls) /\ Range(ls) = (Range(L[side]) \ Old) \cup New
  <2>1. CASE new.orders = <<>>
    BY <1>1, <2>1, RemovedLevels
  <2>2. CASE new.orders # <<>>
    BY <1>1, <2>2, ReplacedLevels
  <2> QED
    BY <2>1, <2>2
<1>3. lv \in Range(L[side])
  BY DEF Range
<1>4. \A lu \in Range(ls) : \E x \in Range(L[side]) : x.price = lu.price
  <2>1. \A x \in New : x.price = lv.price
    OBVIOUS
  <2> HIDE DEF lv, New
  <2> QED
    BY <1>2, <1>3, <2>1
<1>5. Apart(M)
  BY <1>1, <1>4, StillApart
<1>6. BookTypes(M, m, n)
  BY <1>1, <1>2 DEF BookTypes, Updated
<1>7. ASSUME NEW b \in Sides, NEW lu \in Range(L[b]), s \in QueuedAt(lu)
      PROVE  b = side /\ lu \in Old
  <2>1. s \in DOMAIN l
    BY <1>7 DEF BookOK, GoodLevel, Tidy
  <2>2. s \in QueuedAt(lv)
    BY <2>1
  <2> HIDE DEF lv
  <2>3. b = side /\ lu = lv
    BY <1>3, <1>7, <2>2, OneQueue
  <2> QED
    BY <2>3
<1>8. \A x \in New : GoodLevel(m, x)
  BY DEF GoodLevel
<1>9. new.orders = <<>> => QueuedAt(new) = {}
  BY DEF QueuedAt
<1>10. \A x \in Old : \A u \in QueuedAt(x) \ {s} : \E y \in New : u \in QueuedAt(y)
  <2> SUFFICES ASSUME NEW u \in QueuedAt(lv) \ {s} PROVE \E y \in New : u \in QueuedAt(y)
    OBVIOUS
  <2>1. u \in QueuedAt(new)
    OBVIOUS
  <2> QED
    BY <1>9, <2>1
<1>11. s \in DOMAIN m => \E y \in New : s \in QueuedAt(y)
  BY <1>9
<1>12. Rehoused(L, side, Old, New, m, s)
  <2> HIDE DEF Old, New, lv
  <2> QED
    BY <1>7, <1>8, <1>10, <1>11 DEF Rehoused
<1> HIDE DEF Old, New, lv
<1> QED
  BY <1>2, <1>5, <1>6, <1>12, Changed

\* The level that cancel, modify_qty and fill_order find for a live order is the
\* one where it waits.
LEMMA Located ==
  ASSUME BookOK(levels, live, lookup), NEW s \in DOMAIN live,
         NEW side, side = LocateSide(live[s].price), NEW i, i = LevelAt(side, live[s].price)
  PROVE  /\ side \in Sides /\ i \in DOMAIN levels[side]
         /\ levels[side][i] \in Level /\ levels[side][i] \in Range(levels[side])
         /\ GoodLevel(live, levels[side][i])
         /\ levels[side][i].price = live[s].price /\ s \in QueuedAt(levels[side][i])
<1> DEFINE p == live[s].price
<1>1. levels \in [Sides -> Seq(Level)] /\ "Buy" \in Sides /\ "Sell" \in Sides
  BY DEF BookOK, BookTypes, Sides
<1>2. PICK b \in Sides : \E lv \in Range(levels[b]) : s \in QueuedAt(lv)
  BY DEF BookOK
<1>3. PICK lv \in Range(levels[b]) : s \in QueuedAt(lv)
  BY <1>2
<1>4. lv.price = p
  BY <1>3 DEF BookOK, GoodLevel, Tidy
<1>5. PICK j \in DOMAIN levels[b] : lv = levels[b][j]
  BY DEF Range
<1>6. HasLevel(b, p)
  BY <1>4, <1>5 DEF HasLevel
<1>7. HasLevel(side, p) /\ side \in Sides
  <2>1. CASE HasLevel("Buy", p)
    BY <1>1, <2>1 DEF LocateSide
  <2>2. CASE ~HasLevel("Buy", p)
    BY <1>1, <1>6, <2>2 DEF LocateSide, Sides
  <2> QED
    BY <2>1, <2>2
<1>8. i \in DOMAIN levels[side] /\ levels[side][i].price = p
  BY <1>7 DEF HasLevel, LevelAt
<1>9. levels[side][i] \in Level /\ levels[side][i] \in Range(levels[side])
  BY <1>1, <1>7, <1>8, SideFacts
<1>10. levels[side][i] = lv
  BY <1>4, <1>7, <1>8, <1>9, OneLevel
<1>11. GoodLevel(live, levels[side][i])
  BY <1>7, <1>9 DEF BookOK
<1> QED
  BY <1>3, <1>7, <1>8, <1>9, <1>10, <1>11

-----------------------------------------------------------------------------
\* The pool and the lookup without an order.
LEMMA Dropped ==
  ASSUME NEW l, NEW k, Entries(l, k), Indexed(l, k), NEW s \in DOMAIN l,
         NEW m, m = Drop(l, s), NEW n, n = Drop(k, l[s].id)
  PROVE  Entries(m, n) /\ Indexed(m, n) /\ OnlyChanges(l, m, s) /\ s \notin DOMAIN m
<1>1. /\ DOMAIN m = DOMAIN l \ {s} /\ \A u \in DOMAIN m : m[u] = l[u]
      /\ DOMAIN n = DOMAIN k \ {l[s].id} /\ \A id \in DOMAIN n : n[id] = k[id]
  BY DEF Drop
<1>2. Entries(m, n)
  BY DEF Entries, Drop
<1>3. k[l[s].id] = s
  BY DEF Indexed
<1>4. ASSUME NEW u \in DOMAIN m PROVE m[u].id \in DOMAIN n /\ n[m[u].id] = u
  <2>1. l[u].id \in DOMAIN k /\ k[l[u].id] = u /\ u # s /\ m[u] = l[u]
    BY <1>1 DEF Indexed
  <2>2. l[u].id # l[s].id
    BY <1>3, <2>1
  <2> QED
    BY <1>1, <2>1, <2>2
<1>5. ASSUME NEW id \in DOMAIN n PROVE n[id] \in DOMAIN m /\ m[n[id]].id = id
  <2>1. id \in DOMAIN k /\ id # l[s].id /\ n[id] = k[id] /\ k[id] \in DOMAIN l /\ l[k[id]].id = id
    BY <1>1 DEF Indexed
  <2>2. k[id] # s
    BY <2>1
  <2> QED
    BY <1>1, <2>1, <2>2
<1> QED
  BY <1>1, <1>2, <1>4, <1>5 DEF Indexed, OnlyChanges

\* An order that leaves the book, cancelled or filled.
LEMMA RemovedOrder ==
  ASSUME BookOK(levels, live, lookup), NEW s \in DOMAIN live,
         NEW side, side = LocateSide(live[s].price), NEW i, i = LevelAt(side, live[s].price),
         NEW M, M = Updated(levels, side,
                            Settle(side, i, Dequeue(levels[side][i], s, live[s].remaining))),
         NEW m, m = Drop(live, s), NEW n, n = Drop(lookup, live[s].id)
  PROVE  BookOK(M, m, n)
<1> DEFINE lv == levels[side][i]
           new == Dequeue(lv, s, live[s].remaining)
           ls == Settle(side, i, new)
<1>1. Entries(live, lookup) /\ Indexed(live, lookup)
  BY DEF BookOK, BookTypes
<1>2. Entries(m, n) /\ Indexed(m, n) /\ OnlyChanges(live, m, s) /\ s \notin DOMAIN m
  BY <1>1, Dropped
<1>3. /\ side \in Sides /\ i \in DOMAIN levels[side] /\ lv \in Level /\ GoodLevel(live, lv)
      /\ s \in QueuedAt(lv)
  BY Located
<1>4. Tidy(live, lv) /\ live \in [DOMAIN live -> LiveOrder]
  BY <1>1, <1>3 DEF GoodLevel, Entries
<1>5. \A u \in DOMAIN live \ {s} : u \in DOMAIN m /\ m[u] = live[u]
  BY <1>2 DEF OnlyChanges
<1> HIDE DEF lv
<1>6. new \in Level /\ new.price = lv.price /\ QueuedAt(new) = QueuedAt(lv) \ {s} /\ Tidy(m, new)
  BY <1>3, <1>4, <1>5, Dequeued
<1>7. ls = IF new.orders = <<>> THEN Erased(levels[side], i) ELSE Updated(levels[side], i, new)
  BY DEF Settle, Updated
<1>8. M = Updated(levels, side, ls)
  BY DEF lv
<1> HIDE DEF new, ls
<1> QED
  BY <1>2, <1>3, <1>6, <1>7, <1>8, LevelSettled DEF lv

\* cancel keeps the book in order.
LEMMA CancelOK ==
  ASSUME BookOK(levels, live, lookup), NEW id, Cancel(id)
  PROVE  BookOK(levels', live', lookup')
<1> DEFINE s == lookup[id]
           side == LocateSide(live[s].price)
           i == LevelAt(side, live[s].price)
<1>1. id \in DOMAIN lookup /\ Indexed(live, lookup)
  BY DEF Cancel, BookOK
<1>2. s \in DOMAIN live /\ live[s].id = id
  BY <1>1 DEF Indexed
<1>3. levels' = Updated(levels, side, Settle(side, i, Dequeue(levels[side][i], s, live[s].remaining)))
  BY DEF Cancel, Updated
<1>4. lookup' = Drop(lookup, live[s].id) /\ live' = Drop(live, s)
  BY <1>2 DEF Cancel
<1> HIDE DEF s
<1> QED
  BY <1>2, <1>3, <1>4, RemovedOrder

\* The pool and the lookup after a change of an order's quantity and place.
LEMMA Kept ==
  ASSUME NEW l, NEW k, Entries(l, k), Indexed(l, k), NEW s \in DOMAIN l,
         NEW m, DOMAIN m = DOMAIN l, m \in [DOMAIN m -> LiveOrder], m[s].id = l[s].id,
         \A u \in DOMAIN l \ {s} : m[u] = l[u]
  PROVE  Entries(m, k) /\ Indexed(m, k) /\ OnlyChanges(l, m, s)
<1>1. \A u \in DOMAIN l : m[u].id = l[u].id
  OBVIOUS
<1>2. Entries(m, k)
  BY DEF Entries
<1>3. Indexed(m, k)
  BY <1>1 DEF Indexed
<1>4. OnlyChanges(l, m, s)
  BY DEF OnlyChanges
<1> QED
  BY <1>2, <1>3, <1>4

\* An order that keeps its place in the book with another quantity.
LEMMA ResizedOrder ==
  ASSUME BookOK(levels, live, lookup), NEW s \in DOMAIN live, NEW x \in Nat,
         NEW side, side = LocateSide(live[s].price), NEW i, i = LevelAt(side, live[s].price),
         NEW new, new = Retotalled(levels[side][i], x - live[s].remaining),
         NEW M, M = Updated(levels, side, Updated(levels[side], i, new)),
         NEW m, m = Resized(live, s, x)
  PROVE  BookOK(M, m, lookup)
<1> DEFINE lv == levels[side][i]
           ls == Updated(levels[side], i, new)
<1>1. Entries(live, lookup) /\ Indexed(live, lookup) /\ live \in [DOMAIN live -> LiveOrder]
  BY DEF BookOK, BookTypes, Entries
<1>2. /\ DOMAIN m = DOMAIN live /\ m \in [DOMAIN m -> LiveOrder] /\ m[s].id = live[s].id
      /\ \A u \in DOMAIN live \ {s} : m[u] = live[u]
  BY <1>1 DEF Resized, LiveOrder
<1>3. Entries(m, lookup) /\ Indexed(m, lookup) /\ OnlyChanges(live, m, s)
  BY <1>1, <1>2, Kept
<1>4. /\ side \in Sides /\ i \in DOMAIN levels[side] /\ lv \in Level /\ GoodLevel(live, lv)
      /\ s \in QueuedAt(lv)
  BY Located
<1>5. Tidy(live, lv) /\ lv.orders # <<>>
  BY <1>4 DEF GoodLevel
<1> HIDE DEF lv
<1>6. /\ new \in Level /\ new.price = lv.price /\ new.orders = lv.orders
      /\ QueuedAt(new) = QueuedAt(lv) /\ Tidy(m, new)
  BY <1>1, <1>4, <1>5, Adjusted DEF lv
<1>7. ls = IF new.orders = <<>> THEN Erased(levels[side], i) ELSE Updated(levels[side], i, new)
  BY <1>5, <1>6
<1>8. M = Updated(levels, side, ls)
  OBVIOUS
<1>9. /\ BookOK(levels, live, lookup) /\ side \in Sides /\ i \in DOMAIN levels[side]
      /\ new \in Level /\ new.price = levels[side][i].price
      /\ Tidy(m, new) /\ s \in QueuedAt(levels[side][i])
      /\ QueuedAt(levels[side][i]) \ {s} \subseteq QueuedAt(new) /\ s \in QueuedAt(new)
  BY <1>4, <1>6 DEF lv
<1> HIDE DEF ls
<1> QED
  BY ONLY <1>3, <1>7, <1>8, <1>9, LevelSettled

\* An order that goes to the end of its queue at time t, with a larger quantity.
LEMMA RestartedOrder ==
  ASSUME BookOK(levels, live, lookup), NEW s \in DOMAIN live, NEW x \in Nat, x > live[s].remaining,
         NEW t \in Nat, \A u \in DOMAIN live : live[u].since < t,
         NEW side, side = LocateSide(live[s].price), NEW i, i = LevelAt(side, live[s].price),
         NEW new, new = Requeue(levels[side][i], s, live[s].remaining, x),
         NEW M, M = Updated(levels, side, Updated(levels[side], i, new)),
         NEW m, m = Restarted(live, s, x, t)
  PROVE  BookOK(M, m, lookup)
<1> DEFINE lv == levels[side][i]
           ls == Updated(levels[side], i, new)
<1>1. Entries(live, lookup) /\ Indexed(live, lookup) /\ live \in [DOMAIN live -> LiveOrder]
  BY DEF BookOK, BookTypes, Entries
<1>2. /\ DOMAIN m = DOMAIN live /\ m \in [DOMAIN m -> LiveOrder] /\ m[s].id = live[s].id
      /\ \A u \in DOMAIN live \ {s} : m[u] = live[u]
  BY <1>1 DEF Restarted, LiveOrder
<1>3. Entries(m, lookup) /\ Indexed(m, lookup) /\ OnlyChanges(live, m, s)
  BY <1>1, <1>2, Kept
<1>4. /\ side \in Sides /\ i \in DOMAIN levels[side] /\ lv \in Level /\ GoodLevel(live, lv)
      /\ s \in QueuedAt(lv)
  BY Located
<1>5. Tidy(live, lv)
  BY <1>4 DEF GoodLevel
<1> HIDE DEF lv
<1>6. /\ new \in Level /\ new.price = lv.price /\ QueuedAt(new) = QueuedAt(lv) /\ GoodLevel(m, new)
  BY <1>1, <1>4, <1>5, Regrown DEF lv
<1>7. ls = IF new.orders = <<>> THEN Erased(levels[side], i) ELSE Updated(levels[side], i, new)
  BY <1>6 DEF GoodLevel
<1>8. M = Updated(levels, side, ls)
  OBVIOUS
<1>9. /\ new.price = levels[side][i].price /\ s \in QueuedAt(levels[side][i])
      /\ QueuedAt(levels[side][i]) \ {s} \subseteq QueuedAt(new) /\ s \in QueuedAt(new)
      /\ Tidy(m, new)
  BY <1>4, <1>6 DEF lv, GoodLevel
<1>10. BookOK(levels, live, lookup) /\ side \in Sides /\ i \in DOMAIN levels[side] /\ new \in Level
  BY <1>4, <1>6
<1> HIDE DEF ls
<1> QED
  BY ONLY <1>3, <1>7, <1>8, <1>9, <1>10, LevelSettled

\* modify_qty keeps the book in order.
LEMMA ModifyQtyOK ==
  ASSUME BookOK(levels, live, lookup), NEW id, NEW x \in Nat, NEW t \in Nat,
         \A u \in DOMAIN live : live[u].since < t, ModifyQty(id, x, t)
  PROVE  /\ BookOK(levels', live', lookup')
         /\ \A u \in DOMAIN live' : live'[u].since <= t
<1> DEFINE s == lookup[id]
           old == live[s].remaining
           side == LocateSide(live[s].price)
           i == LevelAt(side, live[s].price)
           new == Requeue(levels[side][i], s, old, x)
<1>1. id \in DOMAIN lookup /\ Indexed(live, lookup) /\ live \in [DOMAIN live -> LiveOrder]
  BY DEF ModifyQty, BookOK, BookTypes, Entries
<1>2. s \in DOMAIN live /\ live[s].id = id
  BY <1>1 DEF Indexed
<1>3. lookup' = lookup
  BY DEF ModifyQty
<1>4. old \in Nat
  BY <1>1, <1>2 DEF LiveOrder
<1>5. /\ side \in Sides /\ i \in DOMAIN levels[side] /\ levels[side][i] \in Level
  BY <1>2, Located
<1>6. levels' = Updated(levels, side, Updated(levels[side], i, new))
  BY DEF ModifyQty, Updated
<1>7. live' = [live EXCEPT ![s].remaining = x, ![s].since = IF x > old THEN t ELSE @]
  BY DEF ModifyQty
<1> HIDE DEF s
<1>8. CASE x > old
  <2>1. live' = Restarted(live, s, x, t)
    BY <1>7, <1>8 DEF Restarted
  <2>2. BookOK(levels', live', lookup')
    BY <1>2, <1>3, <1>6, <1>8, <2>1, RestartedOrder
  <2>3. ASSUME NEW u \in DOMAIN live' PROVE live'[u].since <= t
    <3>1. u \in DOMAIN live /\ (u = s => live'[u].since = t) /\ (u # s => live'[u] = live[u])
      BY <1>1, <1>2, <2>1 DEF Restarted, LiveOrder
    <3>2. live[u].since \in Nat
      BY <1>1, <3>1 DEF LiveOrder
    <3> QED
      BY <3>1, <3>2
  <2> QED
    BY <2>2, <2>3
<1>9. CASE ~(x > old)
  <2>1. live' = Resized(live, s, x)
    BY <1>1, <1>2, <1>7, <1>9 DEF Resized, LiveOrder
  <2>2. new = Retotalled(levels[side][i], x - old)
    <3> DEFINE lv == levels[side][i]
    <3>1. new = [lv EXCEPT !.orders = lv.orders, !.total_qty = lv.total_qty + (x - old)]
      BY <1>9 DEF Requeue
    <3>2. lv = [price |-> lv.price, orders |-> lv.orders, total_qty |-> lv.total_qty,
                order_count |-> lv.order_count]
      BY <1>5 DEF Level
    <3> HIDE DEF lv, new
    <3> QED
      BY <3>1, <3>2 DEF Retotalled, lv
  <2>3. BookOK(levels', live', lookup')
    <3> HIDE DEF new
    <3> QED
      BY <1>2, <1>3, <1>6, <2>1, <2>2, ResizedOrder
  <2>4. ASSUME NEW u \in DOMAIN live' PROVE live'[u].since <= t
    <3>1. u \in DOMAIN live /\ live'[u].since = live[u].since
      BY <1>1, <1>2, <2>1 DEF Resized, LiveOrder
    <3>2. live[u].since \in Nat
      BY <1>1, <3>1 DEF LiveOrder
    <3> QED
      BY <3>1, <3>2
  <2> QED
    BY <2>3, <2>4
<1> QED
  BY <1>8, <1>9

\* fill_order keeps the book in order, and frees no id.
LEMMA FillOrderOK ==
  ASSUME BookOK(levels, live, lookup), NEW s \in DOMAIN live, NEW q \in Nat, FillOrder(s, q)
  PROVE  /\ BookOK(levels', live', lookup')
         /\ DOMAIN lookup' \subseteq DOMAIN lookup
         /\ \A u \in DOMAIN live' : u \in DOMAIN live /\ live'[u].since = live[u].since
<1> DEFINE old == live[s].remaining
           side == LocateSide(live[s].price)
           i == LevelAt(side, live[s].price)
           lv == levels[side][i]
<1>1. live \in [DOMAIN live -> LiveOrder] /\ live[s] \in LiveOrder /\ old \in Nat
  BY DEF BookOK, BookTypes, Entries, LiveOrder
<1>2. /\ side \in Sides /\ i \in DOMAIN levels[side] /\ lv \in Level
  BY Located
<1>3. CASE q = old
  <2>1. /\ levels' = Updated(levels, side, Settle(side, i, Dequeue(lv, s, old)))
        /\ lookup' = Drop(lookup, live[s].id) /\ live' = Drop(live, s)
    BY <1>3 DEF FillOrder, Updated
  <2>2. BookOK(levels', live', lookup')
    BY <2>1, RemovedOrder
  <2> QED
    BY <2>1, <2>2 DEF Drop
<1>4. CASE q # old
  <2>1. old - q \in Nat
    BY <1>1 DEF FillOrder
  <2>2. live' = Resized(live, s, old - q) /\ lookup' = lookup
    BY <1>4 DEF FillOrder, Resized
  <2> DEFINE new == Retotalled(lv, (old - q) - old)
  <2>3. new = [lv EXCEPT !.total_qty = @ - q]
    <3>1. lv.total_qty + ((old - q) - old) = lv.total_qty - q
      BY <1>1, <1>2 DEF Level
    <3> QED
      BY <3>1 DEF Retotalled
  <2>4. levels' = Updated(levels, side, Updated(levels[side], i, new))
    BY <1>4, <2>3 DEF FillOrder, Updated
  <2> HIDE DEF new
  <2>5. BookOK(levels', live', lookup')
    BY <2>1, <2>2, <2>4, ResizedOrder DEF new
  <2>6. \A u \in DOMAIN live' : u \in DOMAIN live /\ live'[u].since = live[u].since
    BY <1>1, <2>2 DEF Resized, LiveOrder
  <2> QED
    BY <2>2, <2>5, <2>6
<1> QED
  BY <1>3, <1>4

\* create_level links a new level in behind the better ones.
LEMMA CreatePositionOK ==
  ASSUME NEW side \in Sides, NEW price \in Prices, ~HasLevel(side, price),
         NEW ls, ls = levels[side], ls \in Seq(Level), Ordered(side, ls),
         NEW p, p = CreatePosition(side, price)
  PROVE  /\ p \in 1 .. Len(ls) + 1
         /\ \A j \in 1 .. p - 1 : Better(side, ls[j].price, price)
         /\ \A j \in p .. Len(ls) : Better(side, price, ls[j].price)
<1> DEFINE After(k) == k = Len(ls) \/ ~Better(side, ls[k + 1].price, price)
           Least(k) == After(k) /\ \A j \in 1 .. k - 1 : ~After(j)
<1>1. Len(ls) \in Nat /\ DOMAIN ls = 1 .. Len(ls) /\ price \in Int
  BY BookAssumption
<1>2. \A j \in 1 .. Len(ls) : ls[j].price \in Int /\ ls[j].price # price
  <2> SUFFICES ASSUME NEW j \in 1 .. Len(ls) PROVE ls[j].price \in Int /\ ls[j].price # price
    OBVIOUS
  <2>1. ls[j] \in Level
    BY <1>1
  <2> QED
    BY <1>1, <2>1, BookAssumption DEF Level, HasLevel
<1>3. \A j \in 1 .. Len(ls) : Better(side, ls[j].price, price) \/ Better(side, price, ls[j].price)
  BY <1>1, <1>2 DEF Better
<1>4. \A j \in 1 .. Len(ls) : ~(Better(side, ls[j].price, price) /\ Better(side, price, ls[j].price))
  BY <1>1, <1>2 DEF Better
<1>5. \A h, j \in 1 .. Len(ls) :
        h <= j /\ Better(side, price, ls[h].price) => Better(side, price, ls[j].price)
  <2> SUFFICES ASSUME NEW h \in 1 .. Len(ls), NEW j \in 1 .. Len(ls), h < j,
                      Better(side, price, ls[h].price)
               PROVE  Better(side, price, ls[j].price)
    OBVIOUS
  <2>1. Better(side, ls[h].price, ls[j].price)
    BY <1>1 DEF Ordered
  <2> QED
    BY <1>1, <1>2, <2>1 DEF Better
<1>6. CASE ls = <<>> \/ Better(side, price, ls[1].price)
  <2>1. p = 1
    BY <1>6 DEF CreatePosition
  <2>2. \A j \in 1 .. Len(ls) : Better(side, price, ls[j].price)
    BY <1>1, <1>5, <1>6
  <2> QED
    BY <1>1, <2>1, <2>2
<1>7. CASE ls # <<>> /\ ~Better(side, price, ls[1].price)
  <2>1. p = 1 + CHOOSE k \in 1 .. Len(ls) : Least(k)
    BY <1>7 DEF CreatePosition
  <2>2. Len(ls) \in 1 .. Len(ls)
    BY <1>1, <1>7
  <2>3. \E k \in 1 .. Len(ls) : Least(k)
    <3> DEFINE T == {k \in 1 .. Len(ls) : After(k)}
    <3>1. T \in SUBSET Nat /\ Len(ls) \in T
      BY <2>2
    <3>2. PICK k \in T : \A j \in T : k <= j
      <4> HIDE DEF T
      <4> QED
        BY <3>1, LeastNatural
    <3>3. \A j \in 1 .. k - 1 : j \in 1 .. Len(ls) /\ ~(k <= j)
      BY <1>1, <3>2
    <3>4. Least(k)
      <4> HIDE DEF After
      <4> QED
        BY <3>2, <3>3
    <3> QED
      BY <3>2, <3>4
  <2> DEFINE k == CHOOSE k \in 1 .. Len(ls) : Least(k)
  <2>4. k \in 1 .. Len(ls) /\ Least(k)
    <3> HIDE DEF Least
    <3> QED
      BY <2>3
  <2> HIDE DEF k
  <2>5. p = 1 + k
    BY <2>1 DEF k
  <2>6. ASSUME NEW j \in 1 .. p - 1 PROVE Better(side, ls[j].price, price)
    <3>1. j \in 1 .. Len(ls) /\ j <= k
      BY <1>1, <2>4, <2>5
    <3>2. CASE j = 1
      BY <1>3, <1>7, <3>1, <3>2
    <3>3. CASE j # 1
      <4>1. j - 1 \in 1 .. k - 1 /\ (j - 1) + 1 = j
        BY <3>1, <3>3, <2>4
      <4>2. ~After(j - 1)
        BY <2>4, <4>1
      <4> QED
        BY <4>1, <4>2
    <3> QED
      BY <3>2, <3>3
  <2>7. ASSUME NEW j \in p .. Len(ls) PROVE Better(side, price, ls[j].price)
    <3>1. k + 1 \in 1 .. Len(ls) /\ k # Len(ls) /\ j \in 1 .. Len(ls) /\ k + 1 <= j
      BY <1>1, <2>4, <2>5
    <3>2. ~Better(side, ls[k + 1].price, price)
      BY <2>4, <3>1
    <3>3. Better(side, price, ls[k + 1].price)
      BY <1>3, <3>1, <3>2
    <3> QED
      BY <1>5, <3>1, <3>3
  <2> QED
    BY <1>1, <2>4, <2>5, <2>6, <2>7
<1> QED
  BY <1>6, <1>7

\* The pool and the lookup with a new order.
LEMMA Added ==
  ASSUME NEW l, NEW k, Entries(l, k), Indexed(l, k), NEW s \in Slots, s \notin DOMAIN l,
         NEW o \in LiveOrder, o.id \notin DOMAIN k,
         NEW m, m = Put(l, s, o), NEW n, n = Put(k, o.id, s)
  PROVE  Entries(m, n) /\ Indexed(m, n) /\ OnlyChanges(l, m, s) /\ s \in DOMAIN m
<1>1. /\ DOMAIN m = DOMAIN l \cup {s} /\ m[s] = o /\ \A u \in DOMAIN l : m[u] = l[u]
      /\ DOMAIN n = DOMAIN k \cup {o.id} /\ n[o.id] = s /\ \A id \in DOMAIN k : n[id] = k[id]
  BY DEF Put
<1>2. Entries(m, n)
  BY DEF Entries, Put, LiveOrder
<1>3. Indexed(m, n)
  BY <1>1 DEF Indexed
<1> QED
  BY <1>1, <1>2, <1>3 DEF OnlyChanges

\* A level as get_or_create makes it.
LEMMA NewLevelFacts ==
  ASSUME NEW price \in Prices
  PROVE  /\ NewLevel(price) \in Level /\ NewLevel(price).price = price
         /\ NewLevel(price).orders = <<>> /\ NewLevel(price).total_qty = 0
         /\ NewLevel(price).order_count = 0 /\ QueuedAt(NewLevel(price)) = {}
<1>1. /\ NewLevel(price).price = price /\ NewLevel(price).orders = <<>>
      /\ NewLevel(price).total_qty = 0 /\ NewLevel(price).order_count = 0
  BY DEF NewLevel
<1>2. NewLevel(price) \in Level
  BY DEF NewLevel, Level
<1> QED
  BY <1>1, <1>2 DEF QueuedAt

\* A new order on a side that has no level of its price yet.
LEMMA InsertedOrder ==
  ASSUME BookOK(levels, live, lookup), NEW side \in Sides, NEW o \in LiveOrder,
         ~HasLevel(side, o.price), NEW p, p = CreatePosition(side, o.price),
         \A lu \in Range(levels[Opposite(side)]) : Better(Opposite(side), o.price, lu.price),
         NEW s \in Slots, s \notin DOMAIN live, NEW m, NEW n, Entries(m, n), Indexed(m, n),
         OnlyChanges(live, m, s), NEW new \in Level, new.price = o.price,
         GoodLevel(m, new), QueuedAt(new) = {s},
         NEW ls, ls = Inserted(levels[side], p, NewLevel(o.price)),
         NEW M, M = Updated(levels, side, Updated(ls, p, new))
  PROVE  BookOK(M, m, n)
<1> DEFINE nl == NewLevel(o.price)
           q == levels[side]
           r == Updated(ls, p, new)
           Old == {nl}
           New == {new}
<1>1. levels \in [Sides -> Seq(Level)] /\ q \in Seq(Level) /\ Ordered(side, q) /\ Apart(levels)
  BY DEF BookOK, BookTypes
<1>2. o.price \in Prices /\ nl \in Level /\ nl.price = o.price /\ QueuedAt(nl) = {}
  <2>1. o.price \in Prices
    BY DEF LiveOrder
  <2> QED
    BY <2>1, NewLevelFacts
<1>3. /\ p \in 1 .. Len(q) + 1
      /\ \A j \in 1 .. p - 1 : Better(side, q[j].price, o.price)
      /\ \A j \in p .. Len(q) : Better(side, o.price, q[j].price)
  BY <1>1, <1>2, CreatePositionOK
<1> HIDE DEF q, nl
<1>4. ls \in Seq(Level) /\ Ordered(side, ls) /\ Range(ls) = Range(q) \cup {nl}
  BY <1>1, <1>2, <1>3, InsertedLevels DEF q, nl
<1>5. Len(ls) = Len(q) + 1 /\ ls[p] = nl
  BY <1>1, <1>2, <1>3, InsertedFacts DEF q, nl
<1>6. p \in DOMAIN ls /\ new.price = ls[p].price
  BY <1>2, <1>3, <1>4, <1>5
<1>7. r \in Seq(Level) /\ Ordered(side, r) /\ Range(r) = (Range(ls) \ {ls[p]}) \cup {new}
  BY ONLY new \in Level, <1>4, <1>6, ReplacedLevels
<1>8. Range(r) = (Range(q) \ Old) \cup New
  BY <1>4, <1>5, <1>7
<1>9. M = Updated(levels, side, r)
  OBVIOUS
<1> HIDE DEF r
<1>10. M[side] = r /\ \A b \in Sides : b # side => M[b] = levels[b]
  BY <1>1, <1>9 DEF Updated
<1>11. Apart(M)
  <2>1. \A lv \in Range(r) : (\E lu \in Range(levels[side]) : lu.price = lv.price) \/ lv.price = o.price
    BY <1>8 DEF q
  <2> QED
    BY ONLY <1>1, <1>9, <2>1, side \in Sides, JoinedApart,
            \A lu \in Range(levels[Opposite(side)]) : Better(Opposite(side), o.price, lu.price)
<1>12. BookTypes(M, m, n)
  BY <1>1, <1>7, <1>9 DEF BookTypes, Updated
<1>13. \A b \in Sides : \A lv \in Range(levels[b]) : s \notin QueuedAt(lv)
  BY DEF BookOK, GoodLevel, Tidy
<1>14. Rehoused(levels, side, Old, New, m, s)
  BY <1>2, <1>13 DEF Rehoused
<1> HIDE DEF Old, New
<1> QED
  BY <1>7, <1>8, <1>9, <1>11, <1>12, <1>14, Changed DEF q

\* insert keeps the book in order, for an order with a new id that is the latest
\* so far and crosses nobody.
LEMMA InsertOK ==
  ASSUME BookOK(levels, live, lookup), NEW o, NEW t \in Nat,
         o.side \in Sides, o.id \in OrderIds, o.price \in Prices, o.qty \in Nat,
         o.id \notin DOMAIN lookup,
         \A u \in DOMAIN live : live[u].since < t,
         \A lu \in Range(levels[Opposite(o.side)]) : Better(Opposite(o.side), o.price, lu.price),
         Insert(o, t)
  PROVE  /\ BookOK(levels', live', lookup')
         /\ DOMAIN lookup' = DOMAIN lookup \cup {o.id}
         /\ \A u \in DOMAIN live' : live'[u].since <= t
<1> DEFINE s == FreeSlot
           side == o.side
           rec == [id |-> o.id, price |-> o.price, remaining |-> o.qty, since |-> t]
<1>1. /\ Entries(live, lookup) /\ Indexed(live, lookup) /\ live \in [DOMAIN live -> LiveOrder]
      /\ levels \in [Sides -> Seq(Level)]
  BY DEF BookOK, BookTypes, Entries
<1>2. side \in Sides /\ o.id \in OrderIds /\ o.price \in Prices /\ o.qty \in Nat
  OBVIOUS
<1>3. s \in Slots /\ s \notin DOMAIN live
  <2>1. DOMAIN live # Slots /\ DOMAIN live \subseteq Slots
    BY <1>1 DEF Insert, CanInsert, Entries
  <2>2. \E x \in Slots : x \notin DOMAIN live
    BY <2>1
  <2> QED
    BY <2>2 DEF FreeSlot
<1>4. /\ rec \in LiveOrder /\ rec.id = o.id /\ rec.price = o.price /\ rec.remaining = o.qty
      /\ rec.since = t
  BY <1>2 DEF LiveOrder
<1>5. live' = Put(live, s, rec) /\ lookup' = Put(lookup, rec.id, s)
  BY <1>4 DEF Insert
<1> HIDE DEF s, rec
<1>6. /\ Entries(live', lookup') /\ Indexed(live', lookup') /\ OnlyChanges(live, live', s)
      /\ s \in DOMAIN live'
  BY <1>1, <1>3, <1>4, <1>5, Added
<1>7. ASSUME HasLevel(side, o.price) PROVE BookOK(levels', live', lookup')
  <2> DEFINE i == LevelAt(side, o.price)
             lv == levels[side][i]
             new == Enqueue(lv, s, rec.remaining)
             ls == Updated(levels[side], i, new)
  <2>1. i \in DOMAIN levels[side] /\ lv.price = o.price
    BY <1>7 DEF HasLevel, LevelAt
  <2>2. levels' = Updated(levels, side, ls)
    BY <1>4, <1>7 DEF Insert, Updated, LevelPosition, WithLevel, s
  <2>3. lv \in Level /\ lv \in Range(levels[side])
    BY <1>1, <1>2, <2>1, SideFacts
  <2>4. Tidy(live, lv)
    BY <1>2, <2>3 DEF BookOK, GoodLevel
  <2> HIDE DEF lv
  <2>5. /\ new \in Level /\ new.price = lv.price /\ QueuedAt(new) = QueuedAt(lv) \cup {s}
        /\ GoodLevel(live', new)
    <3>1. /\ lv \in Level /\ live \in [DOMAIN live -> LiveOrder] /\ rec \in LiveOrder
          /\ rec.price = lv.price /\ \A u \in DOMAIN live : live[u].since < rec.since
      BY <1>1, <1>4, <2>1, <2>3
    <3> HIDE DEF new
    <3>2. new = Enqueue(lv, s, rec.remaining)
      BY DEF new
    <3> QED
      BY ONLY <1>3, <1>5, <2>4, <3>1, <3>2, Enqueued
  <2> HIDE DEF new
  <2>6. ls = IF new.orders = <<>> THEN Erased(levels[side], i) ELSE Updated(levels[side], i, new)
    BY <2>5 DEF GoodLevel
  <2>7. /\ BookOK(levels, live, lookup) /\ new.price = levels[side][i].price /\ s \notin DOMAIN live
        /\ QueuedAt(levels[side][i]) \ {s} \subseteq QueuedAt(new) /\ s \in QueuedAt(new)
        /\ Tidy(live', new)
    BY <1>3, <2>5 DEF lv, GoodLevel
  <2> HIDE DEF ls
  <2> QED
    BY ONLY <1>2, <1>6, <2>1, <2>2, <2>5, <2>6, <2>7, LevelSettled
<1>8. ASSUME ~HasLevel(side, o.price) PROVE BookOK(levels', live', lookup')
  <2> DEFINE p == CreatePosition(side, o.price)
             nl == NewLevel(o.price)
             new == Enqueue(nl, s, rec.remaining)
             ls == Inserted(levels[side], p, nl)
  <2>1. levels' = Updated(levels, side, Updated(ls, p, Enqueue(ls[p], s, rec.remaining)))
    BY <1>4, <1>8 DEF Insert, Updated, LevelPosition, WithLevel, s
  <2>2. /\ nl \in Level /\ nl.price = o.price /\ nl.orders = <<>> /\ nl.total_qty = 0
        /\ nl.order_count = 0
    BY <1>2, NewLevelFacts
  <2>3. p \in 1 .. Len(levels[side]) + 1
    <3>1. Ordered(side, levels[side]) /\ levels[side] \in Seq(Level)
      BY <1>1, <1>2 DEF BookOK
    <3> QED
      BY <1>2, <1>8, <3>1, CreatePositionOK
  <2> HIDE DEF p, nl
  <2>4. ls[p] = nl
    BY <1>1, <1>2, <2>2, <2>3, InsertedFacts
  <2>5. QueuedAt(nl) = {} /\ DOMAIN nl.orders = {} /\ Len(nl.orders) = 0
    BY <2>2 DEF QueuedAt
  <2>6. Tidy(live, nl)
    BY <2>2, <2>5, SumEmpty DEF Tidy
  <2>7. /\ new \in Level /\ new.price = nl.price /\ QueuedAt(new) = QueuedAt(nl) \cup {s}
        /\ GoodLevel(live', new)
    <3>1. rec.price = nl.price /\ \A u \in DOMAIN live : live[u].since < rec.since
      BY <1>4, <2>2
    <3> QED
      BY ONLY <1>1, <1>3, <1>4, <1>5, <2>2, <2>6, <3>1, Enqueued
  <2>8. levels' = Updated(levels, side, Updated(ls, p, new))
    BY <2>1, <2>4
  <2>9. new.price = rec.price /\ QueuedAt(new) = {s} /\ ~HasLevel(side, rec.price)
    BY <1>4, <1>8, <2>2, <2>5, <2>7
  <2>10. /\ BookOK(levels, live, lookup) /\ p = CreatePosition(side, rec.price)
         /\ ls = Inserted(levels[side], p, NewLevel(rec.price))
         /\ \A lu \in Range(levels[Opposite(side)]) : Better(Opposite(side), rec.price, lu.price)
    BY <1>4 DEF p, nl
  <2> HIDE DEF new, ls
  <2> QED
    BY ONLY <1>2, <1>3, <1>4, <1>6, <2>7, <2>8, <2>9, <2>10, InsertedOrder
<1>9. DOMAIN lookup' = DOMAIN lookup \cup {o.id}
  BY <1>4, <1>5 DEF Put
<1>10. \A u \in DOMAIN live' : live'[u].since <= t
  <2>1. \A u \in DOMAIN live : live[u].since \in Nat
    BY <1>1 DEF LiveOrder
  <2>2. \A u \in DOMAIN live' : (u \in DOMAIN live /\ u # s /\ live'[u] = live[u]) \/ live'[u] = rec
    BY <1>5 DEF Put
  <2> QED
    BY <1>4, <2>1, <2>2
<1> QED
  BY <1>7, <1>8, <1>9, <1>10

\* The book with nothing in it.
LEMMA EmptyBookOK ==
  ASSUME NEW L, L = [side \in Sides |-> <<>>], NEW l \in [{} -> LiveOrder], NEW k \in [{} -> Slots]
  PROVE  BookOK(L, l, k)
<1>1. /\ L \in [Sides -> Seq(Level)] /\ DOMAIN l = {} /\ DOMAIN k = {}
      /\ \A side \in Sides : L[side] = <<>>
  OBVIOUS
<1>2. \A side \in Sides : Range(L[side]) = {} /\ DOMAIN L[side] = {}
  BY <1>1 DEF Range
<1>3. Entries(l, k) /\ Indexed(l, k)
  BY <1>1 DEF Entries, Indexed
<1>4. Apart(L)
  BY <1>2 DEF Apart, Sides
<1> QED
  BY <1>1, <1>2, <1>3, <1>4 DEF BookOK, BookTypes, Ordered

\* clear empties the book: nothing was handed out that it does not find.
LEMMA ClearOK ==
  ASSUME BookOK(levels, live, lookup), Clear
  PROVE  BookOK(levels', live', lookup') /\ DOMAIN live' = {} /\ DOMAIN lookup' = {}
<1>1. ASSUME NEW s \in DOMAIN live PROVE s \in Queued("Buy") \cup Queued("Sell")
  <2>1. PICK side \in Sides : \E lv \in Range(levels[side]) : s \in QueuedAt(lv)
    BY DEF BookOK
  <2>2. s \in Queued(side)
    BY <2>1 DEF Queued, Range
  <2> QED
    BY <2>2 DEF Sides
<1>2. DOMAIN live \ (Queued("Buy") \cup Queued("Sell")) = {}
  BY <1>1
<1>3. live' \in [{} -> LiveOrder] /\ lookup' \in [{} -> Slots] /\ levels' = [side \in Sides |-> <<>>]
  BY <1>2 DEF Clear, NoEntries
<1>4. BookOK(levels', live', lookup')
  BY <1>3, EmptyBookOK
<1> QED
  BY <1>3, <1>4

\* The order that a match takes: the first of the best level of its side.
LEMMA HeadFacts ==
  ASSUME BookOK(levels, live, lookup), NEW side \in Sides, levels[side] # <<>>,
         NEW s, s = Head(levels[side][1].orders)
  PROVE  /\ levels[side][1] \in Level /\ levels[side][1] \in Range(levels[side])
         /\ GoodLevel(live, levels[side][1])
         /\ s = levels[side][1].orders[1] /\ 1 \in DOMAIN levels[side][1].orders
         /\ s \in QueuedAt(levels[side][1]) /\ s \in DOMAIN live /\ live[s] \in LiveOrder
         /\ live[s].price = levels[side][1].price
<1> DEFINE lv == levels[side][1]
<1>1. levels \in [Sides -> Seq(Level)] /\ live \in [DOMAIN live -> LiveOrder]
  BY DEF BookOK, BookTypes, Entries
<1>2. 1 \in DOMAIN levels[side]
  BY <1>1
<1>3. lv \in Level /\ lv \in Range(levels[side])
  BY <1>1, <1>2, SideFacts
<1>4. GoodLevel(live, lv)
  BY <1>3 DEF BookOK
<1> HIDE DEF lv
<1>5. lv.orders \in Seq(Slots) /\ lv.orders # <<>>
  BY <1>3, <1>4 DEF Level, GoodLevel
<1>6. s = lv.orders[1] /\ 1 \in DOMAIN lv.orders
  BY <1>5 DEF lv
<1>7. s \in QueuedAt(lv)
  BY <1>6 DEF QueuedAt
<1>8. s \in DOMAIN live /\ live[s].price = lv.price
  BY <1>4, <1>7 DEF GoodLevel, Tidy
<1> QED
  BY <1>1, <1>3, <1>4, <1>6, <1>7, <1>8 DEF lv

\* The first level of a side is the best one.
LEMMA BestFirst ==
  ASSUME BookOK(levels, live, lookup), NEW side \in Sides, NEW lu \in Range(levels[side])
  PROVE  /\ levels[side] # <<>>
         /\ lu = levels[side][1] \/ Better(side, levels[side][1].price, lu.price)
<1>1. levels \in [Sides -> Seq(Level)]
  BY DEF BookOK, BookTypes
<1>2. PICK j \in DOMAIN levels[side] : lu = levels[side][j]
  BY DEF Range
<1>3. levels[side] # <<>> /\ 1 \in DOMAIN levels[side] /\ j \in Nat /\ (j = 1 \/ 1 < j)
  BY <1>1, <1>2
<1>4. Ordered(side, levels[side])
  BY DEF BookOK
<1> QED
  BY <1>2, <1>3, <1>4 DEF Ordered
=============================================================================

----------------------------- MODULE OrderBook -----------------------------
(***************************************************************************)
(* matching/order_book: LimitOrderBook with its BidBook and AskBook, the   *)
(* intrusive order queues of the price levels, the OrderLookup map and the *)
(* two object pools.  One operator per member function; each is an action  *)
(* over the book's variables, so that the matching engine and the replay   *)
(* engine compose them with their own.                                     *)
(*                                                                         *)
(* A LiveOrder is identified by its pool slot.  The index of a side        *)
(* (PriceLevelIndex) and its linked list of levels are updated together    *)
(* and are one sequence here, best level first.  The listener callbacks    *)
(* change nothing in the book and are left out, as is priority_seq, which  *)
(* the book stores and never reads; since is history instead: when the     *)
(* order took its place in its queue.                                      *)
(***************************************************************************)
EXTENDS Integers, FiniteSets, Functions, SequenceOps

CONSTANTS
  Prices,     \* set of price ticks
  OrderIds,
  Slots,      \* slots of order_pool_ (10240 in the code)
  MaxLevels   \* nodes of level_pool_, shared by both sides (1024 in the code)

ASSUME BookAssumption == Prices \subseteq Int /\ IsFiniteSet(Slots) /\ MaxLevels \in Nat

VARIABLES
  levels,  \* side -> sequence of price levels from best_level_ on
  live,    \* pool slot -> LiveOrder, for the slots handed out
  lookup   \* order id -> pool slot

book == <<levels, live, lookup>>

Sides == {"Buy", "Sell"}
Opposite(side) == IF side = "Buy" THEN "Sell" ELSE "Buy"

\* The empty partial function, and updates of partial functions.
NoEntries == [x \in {} |-> 0]
Put(f, k, v) == [x \in DOMAIN f \cup {k} |-> IF x = k THEN v ELSE f[x]]
Drop(f, k) == [x \in DOMAIN f \ {k} |-> f[x]]

BookInit ==
  /\ levels = [side \in Sides |-> <<>>]
  /\ live = NoEntries
  /\ lookup = NoEntries
-----------------------------------------------------------------------------
\* find_level, and the side on which cancel, modify_qty and fill_order look for
\* the level of an order: a LiveOrder does not record its side.
HasLevel(side, price) == \E i \in DOMAIN levels[side] : levels[side][i].price = price
LevelAt(side, price) == CHOOSE i \in DOMAIN levels[side] : levels[side][i].price = price
LocateSide(price) == IF HasLevel("Buy", price) THEN "Buy" ELSE "Sell"

\* Does price p come before price q on this side?
Better(side, p, q) == IF side = "Buy" THEN p > q ELSE p < q

\* Mutant: the new node goes before the level it should follow.
CreateBefore(side, price) ==
  LET ls == levels[side]
      After(k) == k = Len(ls) \/ ~Better(side, ls[k + 1].price, price)
  IN  IF ls = <<>>
      THEN 1
      ELSE CHOOSE k \in 1 .. Len(ls) : After(k) /\ \A j \in 1 .. k - 1 : ~After(j)

\* create_level: the new node becomes best_level_, or goes after the first
\* level whose successor is not better than it.
CreatePosition(side, price) ==
  LET ls == levels[side]
      After(k) == k = Len(ls) \/ ~Better(side, ls[k + 1].price, price)
  IN  IF ls = <<>> \/ Better(side, price, ls[1].price)
      THEN 1
      ELSE 1 + CHOOSE k \in 1 .. Len(ls) : After(k) /\ \A j \in 1 .. k - 1 : ~After(j)

NewLevel(price) == [price |-> price, orders |-> <<>>, total_qty |-> 0, order_count |-> 0]

WithLevel(side, price) ==
  IF HasLevel(side, price)
  THEN levels[side]
  ELSE Inserted(levels[side], CreatePosition(side, price), NewLevel(price))

LevelPosition(side, price) ==
  IF HasLevel(side, price) THEN LevelAt(side, price) ELSE CreatePosition(side, price)

LevelCount == Len(levels["Buy"]) + Len(levels["Sell"])

\* allocate throws bad_alloc on an exhausted pool, and insert is noexcept.
CanInsert(o) ==
  /\ DOMAIN live # Slots
  /\ HasLevel(o.side, o.price) \/ LevelCount < MaxLevels

FreeSlot == CHOOSE s \in Slots : s \notin DOMAIN live

Enqueue(lv, s, qty) ==
  [lv EXCEPT !.orders = Append(@, s), !.total_qty = @ + qty, !.order_count = @ + 1]

Insert(o, now) ==
  LET s == FreeSlot
      i == LevelPosition(o.side, o.price)
      ls == WithLevel(o.side, o.price)
  IN  /\ CanInsert(o)
      /\ live' = Put(live, s, [id |-> o.id, price |-> o.price, remaining |-> o.qty, since |-> now])
      /\ lookup' = Put(lookup, o.id, s)
      /\ levels' = [levels EXCEPT ![o.side] = [ls EXCEPT ![i] = Enqueue(ls[i], s, o.qty)]]

\* The level after an update; an empty level is unlinked and deallocated.
Settle(side, i, lv) ==
  IF lv.orders = <<>> THEN Erased(levels[side], i) ELSE [levels[side] EXCEPT ![i] = lv]

\* Mutant: the total is not reduced.
DequeueOnly(lv, s, qty) == [lv EXCEPT !.orders = Unlinked(@, s), !.order_count = @ - 1]

\* IntrusiveOrderList::remove, the count and the total of the level.
Dequeue(lv, s, qty) ==
  [lv EXCEPT !.orders = Unlinked(@, s), !.total_qty = @ - qty, !.order_count = @ - 1]

Cancel(id) ==
  LET s == lookup[id]
      side == LocateSide(live[s].price)
      i == LevelAt(side, live[s].price)
  IN  /\ id \in DOMAIN lookup
      /\ levels' = [levels EXCEPT ![side] =
                      Settle(side, i, Dequeue(levels[side][i], s, live[s].remaining))]
      /\ lookup' = Drop(lookup, id)
      /\ live' = Drop(live, s)

\* Mutant: every modification keeps the place in the queue.
RequeueInPlace(lv, s, old, new) == [lv EXCEPT !.total_qty = @ + (new - old)]

\* A smaller quantity keeps the place in the queue, a larger one loses it.
Requeue(lv, s, old, new) ==
  [lv EXCEPT !.orders = IF new > old THEN Append(Unlinked(@, s), s) ELSE @,
             !.total_qty = @ + (new - old)]

ModifyQty(id, new_qty, now) ==
  LET s == lookup[id]
      old == live[s].remaining
      side == LocateSide(live[s].price)
      i == LevelAt(side, live[s].price)
  IN  /\ id \in DOMAIN lookup
      /\ levels' = [levels EXCEPT ![side][i] = Requeue(@, s, old, new_qty)]
      /\ live' = [live EXCEPT ![s].remaining = new_qty,
                              ![s].since = IF new_qty > old THEN now ELSE @]
      /\ UNCHANGED lookup

\* Mutants: a filled order that stays in its queue, an assertion that refuses a
\* complete fill, and a filled order that stays in the lookup.
FillInPlace(s, qty) ==
  LET side == LocateSide(live[s].price)
      i == LevelAt(side, live[s].price)
  IN  /\ qty <= live[s].remaining
      /\ levels' = [levels EXCEPT ![side][i].total_qty = @ - qty]
      /\ live' = [live EXCEPT ![s].remaining = @ - qty]
      /\ UNCHANGED lookup
FillStrict(s, qty) ==
  LET side == LocateSide(live[s].price)
      i == LevelAt(side, live[s].price)
  IN  /\ qty < live[s].remaining
      /\ levels' = [levels EXCEPT ![side][i].total_qty = @ - qty]
      /\ live' = [live EXCEPT ![s].remaining = @ - qty]
      /\ UNCHANGED lookup
FillKeepsEntry(s, qty) ==
  LET side == LocateSide(live[s].price)
      i == LevelAt(side, live[s].price)
      lv == levels[side][i]
  IN  /\ qty <= live[s].remaining
      /\ UNCHANGED lookup
      /\ IF qty = live[s].remaining
         THEN /\ levels' = [levels EXCEPT ![side] = Settle(side, i, Dequeue(lv, s, qty))]
              /\ live' = Drop(live, s)
         ELSE /\ levels' = [levels EXCEPT ![side][i].total_qty = @ - qty]
              /\ live' = [live EXCEPT ![s].remaining = @ - qty]

\* fill_order asserts qty <= remaining.  An order filled completely leaves its
\* queue, the lookup (by its id) and the pool.
FillOrder(s, qty) ==
  LET side == LocateSide(live[s].price)
      i == LevelAt(side, live[s].price)
      lv == levels[side][i]
  IN  /\ qty <= live[s].remaining
      /\ IF qty = live[s].remaining
         THEN /\ levels' = [levels EXCEPT ![side] = Settle(side, i, Dequeue(lv, s, qty))]
              /\ lookup' = Drop(lookup, live[s].id)
              /\ live' = Drop(live, s)
         ELSE /\ levels' = [levels EXCEPT ![side][i].total_qty = @ - qty]
              /\ live' = [live EXCEPT ![s].remaining = @ - qty]
              /\ UNCHANGED lookup

\* Resting: the slots queued at some level.
QueuedAt(lv) == {lv.orders[j] : j \in DOMAIN lv.orders}
Queued(side) == UNION {QueuedAt(levels[side][i]) : i \in DOMAIN levels[side]}

Clear ==
  /\ levels' = [side \in Sides |-> <<>>]
  /\ live' = [s \in DOMAIN live \ (Queued("Buy") \cup Queued("Sell")) |-> live[s]]
  /\ lookup' = NoEntries
-----------------------------------------------------------------------------
\* ORDER_BOOK.md section 5 and verify_invariants: bid prices strictly descend
\* from best_level_, ask prices strictly ascend.
LevelsSorted ==
  \A side \in Sides : \A i, j \in DOMAIN levels[side] :
    i < j => Better(side, levels[side][i].price, levels[side][j].price)

\* A level exists as long as orders wait at it, and its aggregates are those of
\* the orders queued there, also when these add up to nothing because
\* modify_order set their quantities to 0.
LevelAccounting ==
  \A side \in Sides : \A i \in DOMAIN levels[side] :
    LET lv == levels[side][i]
    IN  /\ lv.orders # <<>>
        /\ lv.order_count = Len(lv.orders)
        /\ lv.total_qty = SumFunctionOnSet([s \in DOMAIN live |-> live[s].remaining], QueuedAt(lv))

\* "A level's total_qty and order_count must be greater than zero.  If they reach
\* zero, the level must be immediately unlinked" (ORDER_BOOK.md:85).
LevelsHoldQuantity ==
  \A side \in Sides : \A i \in DOMAIN levels[side] :
    levels[side][i].total_qty > 0 /\ levels[side][i].order_count > 0

\* Every order handed out by the pool waits in exactly one place, at the level
\* of its price, and the lookup finds it by its id: no order is orphaned, no
\* slot leaks, no entry dangles.
EveryOrderFindable ==
  /\ \A s \in DOMAIN live :
       /\ live[s].id \in DOMAIN lookup /\ lookup[live[s].id] = s
       /\ \E side \in Sides : \E i \in DOMAIN levels[side] :
            levels[side][i].price = live[s].price /\ s \in QueuedAt(levels[side][i])
  /\ \A id \in DOMAIN lookup : lookup[id] \in DOMAIN live /\ live[lookup[id]].id = id
  /\ \A side \in Sides : \A i \in DOMAIN levels[side] :
       LET q == levels[side][i].orders
       IN  \A j \in DOMAIN q :
             /\ q[j] \in DOMAIN live /\ live[q[j]].price = levels[side][i].price
             /\ \A k \in DOMAIN q : q[k] = q[j] => k = j
=============================================================================

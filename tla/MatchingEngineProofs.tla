------------------------ MODULE MatchingEngineProofs ------------------------
(***************************************************************************)
(* The order book under the matching engine, for every set of prices,      *)
(* orders and pool slots and every number of commands: it stays sorted and *)
(* uncrossed, its aggregates are exact, every order can be found, matches  *)
(* keep price-time priority and the matching loop ends.  That the book's   *)
(* functions keep BookOK is shown in OrderBookProofs.                      *)
(***************************************************************************)
EXTENDS MatchingEngine, OrderBookProofs

\* What the engine adds: nobody in the book arrived after now, the order being
\* submitted is newer than all of them, and its id is not in the book.
TakerOK ==
  taker # <<>> =>
    /\ taker \in Seq([order : Orders, remaining : Nat]) /\ Len(taker) = 1
    /\ taker[1].order.id \notin DOMAIN lookup
    /\ taker[1].order.id \in DOMAIN submitted
    /\ \A s \in DOMAIN live : live[s].since < now

IInv ==
  /\ BookOK(levels, live, lookup)
  /\ now \in Nat
  /\ \A s \in DOMAIN live : live[s].since <= now
  /\ DOMAIN lookup \subseteq DOMAIN submitted
  /\ TakerOK
-----------------------------------------------------------------------------
\* The order in submit_order.
LEMMA TakerFacts ==
  ASSUME IInv, taker # <<>>, NEW o, o = taker[1].order, NEW r, r = taker[1].remaining
  PROVE  /\ o \in Orders /\ r \in Nat /\ o.side \in Sides /\ Opposite(o.side) \in Sides
         /\ o.id \notin DOMAIN lookup /\ o.id \in DOMAIN submitted
         /\ \A s \in DOMAIN live : live[s].since < now
<1>1. taker[1] \in [order : Orders, remaining : Nat]
  <2> DEFINE T == [order : Orders, remaining : Nat]
  <2>1. taker \in Seq(T) /\ Len(taker) = 1
    BY DEF IInv, TakerOK
  <2> HIDE DEF T
  <2>2. taker[1] \in T
    BY <2>1
  <2> QED
    BY <2>2 DEF T
<1>2. o \in Orders /\ r \in Nat
  BY <1>1
<1>3. o.side \in Sides /\ Opposite(o.side) \in Sides
  BY <1>2 DEF Orders, Sides, Opposite
<1> QED
  BY <1>2, <1>3 DEF IInv, TakerOK

\* A match keeps the invariant.
LEMMA MatchStepIInv ==
  ASSUME IInv, MatchStep
  PROVE  IInv'
<1> DEFINE o == taker[1].order
           r == taker[1].remaining
           side == Opposite(o.side)
           s == Head(levels[side][1].orders)
           q == MatchQty(r, s)
<1>1. taker # <<>> /\ levels[side] # <<>>
  BY DEF MatchStep, Crosses
<1>2. BookOK(levels, live, lookup)
  BY DEF IInv
<1>3. /\ o \in Orders /\ r \in Nat /\ o.side \in Sides /\ side \in Sides
      /\ o.id \notin DOMAIN lookup /\ o.id \in DOMAIN submitted
      /\ \A u \in DOMAIN live : live[u].since < now
  BY <1>1, TakerFacts
<1>4. s \in DOMAIN live /\ live[s] \in LiveOrder
  BY <1>1, <1>2, <1>3, HeadFacts
<1>5. /\ FillOrder(s, q) /\ taker' = <<[order |-> o, remaining |-> r - q]>>
      /\ submitted' = submitted /\ now' = now
  BY DEF MatchStep
<1> HIDE DEF s, o, r
<1>6. q \in Nat /\ r - q \in Nat
  <2>1. live[s].remaining \in Nat
    BY <1>4 DEF LiveOrder
  <2> QED
    BY <1>3, <2>1 DEF MatchQty
<1> HIDE DEF q
<1>7. /\ BookOK(levels', live', lookup') /\ DOMAIN lookup' \subseteq DOMAIN lookup
      /\ \A u \in DOMAIN live' : u \in DOMAIN live /\ live'[u].since = live[u].since
  BY <1>2, <1>4, <1>5, <1>6, FillOrderOK
<1>8. /\ taker' \in Seq([order : Orders, remaining : Nat]) /\ Len(taker') = 1
      /\ taker'[1].order = o
  BY <1>3, <1>5, <1>6
<1>9. TakerOK'
  BY <1>3, <1>5, <1>7, <1>8 DEF TakerOK
<1> QED
  BY <1>5, <1>7, <1>9 DEF IInv

\* The end of submit_order keeps the invariant: a limit order rests once it
\* crosses nobody.
LEMMA FinishSubmitIInv ==
  ASSUME IInv, FinishSubmit
  PROVE  IInv'
<1> DEFINE o == taker[1].order
           r == taker[1].remaining
           side == Opposite(o.side)
<1>1. taker # <<>> /\ taker' = <<>> /\ submitted' = submitted /\ now' = now /\ ~Crosses(o, r)
  BY DEF FinishSubmit
<1>2. BookOK(levels, live, lookup)
  BY DEF IInv
<1>3. /\ o \in Orders /\ r \in Nat /\ o.side \in Sides /\ side \in Sides
      /\ o.id \notin DOMAIN lookup /\ o.id \in DOMAIN submitted
      /\ \A u \in DOMAIN live : live[u].since < now
  BY <1>1, TakerFacts
<1>4. UNCHANGED book \/ (r > 0 /\ o.type = "Limit" /\ Rest(o))
  BY DEF FinishSubmit
<1> HIDE DEF o, r
<1>5. TakerOK'
  BY <1>1 DEF TakerOK
<1>6. CASE UNCHANGED book
  <2>1. levels' = levels /\ live' = live /\ lookup' = lookup
    BY <1>6 DEF book
  <2> QED
    BY <1>1, <1>5, <2>1 DEF IInv
<1>7. CASE r > 0 /\ o.type = "Limit" /\ Rest(o)
  <2>1. ASSUME NEW lu \in Range(levels[side]) PROVE Better(side, o.price, lu.price)
    <3>1. levels[side] # <<>> /\ (lu = levels[side][1] \/ Better(side, levels[side][1].price, lu.price))
      BY <1>2, <1>3, BestFirst
    <3>2. Better(side, o.price, levels[side][1].price)
      BY <1>1, <1>7, <3>1 DEF Crosses
    <3>3. lu \in Level /\ levels[side][1] \in Level
      BY <1>2, <1>3, <3>1, SideFacts, HeadFacts DEF BookOK, BookTypes
    <3>4. lu.price \in Int /\ levels[side][1].price \in Int /\ o.price \in Int
      BY <1>3, <3>3, BookAssumption DEF Level, Orders
    <3> HIDE DEF side
    <3> QED
      BY <3>1, <3>2, <3>4 DEF Better
  <2>2. now \in Nat /\ Insert(o, now)
    BY <1>7 DEF IInv, Rest
  <2>3. /\ BookOK(levels', live', lookup') /\ DOMAIN lookup' = DOMAIN lookup \cup {o.id}
        /\ \A u \in DOMAIN live' : live'[u].since <= now
    <3>1. o.id \in OrderIds /\ o.price \in Prices /\ o.qty \in Nat
      BY <1>3, EngineAssumption DEF Orders
    <3> QED
      BY <1>2, <1>3, <2>1, <2>2, <3>1, InsertOK
  <2> QED
    BY <1>1, <1>3, <1>5, <2>3 DEF IInv
<1> QED
  BY <1>4, <1>6, <1>7

\* The invariant holds at the start, with an empty book.
LEMMA InitIInv == Init => IInv
<1> SUFFICES ASSUME Init PROVE IInv
  OBVIOUS
<1>1. /\ levels = [side \in Sides |-> <<>>] /\ live \in [{} -> LiveOrder] /\ lookup \in [{} -> Slots]
      /\ taker = <<>> /\ now = 0
  BY DEF Init, BookInit, NoEntries
<1>2. BookOK(levels, live, lookup)
  BY <1>1, EmptyBookOK
<1> QED
  BY <1>1, <1>2 DEF IInv, TakerOK

\* Every step of the engine keeps the invariant.
LEMMA StepIInv == IInv /\ [Next]_vars => IInv'
<1> SUFFICES ASSUME IInv, [Next]_vars PROVE IInv'
  OBVIOUS
<1>1. BookOK(levels, live, lookup) /\ now \in Nat /\ live \in [DOMAIN live -> LiveOrder]
  BY DEF IInv, BookOK, BookTypes, Entries
<1>2. ASSUME NEW o \in Orders, o.id \notin DOMAIN submitted, SubmitOrder(o) PROVE IInv'
  <2>1. /\ levels' = levels /\ live' = live /\ lookup' = lookup
        /\ taker' = <<[order |-> o, remaining |-> o.qty]>> /\ now' = now + 1
        /\ submitted' = Put(submitted, o.id, o)
    BY <1>2 DEF SubmitOrder, book
  <2>2. DOMAIN submitted' = DOMAIN submitted \cup {o.id}
    BY <2>1 DEF Put
  <2>3. \A s \in DOMAIN live : live[s].since <= now /\ live[s].since \in Nat
    BY <1>1 DEF IInv, LiveOrder
  <2>4. \A s \in DOMAIN live : live[s].since < now' /\ live[s].since <= now'
    BY <1>1, <2>1, <2>3
  <2>5. o.qty \in Nat
    BY EngineAssumption DEF Orders
  <2>6. /\ taker' \in Seq([order : Orders, remaining : Nat]) /\ Len(taker') = 1
        /\ taker'[1].order = o
    BY <2>1, <2>5
  <2>7. TakerOK'
    BY <1>2, <2>1, <2>2, <2>4, <2>6 DEF IInv, TakerOK
  <2> QED
    BY <1>1, <2>1, <2>2, <2>4, <2>7 DEF IInv
<1>3. CASE MatchStep
  BY <1>3, MatchStepIInv
<1>4. CASE FinishSubmit
  BY <1>4, FinishSubmitIInv
<1>5. ASSUME NEW id \in OrderIds, NEW account, CancelOrder(id, account) PROVE IInv'
  <2>1. taker = <<>> /\ taker' = taker /\ now' = now /\ submitted' = submitted
    BY <1>5 DEF CancelOrder, Idle
  <2>2. TakerOK'
    BY <2>1 DEF TakerOK
  <2>3. CASE Cancel(id)
    <3>1. BookOK(levels', live', lookup')
      BY <1>1, <2>3, CancelOK
    <3>2. DOMAIN lookup' \subseteq DOMAIN lookup
          /\ \A u \in DOMAIN live' : u \in DOMAIN live /\ live'[u] = live[u]
      BY <2>3 DEF Cancel, Drop
    <3> QED
      BY <1>1, <2>1, <2>2, <3>1, <3>2 DEF IInv
  <2>4. CASE UNCHANGED book
    <3>1. levels' = levels /\ live' = live /\ lookup' = lookup
      BY <2>4 DEF book
    <3> QED
      BY <2>1, <2>2, <3>1 DEF IInv
  <2> QED
    BY <1>5, <2>3, <2>4 DEF CancelOrder
<1>6. ASSUME NEW id \in OrderIds, NEW x \in ModifyQtys, ModifyOrder(id, x) PROVE IInv'
  <2>1. taker = <<>> /\ taker' = taker /\ now' = now + 1 /\ submitted' = submitted
    BY <1>6 DEF ModifyOrder, Idle
  <2>2. TakerOK'
    BY <2>1 DEF TakerOK
  <2>3. \A s \in DOMAIN live : live[s].since < now + 1
    <3>1. \A s \in DOMAIN live : live[s].since <= now /\ live[s].since \in Nat
      BY <1>1 DEF IInv, LiveOrder
    <3> QED
      BY <1>1, <3>1
  <2>4. CASE ModifyQty(id, x, now + 1)
    <3>1. x \in Nat /\ now + 1 \in Nat
      BY <1>1, EngineAssumption
    <3>2. BookOK(levels', live', lookup') /\ \A u \in DOMAIN live' : live'[u].since <= now + 1
      BY <1>1, <2>3, <2>4, <3>1, ModifyQtyOK
    <3>3. lookup' = lookup
      BY <2>4 DEF ModifyQty
    <3> QED
      BY <2>1, <2>2, <3>1, <3>2, <3>3 DEF IInv
  <2>5. CASE UNCHANGED book
    <3>1. levels' = levels /\ live' = live /\ lookup' = lookup
      BY <2>5 DEF book
    <3>2. now + 1 \in Nat /\ \A s \in DOMAIN live : live[s].since <= now + 1
      BY <1>1, <2>3 DEF LiveOrder
    <3> QED
      BY <2>1, <2>2, <3>1, <3>2 DEF IInv
  <2> QED
    BY <1>6, <2>4, <2>5 DEF ModifyOrder
<1>7. CASE Reset
  <2>1. taker = <<>> /\ taker' = taker /\ now' = now /\ submitted' = submitted /\ Clear
    BY <1>7 DEF Reset, Idle, engine
  <2>2. BookOK(levels', live', lookup') /\ DOMAIN live' = {} /\ DOMAIN lookup' = {}
    BY <1>1, <2>1, ClearOK
  <2>3. TakerOK'
    BY <2>1 DEF TakerOK
  <2> QED
    BY <1>1, <2>1, <2>2, <2>3 DEF IInv
<1>8. CASE UNCHANGED vars
  <2>1. /\ levels' = levels /\ live' = live /\ lookup' = lookup /\ taker' = taker
        /\ submitted' = submitted /\ now' = now
    BY <1>8 DEF vars, book, engine
  <2> QED
    BY <2>1 DEF IInv, TakerOK
<1> QED
  BY <1>2, <1>3, <1>4, <1>5, <1>6, <1>7, <1>8 DEF Next

-----------------------------------------------------------------------------
\* The invariant of the book under the engine.
THEOREM BookInvariant == Spec => []IInv
  BY InitIInv, StepIInv, PTL DEF Spec

\* The properties that the invariant carries.
LEMMA IInvImplies == IInv => LevelsSorted /\ Uncrossed /\ LevelAccounting /\ EveryOrderFindable
<1> SUFFICES ASSUME IInv PROVE LevelsSorted /\ Uncrossed /\ LevelAccounting /\ EveryOrderFindable
  OBVIOUS
<1>1. /\ BookOK(levels, live, lookup) /\ levels \in [Sides -> Seq(Level)]
      /\ live \in [DOMAIN live -> LiveOrder] /\ Indexed(live, lookup)
  BY DEF IInv, BookOK, BookTypes, Entries
<1>2. LevelsSorted
  BY <1>1 DEF LevelsSorted, BookOK, Ordered
<1>3. ASSUME NEW side \in Sides, NEW i \in DOMAIN levels[side]
      PROVE  /\ levels[side][i] \in Level /\ levels[side][i] \in Range(levels[side])
             /\ GoodLevel(live, levels[side][i])
  <2>1. levels[side][i] \in Level /\ levels[side][i] \in Range(levels[side])
    BY <1>1, SideFacts
  <2> QED
    BY <1>1, <2>1 DEF BookOK
<1>4. Uncrossed
  <2>1. "Buy" \in Sides /\ "Sell" \in Sides /\ Apart(levels)
    BY <1>1 DEF Sides, BookOK
  <2> QED
    BY <1>3, <2>1 DEF Uncrossed, Apart
<1>5. LevelAccounting
  BY <1>3 DEF LevelAccounting, GoodLevel, Tidy, Remaining
<1>6. ASSUME NEW s \in DOMAIN live
      PROVE  \E side \in Sides : \E i \in DOMAIN levels[side] :
               levels[side][i].price = live[s].price /\ s \in QueuedAt(levels[side][i])
  <2>1. /\ LocateSide(live[s].price) \in Sides
        /\ LET side == LocateSide(live[s].price)
               i == LevelAt(side, live[s].price)
           IN  /\ i \in DOMAIN levels[side] /\ levels[side][i].price = live[s].price
               /\ s \in QueuedAt(levels[side][i])
    BY <1>1, Located
  <2> QED
    BY <2>1
<1>7. ASSUME NEW side \in Sides, NEW i \in DOMAIN levels[side], NEW j \in DOMAIN levels[side][i].orders
      PROVE  LET q == levels[side][i].orders
             IN  /\ q[j] \in DOMAIN live /\ live[q[j]].price = levels[side][i].price
                 /\ \A k \in DOMAIN q : q[k] = q[j] => k = j
  <2> DEFINE lv == levels[side][i]
  <2>1. lv \in Level /\ Tidy(live, lv)
    BY <1>3 DEF GoodLevel
  <2>2. lv.orders[j] \in QueuedAt(lv)
    BY DEF QueuedAt
  <2> HIDE DEF lv
  <2>3. lv.orders[j] \in DOMAIN live /\ live[lv.orders[j]].price = lv.price
    BY <2>1, <2>2 DEF Tidy
  <2>4. ASSUME NEW k \in DOMAIN lv.orders, lv.orders[k] = lv.orders[j] PROVE k = j
    <3>1. j \in DOMAIN lv.orders
      BY DEF lv
    <3> QED
      BY <1>1, <2>1, <2>4, <3>1, OnePlace
  <2> QED
    BY <2>3, <2>4 DEF lv
<1>8. EveryOrderFindable
  BY <1>1, <1>6, <1>7 DEF EveryOrderFindable, Indexed
<1> QED
  BY <1>2, <1>4, <1>5, <1>8

\* create_level and the unlinking of empty levels keep both sides sorted from
\* their best level on.
THEOREM BookSorted == Spec => []LevelsSorted
  BY BookInvariant, IInvImplies, PTL

\* No bid is at or above an ask, between two matches of a sweep included.
THEOREM BookUncrossed == Spec => []Uncrossed
  BY BookInvariant, IInvImplies, PTL

\* The count and the total of each level are those of the orders queued there,
\* whatever mixture of fills, cancels and modifications it went through.
THEOREM AccountsExact == Spec => []LevelAccounting
  BY BookInvariant, IInvImplies, PTL

\* Every live order is queued once, at a level of its price, and found by its id.
THEOREM OrdersFindable == Spec => []EveryOrderFindable
  BY BookInvariant, IInvImplies, PTL

-----------------------------------------------------------------------------
\* While an order is in submit_order only the matching loop and its end can run.
LEMMA OnlySubmitRuns == Next /\ taker # <<>> => MatchStep \/ FinishSubmit
  BY DEF Next, SubmitOrder, CancelOrder, ModifyOrder, Reset, Idle

\* The end of submit_order takes nothing from a resting order.
LEMMA RestTakesNothing ==
  ASSUME IInv, FinishSubmit, NEW s \in DOMAIN live
  PROVE  s \in DOMAIN live' /\ live'[s] = live[s]
<1> DEFINE o == taker[1].order
<1>1. live' = live \/ Insert(o, now)
  BY DEF FinishSubmit, Rest, book
<1>2. CASE live' = live
  BY <1>2
<1>3. CASE Insert(o, now)
  <2>1. DOMAIN live # Slots /\ DOMAIN live \subseteq Slots
    BY <1>3 DEF IInv, BookOK, BookTypes, Entries, Insert, CanInsert
  <2>2. \E x \in Slots : x \notin DOMAIN live
    BY <2>1
  <2>3. FreeSlot # s
    BY <2>2 DEF FreeSlot
  <2>4. live' = Put(live, FreeSlot, [id |-> o.id, price |-> o.price, remaining |-> o.qty, since |-> now])
    BY <1>3 DEF Insert
  <2> QED
    BY <2>3, <2>4 DEF Put
<1> QED
  BY <1>1, <1>2, <1>3

\* The side that the taker is matched with, and the first order there.
MakerSide == Opposite(taker[1].order.side)
FirstMaker == Head(levels[MakerSide][1].orders)

\* A match takes from the first order of the best level of the opposite side,
\* and from no other: either that order leaves, or the taker is satisfied.
LEMMA MatchTakes ==
  ASSUME IInv, MatchStep
  PROVE  /\ MakerSide \in Sides /\ levels[MakerSide] # <<>> /\ FirstMaker \in DOMAIN live
         /\ taker[1].remaining \in Nat /\ taker[1].remaining > 0
         /\ \A s \in DOMAIN live \ {FirstMaker} : s \in DOMAIN live' /\ live'[s] = live[s]
         /\ \/ DOMAIN live' = DOMAIN live \ {FirstMaker} /\ taker'[1].remaining \in Nat
                 /\ taker'[1].remaining <= taker[1].remaining
            \/ DOMAIN live' = DOMAIN live /\ taker'[1].remaining = 0
<1> DEFINE o == taker[1].order
           r == taker[1].remaining
           side == MakerSide
           h == FirstMaker
           q == MatchQty(r, h)
           old == live[h].remaining
<1>1. taker # <<>> /\ levels[side] # <<>> /\ r > 0
  BY DEF MatchStep, Crosses, MakerSide
<1>2. r \in Nat /\ side \in Sides /\ BookOK(levels, live, lookup)
  BY <1>1, TakerFacts DEF IInv, MakerSide
<1>3. h \in DOMAIN live /\ live[h] \in LiveOrder /\ old \in Nat
  BY <1>1, <1>2, HeadFacts DEF LiveOrder, FirstMaker
<1>4. FillOrder(h, q) /\ taker' = <<[order |-> o, remaining |-> r - q]>>
  BY DEF MatchStep, MakerSide, FirstMaker
<1>5. q \in {r, old} /\ q <= r /\ q <= old /\ q \in Nat
  <2> HIDE DEF old, r
  <2>1. q = IF r < old THEN r ELSE old
    BY DEF MatchQty, old, r
  <2> QED
    BY <1>2, <1>3, <2>1
<1>6. taker'[1].remaining = r - q
  BY <1>4
<1> HIDE DEF q, r, h, old
<1>7. CASE q = old
  <2>1. live' = Drop(live, h)
    BY <1>4, <1>7 DEF FillOrder, old
  <2>2. DOMAIN live' = DOMAIN live \ {h} /\ \A s \in DOMAIN live \ {h} : live'[s] = live[s]
    BY <2>1 DEF Drop
  <2>3. r - q \in Nat /\ r - q <= r
    BY ONLY <1>2, <1>5
  <2> QED
    BY <1>1, <1>2, <1>3, <1>6, <2>2, <2>3 DEF r, h
<1>8. CASE q # old
  <2>1. live' = [live EXCEPT ![h].remaining = @ - q]
    BY <1>4, <1>8 DEF FillOrder, old
  <2>2. DOMAIN live' = DOMAIN live /\ \A s \in DOMAIN live \ {h} : live'[s] = live[s]
    BY <2>1
  <2>3. r - q = 0
    BY ONLY <1>2, <1>3, <1>5, <1>8
  <2> QED
    BY <1>1, <1>2, <1>3, <1>6, <2>2, <2>3 DEF r, h
<1> QED
  BY <1>7, <1>8

\* Every match takes the order that has waited longest at the best price.
THEOREM MatchesInOrder == Spec => PriceTimePriority
<1> DEFINE Taken(s) == taker # <<>> /\ (s \in DOMAIN live' => live'[s].remaining < live[s].remaining)
           First(s) == LET side == Opposite(taker[1].order.side)
                       IN  \A u \in Queued(side) \ {s} :
                             \/ Better(side, live[s].price, live[u].price)
                             \/ live[s].price = live[u].price /\ live[s].since < live[u].since
<1>1. ASSUME IInv, Next, NEW s \in DOMAIN live, Taken(s) PROVE First(s)
  <2>1. live \in [DOMAIN live -> LiveOrder] /\ BookOK(levels, live, lookup)
    BY <1>1 DEF IInv, BookOK, BookTypes, Entries
  <2>2. ~(s \in DOMAIN live' /\ live'[s] = live[s])
    BY <1>1, <2>1 DEF LiveOrder
  <2>3. MatchStep
    BY <1>1, <2>2, OnlySubmitRuns, RestTakesNothing
  <2> DEFINE side == MakerSide
             lv == levels[side][1]
             h == FirstMaker
  <2>4. /\ side \in Sides /\ levels[side] # <<>>
        /\ \A u \in DOMAIN live \ {h} : u \in DOMAIN live' /\ live'[u] = live[u]
    BY <1>1, <2>3, MatchTakes
  <2>5. s = h
    BY <2>2, <2>4
  <2>6. /\ GoodLevel(live, lv) /\ s = lv.orders[1] /\ 1 \in DOMAIN lv.orders
        /\ live[s].price = lv.price /\ lv \in Level
    BY <2>1, <2>4, <2>5, HeadFacts DEF FirstMaker
  <2>7. ASSUME NEW u \in Queued(side) \ {s}
        PROVE  \/ Better(side, live[s].price, live[u].price)
               \/ live[s].price = live[u].price /\ live[s].since < live[u].since
    <3>1. PICK i \in DOMAIN levels[side] : u \in QueuedAt(levels[side][i])
      BY DEF Queued
    <3> DEFINE lu == levels[side][i]
    <3>2. lu \in Range(levels[side])
      BY DEF Range
    <3>3. lu = lv \/ Better(side, lv.price, lu.price)
      BY <2>1, <2>4, <3>2, BestFirst
    <3>4. live[u].price = lu.price
      BY <2>1, <2>4, <3>1, <3>2 DEF BookOK, GoodLevel, Tidy
    <3> HIDE DEF lv, lu, side
    <3>5. CASE lu = lv
      <4>1. PICK j \in DOMAIN lv.orders : u = lv.orders[j]
        BY <3>1, <3>5 DEF QueuedAt, lu
      <4>2. j # 1 /\ j \in DOMAIN lv.orders
        BY <2>6, <4>1
      <4>3. 1 < j
        <5>1. lv.orders \in Seq(Slots)
          BY <2>6 DEF Level
        <5> QED
          BY ONLY <4>2, <5>1
      <4>4. live[s].since < live[u].since
        BY <2>6, <4>1, <4>3 DEF GoodLevel, Tidy
      <4> QED
        BY <2>6, <3>4, <3>5, <4>4
    <3>6. CASE lu # lv
      BY <2>6, <3>3, <3>4, <3>6
    <3> QED
      BY <3>5, <3>6
  <2> QED
    BY <2>7 DEF MakerSide
<1>2. IInv /\ [Next]_vars => [\A s \in DOMAIN live : Taken(s) => First(s)]_vars
  <2> HIDE DEF Taken, First
  <2> QED
    BY <1>1
<1> QED
  BY <1>2, BookInvariant, PTL DEF PriceTimePriority, Spec

\* The matching loop of submit_order ends: what the taker still wants plus the
\* number of resting orders strictly decreases.
THEOREM SweepEnds == Spec => SweepMakesProgress
<1> DEFINE Less == taker'[1].remaining + Cardinality(DOMAIN live')
                     < taker[1].remaining + Cardinality(DOMAIN live)
<1>1. ASSUME IInv, Next, taker # <<>>, taker' # <<>> PROVE Less
  <2> DEFINE r == taker[1].remaining
             rr == taker'[1].remaining
             h == FirstMaker
             D == DOMAIN live
  <2>1. MatchStep
    BY <1>1, OnlySubmitRuns DEF FinishSubmit
  <2>2. /\ r \in Nat /\ r > 0 /\ h \in D
        /\ \/ DOMAIN live' = D \ {h} /\ rr \in Nat /\ rr <= r
           \/ DOMAIN live' = D /\ rr = 0
    BY <1>1, <2>1, MatchTakes
  <2>3. IsFiniteSet(D)
    <3>1. D \subseteq Slots
      BY <1>1 DEF IInv, BookOK, BookTypes, Entries
    <3> QED
      BY <3>1, BookAssumption, FS_Subset
  <2> HIDE DEF h, D, r, rr
  <2>4. Cardinality(D) \in Nat /\ Cardinality(D \ {h}) = Cardinality(D) - 1
    BY <2>2, <2>3, FS_CardinalityType, FS_RemoveElement
  <2>5. CASE DOMAIN live' = D \ {h} /\ rr \in Nat /\ rr <= r
    BY <2>2, <2>4, <2>5 DEF D, r, rr
  <2>6. CASE DOMAIN live' = D /\ rr = 0
    BY <2>2, <2>4, <2>6 DEF D, r, rr
  <2> QED
    BY <2>2, <2>5, <2>6
<1>2. IInv /\ [Next]_vars => [taker # <<>> /\ taker' # <<>> => Less]_vars
  <2> HIDE DEF Less
  <2> QED
    BY <1>1
<1> QED
  BY <1>2, BookInvariant, PTL DEF SweepMakesProgress, Spec
=============================================================================

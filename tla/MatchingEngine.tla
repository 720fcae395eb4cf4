--------------------------- MODULE MatchingEngine ---------------------------
(***************************************************************************)
(* matching/src: MatchingEngine with the TradeBuilder and the              *)
(* ExecutionContext it fills, over the book of module OrderBook.           *)
(*                                                                         *)
(* submit_order runs on the engine's thread and nothing interrupts it; its *)
(* loop over resting orders is one step per match here: SubmitOrder enters *)
(* the function, MatchStep is an iteration, FinishSubmit the rest of it.   *)
(* While taker holds the order being submitted nothing else can happen.    *)
(* The statistics and the sequence counters of trades and reports are left *)
(* out, and so is the time in force, which the engine never reads.         *)
(* can_self_trade is always true.                                          *)
(***************************************************************************)
EXTENDS OrderBook

CONSTANTS
  Qtys,        \* quantities of submitted orders
  ModifyQtys,  \* new quantities of modify_order
  Types,       \* subset of {"Limit", "Market", "Stop"}
  Accounts,    \* account ids, positive
  MaxTrades,   \* ExecutionContext::MAX_TRADES, 128 in the code
  MaxReports,  \* ExecutionContext::MAX_REPORTS, 256 in the code
  MaxCommands  \* bound of the model: submits and modifications of a behaviour

ASSUME EngineAssumption ==
  /\ Qtys \subseteq Nat /\ ModifyQtys \subseteq Nat
  /\ MaxTrades \in Nat /\ MaxReports \in Nat /\ MaxCommands \in Nat

VARIABLES
  taker,      \* <<>>, or <<the order in submit_order, with what remains of it>>
  ctx,        \* the trades and reports of the command
  result,     \* the status submit_order returned last
  alive,      \* FALSE once an exception left a noexcept function
  submitted,  \* history: id -> order, for every order submitted
  executed,   \* history: id -> quantity traded in all
  now         \* history: counts submits and modifications

engine == <<taker, ctx, result, alive, submitted, executed, now>>
vars == <<book, engine>>

NoAccount == 0
Orders ==
  [id : OrderIds, account : Accounts, side : Sides, type : Types, price : Prices, qty : Qtys]

EmptyContext == [trades |-> <<>>, reports |-> <<>>]

Init ==
  /\ BookInit
  /\ taker = <<>>
  /\ ctx = EmptyContext
  /\ result = "Success"
  /\ alive = TRUE
  /\ submitted = NoEntries
  /\ executed = [id \in OrderIds |-> 0]
  /\ now = 0

Idle == alive /\ taker = <<>>
-----------------------------------------------------------------------------
\* add_trade and add_report return nullptr once their array is full.
AddTrade(c, t) ==
  IF Len(c.trades) < MaxTrades THEN [c EXCEPT !.trades = Append(@, t)] ELSE c
AddReport(c, r) ==
  IF Len(c.reports) < MaxReports THEN [c EXCEPT !.reports = Append(@, r)] ELSE c

Report(type, id, account, price, last, remaining) ==
  [type |-> type, id |-> id, account |-> account, price |-> price,
   last |-> last, remaining |-> remaining]

BuildAck(c, o) == AddReport(c, Report("New", o.id, o.account, o.price, 0, o.qty))

\* The maker's client and account are not known to the book.
BuildMatch(c, o, maker, qty, price, taker_left, maker_left) ==
  AddReport(
    AddReport(
      AddTrade(c, [taker |-> o.id, maker |-> maker, price |-> price, qty |-> qty]),
      Report("Trade", o.id, o.account, price, qty, taker_left)),
    Report("Trade", maker, NoAccount, price, qty, maker_left))

BuildCancel(c, id, account, price) == AddReport(c, Report("Cancel", id, account, price, 0, 0))

BuildExpiration(c, o) == AddReport(c, Report("Cancel", o.id, o.account, o.price, 0, 0))
-----------------------------------------------------------------------------
\* submit_order up to its loop.  The caller has reset the context.
SubmitOrder(o) ==
  /\ Idle
  /\ taker' = <<[order |-> o, remaining |-> o.qty]>>
  /\ ctx' = BuildAck(EmptyContext, o)
  /\ submitted' = Put(submitted, o.id, o)
  /\ now' = now + 1
  /\ UNCHANGED <<book, result, alive, executed>>

\* Mutant: equal prices do not cross.
CrossesStrictly(o, remaining) ==
  LET ls == levels[Opposite(o.side)]
  IN  /\ remaining > 0
      /\ ls # <<>>
      /\ o.type = "Limit" => Better(o.side, o.price, ls[1].price)

\* The loop conditions: quantity left, a best level, and for a limit order a
\* price that crosses it.
Crosses(o, remaining) ==
  LET ls == levels[Opposite(o.side)]
  IN  /\ remaining > 0
      /\ ls # <<>>
      /\ o.type = "Limit" => ~Better(Opposite(o.side), o.price, ls[1].price)

MatchQty(remaining, s) ==
  IF remaining < live[s].remaining THEN remaining ELSE live[s].remaining

\* One iteration: the head of the best level trades at its own price.
MatchStep ==
  /\ alive /\ taker # <<>>
  /\ LET o == taker[1].order
         remaining == taker[1].remaining
         level == levels[Opposite(o.side)][1]
         s == Head(level.orders)
         qty == MatchQty(remaining, s)
     IN  /\ Crosses(o, remaining)
         /\ ctx' = BuildMatch(ctx, o, live[s].id, qty, level.price,
                              remaining - qty, live[s].remaining - qty)
         /\ FillOrder(s, qty)
         /\ taker' = <<[order |-> o, remaining |-> remaining - qty]>>
         /\ executed' = [id \in OrderIds |->
              executed[id] + (IF id = o.id THEN qty ELSE 0) + (IF id = live[s].id THEN qty ELSE 0)]
  /\ UNCHANGED <<result, alive, submitted, now>>

\* A limit order goes to rest with the quantity it was submitted with.
Rest(o) == Insert(o, now)

\* The post-match part.  Only Limit and Market remainders are handled.
FinishSubmit ==
  /\ alive /\ taker # <<>>
  /\ LET o == taker[1].order
         remaining == taker[1].remaining
     IN  /\ ~Crosses(o, remaining)
         /\ \/ /\ remaining = 0
               /\ result' = "Filled"
               /\ UNCHANGED <<book, ctx, alive>>
            \/ /\ remaining > 0 /\ o.type = "Limit" /\ CanInsert(o)
               /\ Rest(o)
               /\ result' = IF remaining = o.qty THEN "Success" ELSE "PartiallyFilled"
               /\ UNCHANGED <<ctx, alive>>
            \/ /\ remaining > 0 /\ o.type = "Limit" /\ ~CanInsert(o)
               /\ alive' = FALSE
               /\ UNCHANGED <<book, ctx, result>>
            \/ /\ remaining > 0 /\ o.type = "Market"
               /\ ctx' = BuildExpiration(ctx, o)
               /\ result' = "Expired"
               /\ UNCHANGED <<book, alive>>
            \/ /\ remaining > 0 /\ o.type = "Stop"
               /\ result' = "Success"
               /\ UNCHANGED <<book, ctx, alive>>
  /\ taker' = <<>>
  /\ UNCHANGED <<submitted, executed, now>>

\* cancel_order: no report for an order that is not found.
CancelOrder(id, account) ==
  /\ Idle
  /\ \/ /\ id \in DOMAIN lookup
        /\ ctx' = BuildCancel(EmptyContext, id, account, live[lookup[id]].price)
        /\ Cancel(id)
     \/ /\ id \notin DOMAIN lookup
        /\ ctx' = EmptyContext
        /\ UNCHANGED book
  /\ UNCHANGED <<taker, result, alive, submitted, executed, now>>

\* modify_order: no report.
ModifyOrder(id, new_qty) ==
  /\ Idle
  /\ \/ ModifyQty(id, new_qty, now + 1)
     \/ id \notin DOMAIN lookup /\ UNCHANGED book
  /\ now' = now + 1
  /\ UNCHANGED <<taker, ctx, result, alive, submitted, executed>>

Reset ==
  /\ Idle
  /\ Clear
  /\ UNCHANGED engine
-----------------------------------------------------------------------------
\* The engine relies on its caller for order ids that were not used before.
Next ==
  \/ \E o \in Orders : now < MaxCommands /\ o.id \notin DOMAIN submitted /\ SubmitOrder(o)
  \/ MatchStep
  \/ FinishSubmit
  \/ \E id \in OrderIds, account \in Accounts : CancelOrder(id, account)
  \/ \E id \in OrderIds, q \in ModifyQtys : now < MaxCommands /\ ModifyOrder(id, q)
  \/ Reset

Spec == Init /\ [][Next]_vars
-----------------------------------------------------------------------------
\* Every bid is below every ask, also between two matches of a sweep: a limit
\* order rests only after all the interest it crosses is gone.
Uncrossed ==
  \A i \in DOMAIN levels["Buy"], j \in DOMAIN levels["Sell"] :
    levels["Buy"][i].price < levels["Sell"][j].price

\* Price-time priority, judged by arrival times and not by the queues: a match
\* never takes an order while a better priced one, or one at the same price
\* that has been in its place for longer, rests on that side.
PriceTimePriority ==
  [][\A s \in DOMAIN live :
       taker # <<>> /\ (s \in DOMAIN live' => live'[s].remaining < live[s].remaining) =>
         LET side == Opposite(taker[1].order.side)
         IN  \A u \in Queued(side) \ {s} :
               \/ Better(side, live[s].price, live[u].price)
               \/ live[s].price = live[u].price /\ live[s].since < live[u].since]_vars

\* No order trades more than the quantity it was submitted with (orders that
\* were never modified).
NoOverExecution == \A id \in DOMAIN submitted : executed[id] <= submitted[id].qty

\* The matching loop ends: each of its iterations lessens what the taker wants
\* plus the number of resting orders, also when it meets an order whose quantity
\* was modified to 0.
SweepMakesProgress ==
  [][taker # <<>> /\ taker' # <<>> =>
       taker'[1].remaining + Cardinality(DOMAIN live')
         < taker[1].remaining + Cardinality(DOMAIN live)]_vars
=============================================================================

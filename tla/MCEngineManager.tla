-------------------------- MODULE MCEngineManager --------------------------
(* The thread of one symbol, in two instances chosen by which: what          *)
(* process_command does with a command (module EngineManager), and how the   *)
(* thread and its journal are started, stopped and lost in a crash.          *)
EXTENDS Journal

CONSTANTS
  Instances,  \* subset of {"manager", "journal"}
  ManagerCommands,  \* MaxCommands of EngineManager
  \* See EngineManager.
  Prices, OrderIds, Slots, MaxLevels, Qtys, ModifyQtys, Types, Accounts, MaxTrades, MaxReports,
  OutboundCap, Symbols, Halts, MarketStatuses, Word, QtyScale, InitialPower, MaxExposure,
  MaxOrderQty, MaxOrderPrice, Reference, BandPercent, PositionLimit,
  MapSize, CreditSlots, PositionSlots, SymbolSlots, FlagSlots,
  WindowSize, Second, Limits, MaxTime, MaxOrders, MaxCalls

VARIABLES
  which,
  levels, live, lookup, taker, ctx, result, alive, submitted, m_executed, now,
  halts, status, account, position, seen_ids, timestamps, index, count, passed, clock,
  risk_pc, risk_ctx, decision, steady, marked, calls,
  where, m_cmd, next, outbound, m_appended, taken, told, refused, cut, taker_net

\* The accounts of the orders with an odd id are one.  A market order has the
\* last id and takes all it can.  Cancels come with price 0, as the gateway builds
\* them, and with the reference price, as a caller of submit_command may.
NewOrders ==
  {c \in [type : {"New"}, id : OrderIds, orig : {0}, account : Accounts, side : {"Buy", "Sell"},
          order_type : Types, price : Prices, qty : Qtys] :
     /\ c.account = 1 + (c.id % 2)
     /\ c.order_type = "Market" => c.id = 3 /\ \A q \in Qtys : q <= c.qty}

OtherCommands ==
  {[type |-> t, id |-> 3, orig |-> 1, account |-> 2, side |-> "Buy",
    order_type |-> "Limit", price |-> p, qty |-> 0] :
      t \in {"Cancel", "Replace"}, p \in {0, Reference}}

AllPolicies == {"Never", "Interval", "Batch", "Immediate"}
NoHalts == {}

Manager == INSTANCE EngineManager WITH
  Commands <- NewOrders \cup OtherCommands, MaxCommands <- ManagerCommands,
  executed <- m_executed, cmd <- m_cmd, appended <- m_appended

manager ==
  <<levels, live, lookup, taker, ctx, result, alive, submitted, m_executed, now,
    halts, status, account, position, seen_ids, timestamps, index, count, passed, clock,
    risk_pc, risk_ctx, decision, steady, marked, calls,
    where, m_cmd, next, outbound, m_appended, taken, told, refused, cut, taker_net>>
all == <<which, vars, manager>>

\* What rests has one initial state.
AllInit ==
  /\ which \in Instances /\ Init /\ Manager!ManagerInit
  /\ which # "journal" => policy = "Batch"

InManager(A) == which = "manager" /\ A /\ UNCHANGED <<which, vars>>
InJournal(A) == which = "journal" /\ A /\ UNCHANGED <<which, manager>>

AllNext == InManager(Manager!ManagerNext) \/ InJournal(Next)

\* The thread goes on with the command it has popped; the threads of the engine
\* and of the journal are scheduled, and a stop that has begun goes on.
AllSpec ==
  /\ AllInit /\ [][AllNext]_all
  /\ WF_all(InManager(Manager!Process) \/ InJournal(Engine))
  /\ WF_all(InJournal(Writer))
  /\ WF_all(InJournal(StopDisk \/ JoinDisk \/ JoinEngine))

\* Every fill is reported, refused by the full queue or cut by the full context.
EveryFillReported == Manager!EveryFillReported

\* The net positions are those of the takers' trades.
TakerFillsBooked == Manager!TakerFillsBooked

\* An order whose id the validator has not forgotten is found by that id.
KnownOrdersFindable == Manager!KnownOrdersFindable

\* A command that was popped is processed to its end.
CommandEnds == Manager!CommandEnds
=============================================================================

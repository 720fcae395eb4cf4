--------------------------- MODULE EngineManager ---------------------------
(***************************************************************************)
(* exchange/engine_manager.hpp: process_command and dispatch_reports, the  *)
(* composition of a RiskEngine and a MatchingEngine on the thread of one   *)
(* symbol.  A command is validated, journaled, executed, and every report  *)
(* of its execution goes to outbound_queue_ and, for fills and cancels,    *)
(* back to the risk engine.  The response thread empties the queue.        *)
(*                                                                         *)
(* The thread's start, stop and journal are in module Journal; here an     *)
(* append counts.  Commands come from the gateway or from submit_command.  *)
(***************************************************************************)
EXTENDS MatchingEngine

CONSTANTS
  Commands,     \* OrderCommands: [type, id, orig, account, side, order_type, price, qty]
  OutboundCap,  \* capacity of outbound_queue_, 4096 in the code
  Symbols, Halts, MarketStatuses, Word, QtyScale, InitialPower, MaxExposure,
  MaxOrderQty, MaxOrderPrice, Reference, BandPercent, PositionLimit,
  MapSize, CreditSlots, PositionSlots, SymbolSlots, FlagSlots,
  WindowSize, Second, Limits, MaxTime, MaxOrders, MaxCalls  \* see RiskEngine

VARIABLES
  halts, status, account, position, seen_ids, timestamps, index, count, passed, clock,
  risk_pc, risk_ctx, decision, steady, marked, calls,  \* the RiskEngine
  where,       \* the thread: pop, validate, execute, dispatch
  cmd,         \* the command being processed
  next,        \* i of the loop in dispatch_reports
  outbound,    \* outbound_queue_
  appended,    \* history: commands handed to the journal
  taken,       \* history: commands popped
  told,        \* history: id -> quantity in the Trade reports queued for clients
  refused,     \* history: id -> quantity in those a full outbound_queue_ refused
  cut,         \* history: id -> quantity in those a full ExecutionContext dropped
  taker_net    \* history: account -> quantity bought less sold by its takers, as
               \* far as the context took the reports

risk == <<halts, status, account, position, seen_ids, timestamps, index, count, passed, clock,
          risk_pc, risk_ctx, decision, steady, marked, calls>>
thread == <<where, cmd, next, outbound>>
notes == <<appended, taken, told, refused, cut, taker_net>>
manager == <<vars, risk, thread, notes>>

\* A maker's report has account 0, which the risk engine books like any other.
Risk == INSTANCE RiskEngine WITH
  Accounts <- Accounts \cup {NoAccount}, Ids <- OrderIds, Trackers <- 0 .. CreditSlots - 1,
  pc <- risk_pc, ctx <- risk_ctx

Symbol == CHOOSE s \in Symbols : TRUE

ManagerInit ==
  /\ Init
  /\ Risk!Init
  /\ where = "pop" /\ cmd \in {CHOOSE c \in Commands : TRUE} /\ next = 1
  /\ outbound = <<>>
  /\ appended = 0 /\ taken = 0
  /\ told = [id \in OrderIds |-> 0] /\ refused = told /\ cut = told
  /\ taker_net = [a \in Accounts |-> 0]
-----------------------------------------------------------------------------
\* run: a command is popped, and process_command has the risk engine validate
\* it, whatever its type.
RiskContext(c) ==
  [id |-> c.id, account |-> c.account, symbol |-> Symbol, side |-> c.side,
   price |-> c.price, qty |-> c.qty]

PopCommand(c) ==
  /\ where = "pop" /\ alive /\ taken < MaxCommands
  /\ where' = "validate" /\ cmd' = c
  /\ Risk!BeginValidate(RiskContext(c))
  /\ taken' = taken + 1
  /\ UNCHANGED <<vars, next, outbound, appended, told, refused, cut, taker_net>>

ValidateStep ==
  /\ where = "validate"
  /\ Risk!KillSwitchLoads \/ Risk!LoadStatus \/ Risk!RunPolicies
  /\ UNCHANGED <<vars, thread, notes>>

\* outbound_queue_.push, whose result is ignored.
PushReport(r) == outbound' = IF Len(outbound) < OutboundCap THEN Append(outbound, r) ELSE outbound

Decided(d) == where = "validate" /\ risk_pc = "idle" /\ d = (decision = "Accept")

RejectCommand ==
  /\ Decided(FALSE)
  /\ PushReport([type |-> "Reject", id |-> cmd.id])
  /\ where' = "pop"
  /\ UNCHANGED <<vars, risk, cmd, next, notes>>

\* The order the command describes is submitted with its client order id.
OrderOf(c) ==
  [id |-> c.id, account |-> c.account, side |-> c.side, type |-> c.order_type,
   price |-> c.price, qty |-> c.qty]

SubmitCommand ==
  /\ Decided(TRUE) /\ cmd.type = "New"
  /\ appended' = appended + 1
  /\ SubmitOrder(OrderOf(cmd))
  /\ where' = "execute"
  /\ UNCHANGED <<risk, cmd, next, outbound, taken, told, refused, cut, taker_net>>

\* The side a command's reports are booked with.
ReportSide == IF cmd.type = "New" THEN cmd.side ELSE "Buy"
Signed(qty) == IF ReportSide = "Buy" THEN qty ELSE -qty

\* What executed in this match, of the taker and of the maker, and whether the
\* context had room for the two reports.
ExecuteStep ==
  /\ where = "execute" /\ MatchStep
  /\ LET qty == taker[1].remaining - taker'[1].remaining
         maker == live[Head(levels[Opposite(cmd.side)][1].orders)].id
         room == MaxReports - Len(ctx.reports)
     IN  /\ taker_net' = [taker_net EXCEPT ![cmd.account] = IF room > 0 THEN @ + Signed(qty) ELSE @]
         /\ cut' = [id \in OrderIds |-> cut[id] + (IF id = cmd.id /\ room < 1 THEN qty ELSE 0)
                                                + (IF id = maker /\ room < 2 THEN qty ELSE 0)]
  /\ UNCHANGED <<risk, thread, appended, taken, told, refused>>

ExecuteEnd ==
  /\ where = "execute" /\ FinishSubmit
  /\ where' = "dispatch" /\ next' = 1
  /\ UNCHANGED <<risk, cmd, outbound, notes>>

CancelCommand ==
  /\ Decided(TRUE) /\ cmd.type = "Cancel"
  /\ appended' = appended + 1
  /\ CancelOrder(cmd.orig, cmd.account)
  /\ where' = "dispatch" /\ next' = 1
  /\ UNCHANGED <<risk, cmd, outbound, taken, told, refused, cut, taker_net>>

\* A replace passes the checks, is journaled, and that is all.
ReplaceCommand ==
  /\ Decided(TRUE) /\ cmd.type = "Replace"
  /\ appended' = appended + 1
  /\ where' = "pop"
  /\ UNCHANGED <<vars, risk, cmd, next, outbound, taken, told, refused, cut, taker_net>>
-----------------------------------------------------------------------------
\* Mutant: fills are booked with what remains of the order.
FeedBackRemaining(r) ==
  \/ /\ r.type = "Trade"
     /\ Risk!UpdateOnFill(r.account, Symbol, ReportSide, r.remaining, r.price)
  \/ /\ r.type = "Cancel"
     /\ Risk!UpdateOnCancel(r.account, Risk!Cost(r.price, r.last))
  \/ r.type = "New" /\ UNCHANGED risk
\* Trade and Cancel reports are fed back to the risk engine.
FeedBack(r) ==
  \/ /\ r.type = "Trade"
     /\ Risk!UpdateOnFill(r.account, Symbol, ReportSide, r.last, r.price)
  \/ /\ r.type = "Cancel"
     /\ Risk!UpdateOnCancel(r.account, Risk!Cost(r.price, r.last))
  \/ r.type = "New" /\ UNCHANGED risk

\* One iteration of dispatch_reports.
DispatchReport ==
  /\ where = "dispatch" /\ alive /\ next <= Len(ctx.reports)
  /\ LET r == ctx.reports[next]
     IN  /\ PushReport([type |-> r.type, id |-> r.id])
         /\ FeedBack(r)
         /\ \/ r.type # "Trade" /\ UNCHANGED <<told, refused>>
            \/ /\ r.type = "Trade" /\ Len(outbound) < OutboundCap
               /\ told' = [told EXCEPT ![r.id] = @ + r.last] /\ UNCHANGED refused
            \/ /\ r.type = "Trade" /\ Len(outbound) = OutboundCap
               /\ refused' = [refused EXCEPT ![r.id] = @ + r.last] /\ UNCHANGED told
  /\ next' = next + 1
  /\ UNCHANGED <<vars, where, cmd, appended, taken, cut, taker_net>>

\* Mutant: the loop stops before the last report.
DispatchShort ==
  /\ where = "dispatch" /\ alive /\ next >= Len(ctx.reports)
  /\ where' = "pop" /\ next' = 1
  /\ UNCHANGED <<vars, risk, cmd, outbound, notes>>
DispatchEnd ==
  /\ where = "dispatch" /\ alive /\ next > Len(ctx.reports)
  /\ where' = "pop" /\ next' = 1
  /\ UNCHANGED <<vars, risk, cmd, outbound, notes>>

\* Exchange::run_response_loop pops a report and sends it.
Respond ==
  /\ outbound # <<>>
  /\ outbound' = Tail(outbound)
  /\ UNCHANGED <<vars, risk, where, cmd, next, notes>>
-----------------------------------------------------------------------------
Process ==
  \/ ValidateStep \/ RejectCommand
  \/ SubmitCommand \/ ExecuteStep \/ ExecuteEnd
  \/ CancelCommand \/ ReplaceCommand
  \/ DispatchReport \/ DispatchEnd

ManagerNext == Process \/ Respond \/ \E c \in Commands : PopCommand(c)

\* The thread goes on with the command it has popped.
ManagerSpec == ManagerInit /\ [][ManagerNext]_manager /\ WF_manager(Process)
-----------------------------------------------------------------------------
\* After every command each order's executed quantity, as taker and as maker, is
\* accounted for: it was in a Trade report queued for the client, or in one that
\* the full outbound queue refused, or in one that the full ExecutionContext had
\* dropped; nothing is reported twice, and nothing is lost in any other way.
EveryFillReported ==
  where = "pop" => \A id \in OrderIds : told[id] + refused[id] + cut[id] = executed[id]

\* The positions that the next validation is based on are those of the trades:
\* after every command the net position of an account is what its orders
\* bought less what they sold as takers, but for the trades of which a full
\* ExecutionContext dropped the taker's report, which are never booked.
TakerFillsBooked ==
  where = "pop" =>
    \A a \in Accounts :
      LET p == position[Risk!PositionSlot(a, Symbol)]
      IN  p.long - p.short = taker_net[a]

\* Another id of its slot came after the id: the validator may have forgotten it.
Displaced(id) ==
  \E i, k \in DOMAIN marked :
    i < k /\ marked[i] = id /\ marked[k] # id /\ Risk!IdSlot(marked[k]) = Risk!IdSlot(id)

\* The validator's ids are the book's: an order whose client order id is not 0
\* and was not displaced in the validator is found by that id for as long as it
\* rests.  (An order with id 0 or a displaced id may be hidden by a second one.)
KnownOrdersFindable ==
  where = "pop" =>
    \A s \in DOMAIN live :
      LET id == live[s].id
      IN  id # 0 /\ ~Displaced(id) => id \in DOMAIN lookup /\ lookup[id] = s

\* A command that was popped is processed to its end, unless the process ends
\* on the way because a pool is exhausted.
CommandEnds == where = "validate" ~> where = "pop" \/ ~alive
=============================================================================

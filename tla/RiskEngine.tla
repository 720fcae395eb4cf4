----------------------------- MODULE RiskEngine -----------------------------
(***************************************************************************)
(* risk: the pre-trade pipeline of one RiskEngine (KillSwitch,             *)
(* CircuitBreaker, duplicates, rate limit, fat finger, price band,         *)
(* position, credit) and the accounting fed back by fills and cancels.     *)
(*                                                                         *)
(* All of it belongs to the thread of one engine, except the KillSwitch    *)
(* flags and the market status: static atomics that operators set from     *)
(* other threads and that validate loads one after the other.  Each such   *)
(* load is a step; the policies after them touch only the engine's own     *)
(* state and are one step.  Self-trade prevention passes everything, and   *)
(* limits_.kill_switch_active is never set by the code; both are left out, *)
(* and so are the statistics and the trace that attributes rejections.     *)
(***************************************************************************)
EXTENDS RateLimiter

CONSTANTS
  Accounts, Symbols, Ids,  \* naturals, as clients send them; id 0 means none
  Halts, MarketStatuses,   \* KillSwitch flags and statuses the operators use
  Prices, Qtys,
  Word,            \* 2^64: the range of uint64_t
  QtyScale,        \* units of a quantity of one, 1000000 in the code
  InitialPower,    \* buying power of an account at reset
  MaxExposure,     \* max_daily_exposure
  MaxOrderQty, MaxOrderPrice,
  Reference, BandPercent,  \* the reference price and the tolerance around it
  PositionLimit,   \* max_long_limit and max_short_limit
  MapSize,         \* slots of DuplicateValidator, 4096 in the code
  CreditSlots,     \* accounts of CreditManager and RateLimitValidator, 1024
  PositionSlots, SymbolSlots,  \* accounts and symbols of MarginManager, 128 and 32
  FlagSlots,       \* account flags and symbol flags of KillSwitch, 1024 each
  MaxCalls       \* bound of the model: calls into the engine

ASSUME RiskAssumption ==
  /\ Accounts \subseteq Nat /\ Symbols \subseteq Nat /\ Ids \subseteq Nat
  /\ Prices \subseteq Nat /\ Qtys \subseteq Nat
  /\ Word \in Nat \ {0} /\ QtyScale \in Nat \ {0}
  /\ InitialPower \in 0 .. Word - 1 /\ MaxExposure \in Nat
  /\ Halts \subseteq {"global", "account", "symbol"} \X Nat
  /\ Accounts # {} /\ Symbols # {} /\ Ids # {} /\ Prices # {} /\ Qtys # {}
  /\ MapSize \in Nat \ {0} /\ CreditSlots \in Nat \ {0} /\ PositionSlots \in Nat \ {0}
  /\ SymbolSlots \in Nat \ {0} /\ FlagSlots \in Nat \ {0}
  /\ \A a \in Accounts : a % CreditSlots \in Trackers

VARIABLES
  halts, status,  \* KillSwitch flags that are set; CircuitBreaker::status_
  account,        \* slot -> AccountState
  position,       \* <<slot, symbol>> -> long and short quantity
  seen_ids,       \* slot -> id, 0 when free
  pc, ctx,        \* where validate is, and the context it validates
  decision,       \* the last result of validate
  steady,         \* history: halts in force ever since validate was called
  marked,         \* history: the ids that check_duplicate let through, but for 0
  calls           \* history: calls into the engine

flags == <<halts, status>>
books == <<account, position>>
vars == <<flags, books, seen_ids, limiter, pc, ctx, decision, steady, marked, calls>>

CreditSlot(a) == a % CreditSlots
PositionSlot(a, s) == <<a % PositionSlots, s % SymbolSlots>>

Sides == {"Buy", "Sell"}
Contexts ==
  [id : Ids, account : Accounts, symbol : Symbols, side : Sides, price : Prices, qty : Qtys]

\* A halt is a flag of the KillSwitch, or the market being halted.  Accounts,
\* and symbols, that are equal modulo FlagSlots share a flag.
GlobalHalt == <<"global", 0>>
MarketHalt == <<"market", 0>>
AccountFlag(a) == <<"account", a % FlagSlots>>
SymbolFlag(s) == <<"symbol", s % FlagSlots>>
Halted(st) == st \in {"Halt", "VolatilityHalt"}
Covering(c) == {GlobalHalt, AccountFlag(c.account), SymbolFlag(c.symbol), MarketHalt}
InForce(h, st) == h \cup (IF Halted(st) THEN {MarketHalt} ELSE {})

NewAccount == [available |-> InitialPower, reserved |-> 0, used |-> 0, exposure |-> 0]

Init ==
  /\ halts = {} /\ status = "Trading"
  /\ account = [i \in {CreditSlot(a) : a \in Accounts} |-> NewAccount]
  /\ position = [p \in {PositionSlot(a, s) : a \in Accounts, s \in Symbols} |->
                   [long |-> 0, short |-> 0]]
  /\ seen_ids = [i \in 0 .. MapSize - 1 |-> 0]
  /\ LimiterInit
  /\ pc = "idle" /\ ctx \in {CHOOSE c \in Contexts : TRUE}
  /\ decision = "None"
  /\ steady = {}
  /\ marked = <<>>
  /\ calls = 0
-----------------------------------------------------------------------------
\* set_global_halt, set_account_halt, set_symbol_halt and set_status, called by
\* an operator at any moment.
SetHalt(f) ==
  /\ halts' = halts \cup {f} \/ halts' = halts \ {f}
  /\ steady' = steady \cap InForce(halts', status)
  /\ UNCHANGED <<status, books, seen_ids, limiter, pc, ctx, decision, marked, calls>>

SetStatus(st) ==
  /\ status' = st
  /\ steady' = steady \cap InForce(halts, st)
  /\ UNCHANGED <<halts, books, seen_ids, limiter, pc, ctx, decision, marked, calls>>

\* Exchange::add_symbol constructs another RiskEngine; reset(), called by its
\* constructor, clears the flags and the status all engines share (its stores
\* are one step).
ConstructAnother ==
  /\ halts' = {} /\ status' = "Trading"
  /\ steady' = {}
  /\ UNCHANGED <<books, seen_ids, limiter, pc, ctx, decision, marked, calls>>

Tick ==
  /\ pc = "idle" /\ PassTime
  /\ UNCHANGED <<flags, books, seen_ids, pc, ctx, decision, steady, marked, calls>>
-----------------------------------------------------------------------------
\* validate(ctx) is called.
BeginValidate(c) ==
  /\ pc = "idle" /\ calls < MaxCalls
  /\ calls' = calls + 1
  /\ ctx' = c
  /\ steady' = InForce(halts, status)
  /\ pc' = "global"
  /\ UNCHANGED <<flags, books, seen_ids, limiter, decision, marked>>

Reject(reason) == pc' = "idle" /\ decision' = reason

\* KillSwitch::validate: one load per flag, global, account, symbol.
LoadFlag(at, f, next) ==
  /\ pc = at
  /\ \/ f \in halts /\ Reject("RiskLimitExceeded")
     \/ f \notin halts /\ pc' = next /\ UNCHANGED decision
  /\ UNCHANGED <<flags, books, seen_ids, limiter, ctx, steady, marked, calls>>

\* Mutant: the flag of the symbol is not loaded.
LoadTwoFlags ==
  \/ LoadFlag("global", GlobalHalt, "account")
  \/ LoadFlag("account", AccountFlag(ctx.account), "status")
KillSwitchLoads ==
  \/ LoadFlag("global", GlobalHalt, "account")
  \/ LoadFlag("account", AccountFlag(ctx.account), "symbol")
  \/ LoadFlag("symbol", SymbolFlag(ctx.symbol), "status")

\* CircuitBreaker::validate.
LoadStatus ==
  /\ pc = "status"
  /\ \/ Halted(status) /\ Reject("RiskLimitExceeded")
     \/ ~Halted(status) /\ pc' = "policies" /\ UNCHANGED decision
  /\ UNCHANGED <<flags, books, seen_ids, limiter, ctx, steady, marked, calls>>
-----------------------------------------------------------------------------
\* check_duplicate: id 0 is never a duplicate, another one takes its slot.
IdSlot(id) == id % MapSize
IsDuplicate(id) == id # 0 /\ seen_ids[IdSlot(id)] = id
\* Mutant: no id is ever remembered.
MarkNothing(id) == seen_ids' = seen_ids
MarkSeen(id) == seen_ids' = IF id = 0 THEN seen_ids ELSE [seen_ids EXCEPT ![IdSlot(id)] = id]

\* A limit of 0 is no limit.
FatFinger(c) ==
  \/ MaxOrderQty > 0 /\ c.qty > MaxOrderQty
  \/ MaxOrderPrice > 0 /\ c.price > MaxOrderPrice

OutOfBand(c) ==
  /\ Reference # 0
  /\ \/ c.price * 100 > Reference * (100 + BandPercent)
     \/ c.price * 100 < Reference * (100 - BandPercent)

\* MarginManager::validate: the position if this order filled now.
PositionExceeded(c) ==
  LET p == position[PositionSlot(c.account, c.symbol)]
      net == p.long - p.short
      next_net == IF c.side = "Buy" THEN net + c.qty ELSE net - c.qty
  IN  PositionLimit > 0 /\ (next_net > PositionLimit \/ -next_net > PositionLimit)

\* The product is a uint64_t and wraps.
Cost(price, qty) == ((price * qty) % Word) \div QtyScale

CreditExceeded(c) ==
  LET acc == account[CreditSlot(c.account)]
      cost == Cost(c.price, c.qty)
  IN  \/ cost > acc.available
      \/ MaxExposure > 0 /\ (acc.exposure + cost) % Word > MaxExposure

Refusal(c) ==
  IF FatFinger(c) THEN "InvalidQuantity"
  ELSE IF OutOfBand(c) THEN "InvalidPrice"
  ELSE IF PositionExceeded(c) \/ CreditExceeded(c) THEN "RiskLimitExceeded"
  ELSE "None"

\* Buying power moves between what is available and what is reserved.
Earmark(acc, cost) ==
  [available |-> acc.available - cost, reserved |-> acc.reserved + cost,
   used |-> acc.used, exposure |-> acc.exposure]

\* Mutant: the last of the buying power is not reserved.
ReserveStrict(a, cost) ==
  account' = [account EXCEPT ![CreditSlot(a)] =
                IF @.available > cost THEN Earmark(@, cost) ELSE @]
\* CreditManager::update_on_accept.
Reserve(a, cost) ==
  account' = [account EXCEPT ![CreditSlot(a)] =
                IF @.available >= cost THEN Earmark(@, cost) ELSE @]

Accept(c) ==
  /\ pc' = "idle" /\ decision' = "Accept"
  /\ Reserve(c.account, Cost(c.price, c.qty))

\* The policies after the flags, in the order of PreTradeRiskPipeline.  An id
\* is marked as seen, and an order counted by the rate limiter, before the
\* policies that may still refuse it.
RunPolicies ==
  /\ pc = "policies"
  /\ \/ /\ IsDuplicate(ctx.id)
        /\ Reject("DuplicateOrder")
        /\ UNCHANGED <<account, seen_ids, limiter, marked>>
     \/ /\ ~IsDuplicate(ctx.id)
        /\ MarkSeen(ctx.id)
        /\ marked' = IF ctx.id = 0 THEN marked ELSE Append(marked, ctx.id)
        /\ UNCHANGED clock
        /\ \E limit \in Limits :
             \/ /\ CheckRate(CreditSlot(ctx.account), limit, FALSE)
                /\ Reject("RiskLimitExceeded")
                /\ UNCHANGED account
             \/ /\ CheckRate(CreditSlot(ctx.account), limit, TRUE)
                /\ \/ Refusal(ctx) = "None" /\ Accept(ctx)
                   \/ Refusal(ctx) # "None" /\ Reject(Refusal(ctx)) /\ UNCHANGED account
  /\ UNCHANGED <<flags, position, ctx, steady, calls>>
-----------------------------------------------------------------------------
\* update_on_fill: the position, then what the fill costs, which is taken from
\* the reservation first and from the buying power if that does not suffice.
SettleFill(acc, cost) ==
  LET short == IF cost > acc.reserved THEN cost - acc.reserved ELSE 0
  IN  [available |-> IF acc.available >= short THEN acc.available - short ELSE acc.available,
       reserved |-> IF cost > acc.reserved THEN 0 ELSE acc.reserved - cost,
       used |-> (acc.used + cost) % Word,
       exposure |-> (acc.exposure + cost) % Word]

\* MarginManager::update_on_fill.
MovePosition(p, side, qty) ==
  IF side = "Buy" THEN [long |-> p.long + qty, short |-> p.short]
                  ELSE [long |-> p.long, short |-> p.short + qty]

UpdateOnFill(a, s, side, qty, price) ==
  /\ pc = "idle" /\ calls < MaxCalls
  /\ position' = [position EXCEPT ![PositionSlot(a, s)] = MovePosition(@, side, qty)]
  /\ account' = [account EXCEPT ![CreditSlot(a)] = SettleFill(@, (qty * price) % Word)]
  /\ calls' = calls + 1
  /\ UNCHANGED <<flags, seen_ids, limiter, pc, ctx, decision, steady, marked>>

\* Mutant: a release that was never reserved.
ReleaseUnguarded(acc, cost) == [acc EXCEPT !.available = @ + cost]
Release(acc, cost) == IF acc.reserved >= cost THEN Earmark(acc, -cost) ELSE acc

UpdateOnCancel(a, cost) ==
  /\ pc = "idle" /\ calls < MaxCalls
  /\ account' = [account EXCEPT ![CreditSlot(a)] = Release(@, cost)]
  /\ calls' = calls + 1
  /\ UNCHANGED <<flags, position, seen_ids, limiter, pc, ctx, decision, steady, marked>>
-----------------------------------------------------------------------------
Validate ==
  \/ \E c \in Contexts : BeginValidate(c)
  \/ KillSwitchLoads \/ LoadStatus \/ RunPolicies

Update ==
  \/ \E a \in Accounts, s \in Symbols, side \in Sides, q \in Qtys, p \in Prices :
       UpdateOnFill(a, s, side, q, p)
  \/ \E a \in Accounts, p \in Prices, q \in Qtys : UpdateOnCancel(a, Cost(p, q))

Operate ==
  \/ \E f \in Halts : SetHalt(f)
  \/ \E st \in MarketStatuses : SetStatus(st)
  \/ ConstructAnother

Next == Validate \/ Update \/ Operate \/ Tick

Spec == Init /\ [][Next]_vars
-----------------------------------------------------------------------------
Words == 0 .. Word - 1
AccountStates == [available : Words, reserved : Words, used : Words, exposure : Words]

\* However acceptances, fills and cancels interleave, and whatever they are
\* called with, no buying power appears: what an account may still spend and
\* what it has reserved never exceed what it started with.
BuyingPowerNeverCreated ==
  \A i \in DOMAIN account : account[i].available + account[i].reserved <= InitialPower

\* An order is not accepted when one halt that covers it (global, its account,
\* its symbol, the market) was in force from the call of validate to its end,
\* although the flags are loaded one by one while operators change them.
HaltedIsRejected ==
  [][pc = "policies" /\ pc' = "idle" /\ decision' = "Accept" => steady \cap Covering(ctx) = {}]_vars

\* An accepted order has moved exactly the cost that CreditManager::validate
\* compared with the buying power: the product of price and quantity as a
\* uint64_t holds it, in ticks.  When the product does not fit, that is not what
\* the order costs, but the check and the reservation still agree.
ReservesCheckedCost ==
  [][pc = "policies" /\ pc' = "idle" /\ decision' = "Accept" =>
       LET i == CreditSlot(ctx.account)
           cost == Cost(ctx.price, ctx.qty)
       IN  /\ account'[i].reserved = account[i].reserved + cost
           /\ account'[i].available = account[i].available - cost
           /\ cost <= account[i].available]_vars

\* "Reserved capital should update (100.50 * 10 = 1005 ticks ...)": an accepted
\* order reserves price times quantity, whatever the two are.
ReservesFullCost ==
  [][pc = "policies" /\ pc' = "idle" /\ decision' = "Accept" =>
       LET i == CreditSlot(ctx.account)
       IN  account'[i].reserved = account[i].reserved + (ctx.price * ctx.qty) \div QtyScale]_vars

\* What the flat map of DuplicateValidator does promise: an id other than 0
\* passes check_duplicate again only if another id of its slot came in between
\* (ids are the clients' 64-bit numbers modulo MapSize), so that of the orders
\* with one id no two are accepted while the slot still holds it.
DuplicateOnlyIfDisplaced ==
  \A i, k \in DOMAIN marked :
    i < k /\ marked[i] = marked[k] =>
      \E j \in i + 1 .. k - 1 : marked[j] # marked[i] /\ IdSlot(marked[j]) = IdSlot(marked[i])
=============================================================================

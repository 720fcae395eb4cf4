---------------------------- MODULE RateLimiter ----------------------------
(***************************************************************************)
(* risk/rate_limit_validator.hpp: a tracker per account slot, a ring of    *)
(* the times of the last WindowSize orders let through.  The limit is an   *)
(* argument of every call (RiskLimits is mutable at run time), so it may   *)
(* change between two orders.                                              *)
(*                                                                         *)
(* Times are those of Clock::now_steady, read by the one gateway thread    *)
(* when it builds the command, and so never decrease.                      *)
(***************************************************************************)
EXTENDS Integers, Sequences

CONSTANTS
  Trackers,    \* slots of trackers_ (1024 in the code)
  WindowSize,  \* Tracker::WINDOW_SIZE, 100 in the code
  Second,      \* length of the sliding window, 1000000000 ns in the code
  Limits,      \* values of max_orders_per_sec
  MaxTime, MaxOrders  \* bounds of the model: the clock, orders per tracker

ASSUME RateAssumption ==
  /\ WindowSize \in Nat \ {0}
  /\ Second \in Nat
  /\ Limits \subseteq 0 .. WindowSize
  /\ MaxTime \in Nat /\ MaxOrders \in Nat

VARIABLES
  timestamps, index, count,  \* the fields of each tracker
  clock,                     \* the steady clock
  passed                     \* history: the orders each tracker recorded

rate == <<timestamps, index, count, passed>>
limiter == <<rate, clock>>

Ring == 0 .. WindowSize - 1

LimiterInit ==
  /\ timestamps = [t \in Trackers |-> [i \in Ring |-> 0]]
  /\ index = [t \in Trackers |-> 0]
  /\ count = [t \in Trackers |-> 0]
  /\ passed = [t \in Trackers |-> <<>>]
  /\ clock = 0

\* Mutant: the slot about to be overwritten, whatever the limit.
NextSlot(t, limit) == index[t]
\* The oldest order that counts for this limit.
OldestIndex(t, limit) == (index[t] + WindowSize - limit) % WindowSize

\* check_rate returns true ...
Allowed(t, limit) ==
  \/ count[t] < limit
  \/ clock - timestamps[t][OldestIndex(t, limit)] >= Second

Advance(i) == (i + 1) % WindowSize

\* ... after recording the order, and nothing else happens when it returns
\* false.
CheckRate(t, limit, ok) ==
  \/ /\ limit = 0 /\ ok
     /\ UNCHANGED rate
  \/ /\ limit > 0 /\ Allowed(t, limit) /\ ok
     /\ timestamps' = [timestamps EXCEPT ![t][index[t]] = clock]
     /\ index' = [index EXCEPT ![t] = Advance(@)]
     /\ count' = [count EXCEPT ![t] = IF @ < limit THEN @ + 1 ELSE @]
     /\ passed' = [passed EXCEPT ![t] = Append(@, [time |-> clock, limit |-> limit])]
  \/ /\ limit > 0 /\ ~Allowed(t, limit) /\ ~ok
     /\ UNCHANGED rate

ResetRate(ts) ==
  /\ timestamps' = [t \in Trackers |-> IF t \in ts THEN [i \in Ring |-> 0] ELSE timestamps[t]]
  /\ index' = [t \in Trackers |-> IF t \in ts THEN 0 ELSE index[t]]
  /\ count' = [t \in Trackers |-> IF t \in ts THEN 0 ELSE count[t]]
  /\ passed' = [t \in Trackers |-> IF t \in ts THEN <<>> ELSE passed[t]]

PassTime == clock < MaxTime /\ clock' = clock + 1 /\ UNCHANGED rate

LimiterNext ==
  \/ \E t \in Trackers, limit \in Limits, ok \in BOOLEAN :
       Len(passed[t]) < MaxOrders /\ CheckRate(t, limit, ok) /\ UNCHANGED clock
  \/ ResetRate(Trackers) /\ UNCHANGED clock
  \/ PassTime

LimiterSpec == LimiterInit /\ [][LimiterNext]_limiter
-----------------------------------------------------------------------------
\* The write position stays inside the ring, and the recorded times are times.
LimiterTypeOK ==
  /\ timestamps \in [Trackers -> [Ring -> Nat]]
  /\ index \in [Trackers -> Ring]
  /\ count \in [Trackers -> Nat]
  /\ clock \in Nat
  /\ passed \in [Trackers -> Seq([time : Nat, limit : 1 .. WindowSize])]

\* The promise of the sliding window, also when the limit was raised or lowered
\* between the orders: an order let through under limit n comes at least one
\* second after the n-th order before it, so that no window of one second that
\* ends with it holds more than n.
RateWithinLimit ==
  \A t \in Trackers : \A k \in DOMAIN passed[t] :
    LET o == passed[t][k]
    IN  k > o.limit => o.time - passed[t][k - o.limit].time >= Second
=============================================================================

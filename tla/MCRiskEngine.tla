---------------------------- MODULE MCRiskEngine ----------------------------
(* Three small instances in one, chosen by which: the rate limiter alone;    *)
(* validations while operators set and lift halts; and orders of every kind, *)
(* fills and cancels without operators.  Flags are pairs, which a            *)
(* configuration file cannot write.                                          *)
EXTENDS RiskEngine

VARIABLE which

AllHalts == {GlobalHalt, <<"account", 1>>, <<"symbol", 1>>}

\* The first order of the halts instance: any order will do.
PlainOrders == {c \in Contexts : c.id = 0 /\ c.side = "Buy" /\ ~FatFinger(c) /\ ~OutOfBand(c)}

LimiterOnly ==
  /\ LimiterNext
  /\ UNCHANGED <<flags, books, seen_ids, pc, ctx, decision, steady, marked, calls>>

\* Orders without a rate limit.
UnderHalts == (Validate \/ Operate) /\ ctx' \in PlainOrders \cup {ctx} /\ passed' = passed

\* One tick of the clock is enough for two windows.
OrdersAndFills == (Validate \/ Update \/ Tick \/ ConstructAnother) /\ clock' <= 1

MCInit == Init /\ which \in {"limiter", "halts", "orders"}
MCNext ==
  /\ \/ which = "limiter" /\ LimiterOnly
     \/ which = "halts" /\ UnderHalts
     \/ which = "orders" /\ OrdersAndFills
  /\ UNCHANGED which
MCSpec == MCInit /\ [][MCNext]_<<vars, which>>
=============================================================================

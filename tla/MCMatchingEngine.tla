-------------------------- MODULE MCMatchingEngine --------------------------
(* Two instances, chosen by which: the matching engine under all its         *)
(* operations, and a second engine whose book is recovered after a crash.    *)
EXTENDS MatchingEngine

CONSTANTS
  Instances,  \* subset of {"engine", "recovery"}
  JournalCaps, FileRecords, MaxSnapshots  \* see Recovery

VARIABLES
  which,
  rlevels, rlive, rlookup, rtaker, rctx, rresult, ralive, rsubmitted, rexecuted, rnow,
  mode, journal_cap, pending, stream, files, saving, snapshots, meta,
  reading, journal_idx, position, current_seq, views, unrested, unjournaled, begun

recovered ==
  <<rlevels, rlive, rlookup, rtaker, rctx, rresult, ralive, rsubmitted, rexecuted, rnow,
    mode, journal_cap, pending, stream, files, saving, snapshots, meta,
    reading, journal_idx, position, current_seq, views, unrested, unjournaled, begun>>

Rec == INSTANCE Recovery WITH
  levels <- rlevels, live <- rlive, lookup <- rlookup, taker <- rtaker, ctx <- rctx,
  result <- rresult, alive <- ralive, submitted <- rsubmitted, executed <- rexecuted, now <- rnow

\* Order ids are interchangeable and used in their order; the price of an order
\* that is not a limit order is never read but for its reports.
Canonical ==
  taker = <<>> /\ taker' # <<>> =>
    LET o == taker'[1].order
    IN  /\ o.id = 1 + Cardinality(DOMAIN submitted)
        /\ o.type # "Limit" => o.price = 1

\* Three commands; the orders are for one unit at price 1 or two at price 2, so
\* that they rest on both sides, match in full and match in part.
Bounded ==
  /\ Len(views') <= 3
  /\ rtaker' # <<>> => LET o == rtaker'[1].order
                      IN  o.type = "Limit" /\ o.price \in {1, 2} /\ o.qty = o.price

MCInit == Init /\ Rec!RecoveryInit /\ which \in Instances
MCNext ==
  /\ \/ which = "engine" /\ Next /\ Canonical /\ UNCHANGED recovered
     \/ which = "recovery" /\ Rec!RecoveryNext /\ Bounded /\ UNCHANGED vars
  /\ UNCHANGED which
MCSpec == MCInit /\ [][MCNext]_<<vars, recovered, which>>

\* The promises of the recovery, which module Recovery states.
RecoveredIsLive == Rec!RecoveredIsLive
RecoveredUnlessMatched == Rec!RecoveredUnlessMatched
=============================================================================

---------------------------- MODULE BoundedFifo ----------------------------
(***************************************************************************)
(* What a bounded point-to-point queue promises its users: values leave in *)
(* the order in which they entered, each exactly once, and never more than *)
(* Capacity of them wait.  SPSCQueue is shown to implement it.             *)
(***************************************************************************)
EXTENDS Naturals, Sequences

CONSTANTS Values, Capacity

VARIABLES
  queue,     \* the values accepted and not yet delivered, oldest first
  delivered  \* the value of the last successful pop, <<>> before the first

vars == <<queue, delivered>>

Init == queue = <<>> /\ delivered = <<>>

Push(v) ==
  /\ Len(queue) < Capacity
  /\ queue' = Append(queue, v)
  /\ UNCHANGED delivered

Pop ==
  /\ queue # <<>>
  /\ queue' = Tail(queue)
  /\ delivered' = <<Head(queue)>>

Next == Pop \/ \E v \in Values : Push(v)

Spec == Init /\ [][Next]_vars
=============================================================================

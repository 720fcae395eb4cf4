------------------------------ MODULE EventBus ------------------------------
(***************************************************************************)
(* kernel: EventBus.  publish runs the callbacks of an event type while it *)
(* holds mutex_ shared; subscribe holds it exclusively.  A callback may be *)
(* plain, or use the bus itself: the frames of a thread are a stack.       *)
(*                                                                         *)
(* Whether a shared lock is granted while another thread waits for the     *)
(* exclusive one is left to the implementation of std::shared_mutex: both  *)
(* are explored.                                                           *)
(***************************************************************************)
EXTENDS Integers, SequencesExt

CONSTANTS
  Threads,
  Events,     \* the event types of the bus
  Callbacks,  \* what callbacks do: a subset of {"plain", "subscribes", "publishes"}
  MaxCalls    \* bound of the model: calls of publish and subscribe

VARIABLES
  writer_first,  \* the policy of the lock
  subscribers,   \* subscribers_: event type -> callbacks
  stack,         \* the frames of each thread, innermost last
  calls

vars == <<writer_first, subscribers, stack, calls>>

Init ==
  /\ writer_first \in BOOLEAN
  /\ subscribers = [e \in Events |-> <<>>]
  /\ stack = [t \in Threads |-> <<>>] /\ calls = 0

\* A frame waits for the lock ("shared" or "unique") or runs callbacks
\* ("publish"): next is the position in the list.
Waits(lock, e, callback) ==
  [doing |-> lock, event |-> e, callback |-> callback, next |-> 0]
Frames == UNION {ToSet(stack[t]) : t \in Threads}
Publishing == {f \in Frames : f.doing = "publish"}
Doing(t) == IF stack[t] = <<>> THEN "nothing" ELSE Last(stack[t]).doing
Replace(t, frame) == [stack EXCEPT ![t] = Append(Front(@), frame)]

Publish(t, e) ==
  /\ stack[t] = <<>> /\ calls < MaxCalls /\ calls' = calls + 1
  /\ stack' = [stack EXCEPT ![t] = <<Waits("shared", e, "plain")>>]
  /\ UNCHANGED <<writer_first, subscribers>>

Subscribe(t, e, callback) ==
  /\ stack[t] = <<>> /\ calls < MaxCalls /\ calls' = calls + 1
  /\ stack' = [stack EXCEPT ![t] = <<Waits("unique", e, callback)>>]
  /\ UNCHANGED <<writer_first, subscribers>>
-----------------------------------------------------------------------------
LockShared(t) ==
  /\ Doing(t) = "shared"
  /\ writer_first => \A u \in Threads : Doing(u) # "unique"
  /\ LET f == Last(stack[t])
     IN  stack' = Replace(t, [f EXCEPT !.doing = "publish", !.next = 1])
  /\ UNCHANGED <<writer_first, subscribers, calls>>

\* The exclusive lock is taken, the callback is added, and subscribe returns.
Add(t) ==
  /\ Doing(t) = "unique" /\ Publishing = {}
  /\ LET f == Last(stack[t])
     IN  subscribers' = [subscribers EXCEPT ![f.event] = Append(@, f.callback)]
  /\ stack' = [stack EXCEPT ![t] = Front(@)]
  /\ UNCHANGED <<writer_first, calls>>

\* Mutant: one position past the end of the list.
EndsLate(f) == f.next > Len(subscribers[f.event]) + 1
Ends(f) == f.next > Len(subscribers[f.event])

\* publish calls the next callback, which, if it is not
\* plain, may call the bus for some event, ...
CallBack(t) ==
  /\ Doing(t) = "publish"
  /\ LET f == Last(stack[t])
         callback == subscribers[f.event][f.next]
         after == Replace(t, [f EXCEPT !.next = @ + 1])
     IN  /\ f.next <= Len(subscribers[f.event])
         /\ \/ stack' = after /\ UNCHANGED calls
            \/ /\ callback # "plain" /\ calls < MaxCalls /\ calls' = calls + 1
               /\ \E e \in Events :
                    stack' = [after EXCEPT ![t] = Append(@,
                      Waits(IF callback = "subscribes" THEN "unique" ELSE "shared", e, "plain"))]
  /\ UNCHANGED <<writer_first, subscribers>>

\* ... and returns after the last.
Return(t) ==
  /\ Doing(t) = "publish" /\ Ends(Last(stack[t]))
  /\ stack' = [stack EXCEPT ![t] = Front(@)]
  /\ UNCHANGED <<writer_first, subscribers, calls>>

Progress == \E t \in Threads : LockShared(t) \/ Add(t) \/ CallBack(t) \/ Return(t)
Next ==
  \/ Progress
  \/ \E t \in Threads, e \in Events :
       Publish(t, e) \/ \E callback \in Callbacks : Subscribe(t, e, callback)
-----------------------------------------------------------------------------
\* Every call returns, but for two cases: a callback subscribes, and its own
\* thread is publishing; or a callback publishes while a subscriber waits, and
\* the lock lets the subscriber go first.
CallbackStuck ==
  \E t \in Threads :
    /\ Len(stack[t]) > 1
    /\ \/ Doing(t) = "unique"
       \/ Doing(t) = "shared" /\ writer_first /\ \E u \in Threads : Doing(u) = "unique"
BusReturns == \A t \in Threads : stack[t] # <<>> ~> stack[t] = <<>> \/ CallbackStuck
=============================================================================

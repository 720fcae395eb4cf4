------------------------------ MODULE MCKernel ------------------------------
(* The kernel over every dependency graph of up to three modules, registered *)
(* or not, including self-dependencies, missing modules and cycles; and its  *)
(* ThreadManager and EventBus.  A behaviour is one of the three, as which    *)
(* says; the others rest.                                                    *)
EXTENDS Kernel

CONSTANTS Callers, Names, ManagerCalls, BusThreads, Events, Callbacks, BusCalls

VARIABLES which, mutex, threads, t_workers, announced, pc, name, t_calls,
          writer_first, subscribers, stack, b_calls

Manager == INSTANCE ThreadManager WITH
  MaxCalls <- ManagerCalls, workers <- t_workers, calls <- t_calls
Bus == INSTANCE EventBus WITH
  Threads <- BusThreads, MaxCalls <- BusCalls, calls <- b_calls

manager == <<mutex, threads, t_workers, announced, pc, name, t_calls>>
bus == <<writer_first, subscribers, stack, b_calls>>
all == <<which, vars, manager, bus>>

\* What rests has one initial state.
AllInit ==
  /\ which \in {"kernel", "manager", "bus"} /\ Init /\ Manager!Init /\ Bus!Init
  /\ which # "kernel" => Registered = ModuleIds /\ \A m \in ModuleIds : deps[m] = {}
  /\ which # "bus" => writer_first

InKernel(A) == which = "kernel" /\ A /\ UNCHANGED <<which, manager, bus>>
InManager(A) == which = "manager" /\ A /\ UNCHANGED <<which, vars, bus>>
InBus(A) == which = "bus" /\ A /\ UNCHANGED <<which, vars, manager>>

AllNext == InKernel(Next) \/ InManager(Manager!Next) \/ InBus(Bus!Next)

\* A call that has begun goes on, and so do the workers; nobody has to call.
\* Each behaviour makes finitely many calls, so that this is enough for each of
\* the threads to go on when it can.
AllSpec ==
  /\ AllInit /\ [][AllNext]_all
  /\ WF_all(\/ InKernel(KernelStep \/ \E m \in Registered : WorkerEnds(m))
            \/ InManager(Manager!Progress)
            \/ InBus(Bus!Progress))

\* No thread of the ThreadManager is forgotten.
ThreadsAccounted == Manager!ThreadsAccounted

\* The calls of the ThreadManager return, unless join_all joins a caller.
CallsReturn == Manager!CallsReturn

\* The calls of the EventBus return, unless a callback is stuck in it.
BusReturns == Bus!BusReturns
=============================================================================

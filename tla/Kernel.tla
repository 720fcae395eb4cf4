------------------------------- MODULE Kernel -------------------------------
(***************************************************************************)
(* kernel: Kernel with its DependencyResolver and HealthMonitor, driven    *)
(* through the calls its header offers, in the order they are meant for:   *)
(* initialize, configure, start, wait, stop, shutdown, destruction.  The   *)
(* caller may destroy the kernel between any two calls, and stops calling  *)
(* when one returns an error.  Each call of a module's own lifecycle       *)
(* function is a step and may fail; signals arrive at any moment.          *)
(*                                                                         *)
(* resolve iterates over unordered maps: where the order is not determined *)
(* every order is possible here.  A module names a dependency once.        *)
(*                                                                         *)
(* A module may spawn a worker of the ThreadManager when it starts; modules*)
(* are not part of the kernel, and what is assumed of them is that the     *)
(* worker ends once stop or shutdown of the module has succeeded.  The     *)
(* calls of the ThreadManager themselves are in its module.                *)
(***************************************************************************)
EXTENDS Integers, Sequences, FiniteSetsExt, SequencesExt

CONSTANTS
  ModuleIds,
  MaxIgnored   \* bound of the model: errors of stop and shutdown in a behaviour

VARIABLES
  deps,                \* registered module -> the modules it depends on
  stage,               \* how far the caller has come
  doing, todo,         \* the kernel function being executed, modules left in it
  destroying,          \* the destructor is running
  queue, in_degree, order,  \* the locals of resolve
  startup_order,
  module_state,        \* what module->state() returns
  health,              \* HealthMonitor: module -> state last recorded
  shutdown_requested,
  workers,             \* modules whose worker runs: threads that join_all waits for
  called,              \* history: lifecycle functions called, per module
  stop_failed,         \* history: modules whose stop() failed
  shutdown_failed      \* history: modules whose last shutdown() failed

resolver == <<queue, in_degree, order>>
modules == <<module_state, health, called, stop_failed, shutdown_failed>>
vars == <<deps, stage, doing, todo, destroying, resolver, startup_order, modules,
          shutdown_requested, workers>>

Registered == DOMAIN deps
Dependants(m) == {d \in Registered : m \in deps[d]}
Orders(S) == {s \in [1 .. Cardinality(S) -> S] : IsInjective(s)}

\* The constructor up to the registration of the signal handlers; modules are
\* registered under distinct ids before initialize.
Init ==
  /\ deps \in UNION {[S -> SUBSET ModuleIds] : S \in SUBSET ModuleIds \ {{}}}
  /\ stage = "construct" /\ doing = "none" /\ todo = <<>>
  /\ destroying = FALSE
  /\ queue = <<>> /\ in_degree = <<>> /\ order = <<>> /\ startup_order = <<>>
  /\ module_state = [m \in Registered |-> "Created"]
  /\ health = [m \in Registered |-> "Unknown"]
  /\ called = [m \in Registered |-> {}]
  /\ stop_failed = {} /\ shutdown_failed = {} /\ workers = {}
  /\ shutdown_requested = FALSE

\* The constructor's last statement.
FinishConstruct ==
  /\ stage = "construct"
  /\ stage' = "created"
  /\ shutdown_requested' = FALSE
  /\ UNCHANGED <<deps, doing, todo, destroying, resolver, startup_order, modules, workers>>

HandleSignal ==
  /\ stage # "destroyed"
  /\ shutdown_requested' = TRUE
  /\ UNCHANGED <<deps, stage, doing, todo, destroying, resolver, startup_order, modules, workers>>

Ready(st) == doing = "none" /\ stage = st /\ ~destroying
-----------------------------------------------------------------------------
\* initialize calls resolve, which refuses self-dependencies and dependencies
\* that are not registered.
Malformed == \E m \in Registered : m \in deps[m] \/ ~(deps[m] \subseteq Registered)

Initialize ==
  /\ Ready("created")
  /\ \/ /\ Malformed
        /\ stage' = "failed"
        /\ UNCHANGED <<doing, resolver>>
     \/ /\ ~Malformed
        /\ in_degree' = [m \in Registered |-> Cardinality(deps[m])]
        /\ queue' \in Orders({m \in Registered : deps[m] = {}})
        /\ order' = <<>>
        /\ doing' = "resolve"
        /\ UNCHANGED stage
  /\ UNCHANGED <<deps, todo, destroying, startup_order, modules, shutdown_requested, workers>>

\* Mutant: a module is queued at the first dependency that is done.
ReleasedEarly(m) == Dependants(m)
\* The modules whose in-degree becomes 0 when m is done.
Released(m) == {d \in Dependants(m) : in_degree[d] = 1}

\* One iteration of Kahn's algorithm.
ResolveStep ==
  /\ doing = "resolve" /\ queue # <<>>
  /\ LET m == Head(queue)
     IN  /\ order' = Append(order, m)
         /\ in_degree' = [d \in Registered |->
                            IF d \in Dependants(m) THEN in_degree[d] - 1 ELSE in_degree[d]]
         /\ \E released \in Orders(Released(m)) : queue' = Tail(queue) \o released
  /\ UNCHANGED <<deps, stage, doing, todo, destroying, startup_order, modules, shutdown_requested, workers>>

ResolveDone ==
  /\ doing = "resolve" /\ queue = <<>>
  /\ \/ /\ Len(order) = Cardinality(Registered)
        /\ startup_order' = order
        /\ doing' = "initialize" /\ todo' = order
        /\ UNCHANGED stage
     \/ /\ Len(order) # Cardinality(Registered)
        /\ doing' = "none" /\ stage' = "failed"
        /\ UNCHANGED <<startup_order, todo>>
  /\ UNCHANGED <<deps, destroying, resolver, modules, shutdown_requested, workers>>
-----------------------------------------------------------------------------
\* A lifecycle function f of module m runs and leaves it in state st.
Call(m, f, st) ==
  /\ module_state' = [module_state EXCEPT ![m] = st]
  /\ called' = [called EXCEPT ![m] = @ \cup {f}]
  /\ shutdown_failed' = IF f = "shutdown" THEN shutdown_failed \ {m} ELSE shutdown_failed
  /\ UNCHANGED stop_failed

\* The loops of initialize, configure and start: the first error ends them, and
\* nothing is rolled back.
LoopStep(f, running, done) ==
  /\ doing = f /\ todo # <<>>
  /\ LET m == Head(todo)
     IN  /\ \/ /\ Call(m, f, running)
               /\ health' = [health EXCEPT ![m] = done]
               /\ todo' = Tail(todo)
               /\ UNCHANGED <<doing, stage>>
            \/ /\ Call(m, f, "Failed")
               /\ health' = [health EXCEPT ![m] = "Failed"]
               /\ todo' = <<>> /\ doing' = "none" /\ stage' = "failed"
         /\ \/ UNCHANGED workers
            \/ f = "start" /\ workers' = workers \cup {m}
  /\ UNCHANGED <<deps, destroying, resolver, startup_order, shutdown_requested>>

LoopDone(f, next) ==
  /\ doing = f /\ todo = <<>>
  /\ doing' = "none" /\ stage' = next
  /\ UNCHANGED <<deps, todo, destroying, resolver, startup_order, modules, shutdown_requested, workers>>

Begin(f, modules_in_order) ==
  /\ doing' = f /\ todo' = modules_in_order
  /\ UNCHANGED <<deps, stage, destroying, resolver, startup_order, modules, shutdown_requested, workers>>

InitializeLoop ==
  LoopStep("initialize", "Initializing", "Configured") \/ LoopDone("initialize", "initialized")
Configure == Ready("initialized") /\ Begin("configure", startup_order)
ConfigureLoop ==
  LoopStep("configure", "Configured", "Configured") \/ LoopDone("configure", "configured")
Start == Ready("configured") /\ Begin("start", startup_order)
StartLoop == LoopStep("start", "Running", "Running") \/ LoopDone("start", "started")

\* wait returns on a signal or once the monitor knows of a failure, which a
\* running module may report.
Wait == Ready("started") /\ Begin("wait", <<>>)
WaitReturns ==
  /\ shutdown_requested \/ \E m \in Registered : health[m] = "Failed"
  /\ LoopDone("wait", "waited")

ReportFailure(m) ==
  /\ module_state[m] = "Running" /\ doing \in {"none", "wait"}
  /\ health' = [health EXCEPT ![m] = "Failed"]
  /\ UNCHANGED <<deps, stage, doing, todo, destroying, resolver, startup_order,
                 module_state, called, stop_failed, shutdown_failed, shutdown_requested, workers>>
-----------------------------------------------------------------------------
\* Mutant: stop in the order of startup.
ForwardOrder == startup_order
ReverseOrder == Reverse(startup_order)

Stop == (Ready("started") \/ Ready("waited")) /\ Begin("stop", ReverseOrder)

MayFail == Cardinality(stop_failed) + Cardinality(shutdown_failed) < MaxIgnored

\* stop() of a module that is running; its result is ignored.
StopLoop ==
  \/ /\ doing = "stop" /\ todo # <<>>
     /\ LET m == Head(todo)
        IN  \/ /\ module_state[m] = "Running"
               /\ \/ Call(m, "stop", "Stopped")
                  \/ /\ MayFail
                     /\ stop_failed' = stop_failed \cup {m}
                     /\ called' = [called EXCEPT ![m] = @ \cup {"stop"}]
                     /\ UNCHANGED <<module_state, shutdown_failed>>
               /\ health' = [health EXCEPT ![m] = "Stopped"]
            \/ module_state[m] # "Running" /\ UNCHANGED modules
     /\ todo' = Tail(todo)
     /\ UNCHANGED <<deps, stage, doing, destroying, resolver, startup_order, shutdown_requested, workers>>
  \/ ~destroying /\ LoopDone("stop", "stopped")

Shutdown ==
  \/ Ready("stopped") /\ Begin("shutdown", ReverseOrder)
  \/ destroying /\ doing = "stop" /\ todo = <<>> /\ Begin("shutdown", ReverseOrder)

\* Mutant: a module that did not stop, because it never ran, is passed over.
ShutdownStopped ==
  /\ doing = "shutdown" /\ todo # <<>>
  /\ IF module_state[Head(todo)] = "Stopped"
     THEN /\ Call(Head(todo), "shutdown", "Shutdown")
          /\ health' = [health EXCEPT ![Head(todo)] = "Shutdown"]
     ELSE UNCHANGED modules
  /\ todo' = Tail(todo)
  /\ UNCHANGED <<deps, stage, doing, destroying, resolver, startup_order, shutdown_requested, workers>>
\* shutdown() of each module; its result is ignored.
ShutdownLoop ==
  /\ doing = "shutdown" /\ todo # <<>>
  /\ LET m == Head(todo)
     IN  \/ Call(m, "shutdown", "Shutdown")
         \/ /\ MayFail
            /\ shutdown_failed' = shutdown_failed \cup {m}
            /\ called' = [called EXCEPT ![m] = @ \cup {"shutdown"}]
            /\ UNCHANGED <<module_state, stop_failed>>
  /\ health' = [health EXCEPT ![Head(todo)] = "Shutdown"]
  /\ todo' = Tail(todo)
  /\ UNCHANGED <<deps, stage, doing, destroying, resolver, startup_order, shutdown_requested, workers>>

\* shutdown ends with thread_manager_.join_all().
JoinAll ==
  /\ workers = {}
  /\ LoopDone("shutdown", IF destroying THEN "destroyed" ELSE "shut_down")

ToldToEnd(m) ==
  \/ "shutdown" \in called[m] /\ m \notin shutdown_failed
  \/ "stop" \in called[m] /\ m \notin stop_failed

WorkerEnds(m) ==
  /\ m \in workers
  /\ ToldToEnd(m)
  /\ workers' = workers \ {m}
  /\ UNCHANGED <<deps, stage, doing, todo, destroying, resolver, startup_order, modules,
                 shutdown_requested>>

\* The destructor: stop, then shutdown.
Destroy ==
  /\ doing = "none" /\ ~destroying /\ stage # "construct"
  /\ destroying' = TRUE
  /\ doing' = "stop" /\ todo' = ReverseOrder
  /\ UNCHANGED <<deps, stage, resolver, startup_order, modules, shutdown_requested, workers>>
-----------------------------------------------------------------------------
KernelStep ==
  \/ FinishConstruct \/ ResolveStep \/ ResolveDone
  \/ InitializeLoop \/ ConfigureLoop \/ StartLoop \/ WaitReturns
  \/ StopLoop \/ Shutdown \/ ShutdownLoop \/ JoinAll
Caller == Initialize \/ Configure \/ Start \/ Wait \/ Stop \/ Destroy

Next ==
  \/ KernelStep \/ Caller \/ HandleSignal
  \/ \E m \in Registered : ReportFailure(m) \/ WorkerEnds(m)

Spec == Init /\ [][Next]_vars
-----------------------------------------------------------------------------
IsTopological(s) ==
  \A i \in DOMAIN s : deps[s[i]] \subseteq {s[j] : j \in 1 .. i - 1}

\* Kahn's algorithm against its definition, over every dependency graph: the
\* order resolve returns lists each module once, after its dependencies, and it
\* reports an error only when there is no such order.
ResolveCorrect ==
  /\ startup_order # <<>> => startup_order \in Orders(Registered) /\ IsTopological(startup_order)
  /\ stage = "failed" /\ startup_order = <<>> =>
       Malformed \/ ~\E s \in Orders(Registered) : IsTopological(s)

\* KERNEL.md section 2.1, on every path including partial startups and the
\* destructor: a module is stopped only when nothing that depends on it still
\* runs (unless its own stop failed), and shut down only after its dependants.
DependantsStopFirst ==
  [][\A m \in Registered : \A d \in Dependants(m) :
       /\ "stop" \in called'[m] \ called[m] => module_state[d] # "Running" \/ d \in stop_failed
       /\ "shutdown" \in called'[m] \ called[m] => "shutdown" \in called[d]]_vars

\* The destructor returns, however far the start-up had come and whichever call
\* had failed: each module that may have a worker is told to end it before
\* join_all waits for it.  It waits for ever only for the worker of a module
\* whose shutdown() has returned an error, which the kernel ignores.
DestructionEnds ==
  destroying ~> stage = "destroyed" \/ workers \cap shutdown_failed # {}
=============================================================================

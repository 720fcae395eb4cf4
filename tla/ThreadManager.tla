---------------------------- MODULE ThreadManager ---------------------------
(***************************************************************************)
(* kernel: ThreadManager.  spawn_worker holds mutex_ while it waits for    *)
(* the new thread to announce its id, join_all holds it while it joins     *)
(* every thread, and a worker may call the manager too.  A worker is named *)
(* by its name, under which workers_ keeps it for ever.                    *)
(***************************************************************************)
EXTENDS Integers, SequencesExt

CONSTANTS
  Callers,   \* threads that are not workers
  Names,     \* names of workers
  MaxCalls   \* bound of the model: calls of the manager

VARIABLES
  mutex,       \* the thread that holds mutex_, or none
  threads,     \* threads_, but for those already joined
  workers,     \* workers_: name -> is_active
  announced,   \* workers whose tid_promise is set
  pc, name,    \* where each thread is, and the name it spawns
  calls        \* calls so far

vars == <<mutex, threads, workers, announced, pc, name, calls>>

Threads == Callers \cup Names
Nobody == "nobody"
AtRest(t) == IF t \in Callers THEN "idle" ELSE "payload"
Goto(t, label) == pc' = [pc EXCEPT ![t] = label]

Init ==
  /\ mutex = Nobody /\ threads = <<>> /\ workers = [n \in {} |-> TRUE] /\ announced = {}
  /\ pc = [t \in Threads |-> IF t \in Callers THEN "idle" ELSE "none"]
  /\ name = [t \in Threads |-> Nobody] /\ calls = 0

\* A thread calls spawn_worker, get_stats or join_all and waits for mutex_.
Call(t, f, n) ==
  /\ pc[t] = AtRest(t) /\ calls < MaxCalls
  /\ calls' = calls + 1
  /\ Goto(t, f) /\ name' = [name EXCEPT ![t] = n]
  /\ UNCHANGED <<mutex, threads, workers, announced>>

Calls ==
  \E t \in Threads :
    \/ Call(t, "get_stats", Nobody) \/ Call(t, "join_all", Nobody)
    \/ \E n \in Names : Call(t, "spawn_worker", n)
-----------------------------------------------------------------------------
\* Mutant: the return for a name that is taken leaves mutex_ locked.
SpawnLockKept(t) ==
  /\ pc[t] = "spawn_worker" /\ mutex = Nobody
  /\ mutex' = t
  /\ pc' = IF name[t] \in DOMAIN workers THEN [pc EXCEPT ![t] = AtRest(t)]
           ELSE [pc EXCEPT ![t] = "await_tid", ![name[t]] = "starting"]
  /\ UNCHANGED <<threads, workers, announced, name, calls>>
\* A name that is taken is refused, also when its thread has ended.
SpawnLock(t) ==
  /\ pc[t] = "spawn_worker" /\ mutex = Nobody
  /\ IF name[t] \in DOMAIN workers THEN Goto(t, AtRest(t)) /\ UNCHANGED mutex
     ELSE mutex' = t /\ pc' = [pc EXCEPT ![t] = "await_tid", ![name[t]] = "starting"]
  /\ UNCHANGED <<threads, workers, announced, name, calls>>

\* The new thread names and pins itself, sets the promise and runs its payload.
WorkerStarts(n) ==
  /\ pc[n] = "starting"
  /\ announced' = announced \cup {n}
  /\ Goto(n, "payload")
  /\ UNCHANGED <<mutex, threads, workers, name, calls>>

SpawnDone(t) ==
  /\ pc[t] = "await_tid" /\ name[t] \in announced
  /\ threads' = Append(threads, name[t])
  /\ workers' = [n \in DOMAIN workers \cup {name[t]} |-> n = name[t] \/ workers[n]]
  /\ mutex' = Nobody /\ Goto(t, AtRest(t))
  /\ UNCHANGED <<announced, name, calls>>

PayloadEnds(n) ==
  /\ pc[n] = "payload"
  /\ Goto(n, "ended")
  /\ UNCHANGED <<mutex, threads, workers, announced, name, calls>>
-----------------------------------------------------------------------------
\* get_stats copies workers_ under the mutex.
GetStats(t) ==
  /\ pc[t] = "get_stats" /\ mutex = Nobody
  /\ Goto(t, AtRest(t))
  /\ UNCHANGED <<mutex, threads, workers, announced, name, calls>>

\* join_all, and the destructor, which is join_all.
JoinLock(t) ==
  /\ pc[t] = "join_all" /\ mutex = Nobody
  /\ mutex' = t /\ Goto(t, "joining")
  /\ UNCHANGED <<threads, workers, announced, name, calls>>

\* Mutant: the threads are detached.
DetachOne(t) ==
  /\ pc[t] = "joining" /\ threads # <<>>
  /\ threads' = Tail(threads)
  /\ UNCHANGED <<mutex, workers, announced, pc, name, calls>>
JoinOne(t) ==
  /\ pc[t] = "joining" /\ threads # <<>> /\ pc[Head(threads)] = "ended"
  /\ threads' = Tail(threads)
  /\ UNCHANGED <<mutex, workers, announced, pc, name, calls>>

\* A worker that comes to itself: join throws, join_all is noexcept, and the
\* process is terminated.
JoinSelf(t) ==
  /\ pc[t] = "joining" /\ threads # <<>> /\ Head(threads) = t
  /\ Goto(t, "terminated")
  /\ UNCHANGED <<mutex, threads, workers, announced, name, calls>>

JoinDone(t) ==
  /\ pc[t] = "joining" /\ threads = <<>>
  /\ workers' = [n \in DOMAIN workers |-> FALSE]
  /\ mutex' = Nobody /\ Goto(t, AtRest(t))
  /\ UNCHANGED <<threads, announced, name, calls>>

Terminated == \E n \in Names : pc[n] = "terminated"

Progress ==
  /\ ~Terminated
  /\ \/ \E t \in Threads : \/ SpawnLock(t) \/ SpawnDone(t) \/ GetStats(t)
                           \/ JoinLock(t) \/ JoinOne(t) \/ JoinSelf(t) \/ JoinDone(t)
     \/ \E n \in Names : WorkerStarts(n) \/ PayloadEnds(n)

Next == (Calls /\ ~Terminated) \/ Progress
-----------------------------------------------------------------------------
\* No thread is forgotten: one that runs is in threads_ or about to be put there
\* by the thread that spawns it, and is_active is FALSE only for threads that
\* have ended.
ThreadsAccounted ==
  \A n \in Names :
    /\ pc[n] \notin {"none", "ended"} =>
         n \in ToSet(threads) \/ \E t \in Threads : pc[t] = "await_tid" /\ name[t] = n
    /\ n \in DOMAIN workers /\ ~workers[n] => pc[n] = "ended"

\* Every call returns, when payloads end, but for two cases: join_all, which
\* holds mutex_, joins a worker that waits for mutex_; and a worker calls
\* join_all, which ends the process when it comes to that worker.
InCall(t) == pc[t] \notin {"idle", "none", "starting", "payload", "ended"}
JoinsACaller ==
  \E t \in Threads, n \in ToSet(threads) :
    pc[t] = "joining" /\ pc[n] \in {"spawn_worker", "get_stats", "join_all"}
CallsReturn == \A t \in Threads : InCall(t) ~> ~InCall(t) \/ JoinsACaller \/ Terminated
=============================================================================

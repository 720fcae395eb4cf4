------------------------------ MODULE Exchange ------------------------------
(***************************************************************************)
(* exchange::Exchange: the thread that calls start and stop, the gateway   *)
(* thread, one engine thread per symbol and the response thread, joined by *)
(* inbound_queue_, the queues of the Dispatcher and outbound_queue_.       *)
(*                                                                         *)
(* The queues are bounded FIFOs, which RingBuffer is for one producer and  *)
(* one consumer.  outbound_queue_ has one producer per symbol added, so    *)
(* the model is faithful for one served symbol; the others have a queue    *)
(* that nobody reads.  What an engine does with a command is in module     *)
(* EngineManager; here a command has at most one report, and a new order   *)
(* exactly one.                                                            *)
(***************************************************************************)
EXTENDS Gateway

CONSTANTS
  Served,        \* symbols given to add_symbol
  NumSymbols,    \* queues of the Dispatcher
  QueueCap,      \* capacity of each of them
  OutboundCap    \* capacity of outbound_queue_

ASSUME ExchangeAssumption ==
  /\ Served \subseteq Nat /\ NumSymbols \in Nat \ {0}
  /\ QueueCap \in Nat \ {0} /\ OutboundCap \in Nat \ {0}
  /\ \A s, t \in Served : s % NumSymbols = t % NumSymbols => s = t

VARIABLES
  main,             \* where the caller of start and stop is
  running,          \* running_ of the exchange
  engine_running,   \* symbol -> running_ of its EngineManager
  engine, cmd,      \* symbol -> where its thread is, and the command it popped
  queues,           \* symbol_queues_ of the Dispatcher
  outbound,         \* outbound_queue_
  responder, report,\* where the response thread is, and the report it popped
  starts, stops,    \* calls so far
  refused,          \* history: sequences of commands a full queue refused
  executed,         \* history: symbol -> the commands its engine has processed
  answered, lost    \* history: sequences whose report was sent, and was not

threads == <<main, running, engine_running, engine, cmd, responder, report, starts, stops>>
vars == <<gateway, threads, queues, outbound, refused, executed, answered, lost>>

Slot(s) == s % NumSymbols
Slots == 0 .. NumSymbols - 1

Init ==
  /\ GatewayInit
  /\ main = "stopped" /\ running = FALSE
  /\ engine_running = [s \in Served |-> FALSE]
  /\ engine = [s \in Served |-> "none"] /\ cmd = [s \in Served |-> <<>>]
  /\ queues = [q \in Slots |-> <<>>] /\ outbound = <<>>
  /\ responder = "none" /\ report = <<>> /\ starts = 0 /\ stops = 0
  /\ refused = {} /\ executed = [s \in Served |-> <<>>] /\ answered = {} /\ lost = {}
-----------------------------------------------------------------------------
(* start *)

StartEngines ==
  /\ main = "stopped" /\ starts < limit.starts
  /\ main' = "start_response" /\ starts' = starts + 1
  /\ engine_running' = [s \in Served |-> TRUE] /\ engine' = [s \in Served |-> "check"]
  /\ UNCHANGED <<gateway, running, cmd, queues, outbound, responder, report, stops, refused,
                 executed, answered, lost>>

StartResponse ==
  /\ main = "start_response"
  /\ main' = "start_gateway" /\ running' = TRUE /\ responder' = "check"
  /\ UNCHANGED <<gateway, engine_running, engine, cmd, queues, outbound, report, starts, stops,
                 refused, executed, answered, lost>>

\* Gateway::start succeeds and the gateway thread is started, or it fails and
\* start calls stop.
StartGateway ==
  /\ main = "start_gateway"
  /\ \/ /\ main' = "running" /\ listening' = TRUE /\ poller' = "check"
        /\ UNCHANGED running
     \/ /\ main' = "stop_engines" /\ running' = FALSE
        /\ UNCHANGED <<listening, poller>>
  /\ UNCHANGED <<limit, clients, connected, sessions, sequence, inbound, fd, processed, header,
                 network, handled, logged_in, arrived, engine_running, engine, cmd, queues,
                 outbound, responder, report, starts, stops, refused, executed, answered, lost>>
-----------------------------------------------------------------------------
(* stop *)

\* Mutant: the flag is left set.
StopKeepsRunning ==
  /\ main = "running" /\ stops < limit.stops
  /\ main' = "stop_engines" /\ stops' = stops + 1
  /\ UNCHANGED <<gateway, running, engine_running, engine, cmd, queues, outbound, responder,
                 report, starts, refused, executed, answered, lost>>
Stop ==
  /\ main = "running" /\ stops < limit.stops
  /\ main' = "stop_engines" /\ running' = FALSE /\ stops' = stops + 1
  /\ UNCHANGED <<gateway, engine_running, engine, cmd, queues, outbound, responder, report,
                 starts, refused, executed, answered, lost>>

\* EngineManager::stop of each engine in turn: the flag, then the join.
Joined(s) == ~engine_running[s] /\ engine[s] = "none"

StopEngine(s) ==
  /\ main = "stop_engines" /\ engine_running[s]
  /\ \A t \in Served : ~engine_running[t] => Joined(t)
  /\ engine_running' = [engine_running EXCEPT ![s] = FALSE]
  /\ UNCHANGED <<gateway, main, running, engine, cmd, queues, outbound, responder, report, starts,
                 stops, refused, executed, answered, lost>>

JoinEngines ==
  /\ main = "stop_engines" /\ \A s \in Served : Joined(s)
  /\ main' = "join_gateway"
  /\ UNCHANGED <<gateway, running, engine_running, engine, cmd, queues, outbound, responder,
                 report, starts, stops, refused, executed, answered, lost>>

\* Mutant: the gateway is stopped while its thread may still be polling.
JoinNothing ==
  /\ main = "join_gateway" /\ main' = "stop_gateway"
  /\ UNCHANGED <<gateway, running, engine_running, engine, cmd, queues, outbound, responder,
                 report, starts, stops, refused, executed, answered, lost>>
JoinThreads ==
  /\ main = "join_gateway" /\ poller = "none" /\ responder = "none"
  /\ main' = "stop_gateway"
  /\ UNCHANGED <<gateway, running, engine_running, engine, cmd, queues, outbound, responder,
                 report, starts, stops, refused, executed, answered, lost>>

\* Gateway::stop: the sockets are closed and the session table is emptied.  The
\* queues and the sequence number are left as they are.
StopGateway ==
  /\ main = "stop_gateway"
  /\ main' = "stopped"
  /\ listening' = FALSE /\ clients' = NoFds
  /\ connections' = EmptyTable /\ active' = 0
  /\ wire' = [c \in ClientIds |-> <<>>] /\ written' = wire' /\ handled' = wire'
  /\ hung' = {} /\ logged_in' = {}
  /\ UNCHANGED <<limit, connected, sequence, inbound, poller, fd, processed, header, writes,
                 hangups, arrived, running, engine_running, engine, cmd, queues, outbound,
                 responder, report, starts, stops, refused, executed, answered, lost>>
-----------------------------------------------------------------------------
(* The gateway thread *)

\* running_ is read once per round; a round polls the transport, then empties
\* inbound_queue_ into the queues of the dispatcher.
GatewayMoves(from, to) ==
  /\ poller = from /\ poller' = to
  /\ UNCHANGED <<limit, transport, sessions, sequence, fd, processed, header, network, handled,
                 logged_in, arrived>>

GatewayCheck ==
  /\ GatewayMoves("check", IF running THEN "poll" ELSE "none")
  /\ UNCHANGED <<inbound, threads, queues, outbound, refused, executed, answered, lost>>

GatewayPolled ==
  /\ GatewayMoves("poll", "dispatch")
  /\ UNCHANGED <<inbound, threads, queues, outbound, refused, executed, answered, lost>>

\* Dispatcher::dispatch: what its push returns is ignored.
\* Mutant: the queue after the symbol's own.
SlotAfter(c) == (c.symbol + 1) % NumSymbols
SlotFor(c) == c.symbol % NumSymbols

Dispatch ==
  /\ inbound # <<>> /\ GatewayMoves("dispatch", "dispatch")
  /\ inbound' = Tail(inbound)
  /\ LET c == Head(inbound)
         q == SlotFor(c)
     IN  IF Len(queues[q]) < QueueCap
         THEN queues' = [queues EXCEPT ![q] = Append(@, c)] /\ UNCHANGED refused
         ELSE refused' = refused \cup {c.sequence} /\ UNCHANGED queues
  /\ UNCHANGED <<threads, outbound, executed, answered, lost>>

Dispatched ==
  /\ inbound = <<>> /\ GatewayMoves("dispatch", "check")
  /\ UNCHANGED <<inbound, threads, queues, outbound, refused, executed, answered, lost>>

GatewayThread ==
  \/ PollStep /\ UNCHANGED <<threads, queues, outbound, refused, executed, answered, lost>>
  \/ GatewayCheck \/ GatewayPolled \/ Dispatch \/ Dispatched
-----------------------------------------------------------------------------
(* An engine thread *)

EngineCheck(s) ==
  /\ engine[s] = "check"
  /\ engine' = [engine EXCEPT ![s] = IF engine_running[s] THEN "pop" ELSE "none"]
  /\ UNCHANGED <<gateway, main, running, engine_running, cmd, queues, outbound, responder, report,
                 starts, stops, refused, executed, answered, lost>>

\* Mutant: a thread that finds nothing to do ends.
EnginePopOrEnd(s) ==
  /\ engine[s] = "pop"
  /\ IF queues[Slot(s)] = <<>>
     THEN /\ engine' = [engine EXCEPT ![s] = "none"]
          /\ UNCHANGED <<cmd, queues>>
     ELSE /\ engine' = [engine EXCEPT ![s] = "process"]
          /\ cmd' = [cmd EXCEPT ![s] = <<Head(queues[Slot(s)])>>]
          /\ queues' = [queues EXCEPT ![Slot(s)] = Tail(@)]
  /\ UNCHANGED <<gateway, main, running, engine_running, outbound, responder, report, starts,
                 stops, refused, executed, answered, lost>>
EnginePop(s) ==
  /\ engine[s] = "pop"
  /\ IF queues[Slot(s)] = <<>>
     THEN /\ engine' = [engine EXCEPT ![s] = "check"]
          /\ UNCHANGED <<cmd, queues>>
     ELSE /\ engine' = [engine EXCEPT ![s] = "process"]
          /\ cmd' = [cmd EXCEPT ![s] = <<Head(queues[Slot(s)])>>]
          /\ queues' = [queues EXCEPT ![Slot(s)] = Tail(@)]
  /\ UNCHANGED <<gateway, main, running, engine_running, outbound, responder, report, starts,
                 stops, refused, executed, answered, lost>>

\* process_command, up to the push of its report, whose result is ignored.
EngineProcess(s) ==
  /\ engine[s] = "process"
  /\ engine' = [engine EXCEPT ![s] = "check"] /\ cmd' = [cmd EXCEPT ![s] = <<>>]
  /\ LET c == cmd[s][1]
     IN  /\ executed' = [executed EXCEPT ![s] = Append(@, c)]
         /\ \/ /\ Len(outbound) < OutboundCap
               /\ outbound' = Append(outbound, [conn_id |-> c.conn_id, sequence |-> c.sequence])
               /\ UNCHANGED lost
            \/ /\ Len(outbound) = OutboundCap \/ c.type # "NewOrder"
               /\ lost' = lost \cup {c.sequence}
               /\ UNCHANGED outbound
  /\ UNCHANGED <<gateway, main, running, engine_running, queues, responder, report, starts, stops,
                 refused, answered>>

EngineThread(s) == EngineCheck(s) \/ EnginePop(s) \/ EngineProcess(s)
-----------------------------------------------------------------------------
(* The response thread *)

RespondCheck ==
  /\ responder = "check"
  /\ responder' = IF running THEN "pop" ELSE "none"
  /\ UNCHANGED <<gateway, main, running, engine_running, engine, cmd, queues, outbound, report,
                 starts, stops, refused, executed, answered, lost>>

RespondPop ==
  /\ responder = "pop"
  /\ IF outbound = <<>>
     THEN responder' = "check" /\ UNCHANGED <<report, outbound>>
     ELSE /\ responder' = "send" /\ report' = <<Head(outbound)>> /\ outbound' = Tail(outbound)
  /\ UNCHANGED <<gateway, main, running, engine_running, engine, cmd, queues, starts, stops,
                 refused, executed, answered, lost>>

\* The report arrives at an open connection, or it does not: the connection has
\* gone, write takes a part of it or nothing, or the gateway thread encodes a
\* reply into write_buffer_ before it is written.  What send_packet returns is
\* ignored.
RespondSend ==
  /\ responder = "send"
  /\ responder' = "check" /\ report' = <<>>
  /\ \/ /\ report[1].conn_id \in DOMAIN clients
        /\ answered' = answered \cup {report[1].sequence} /\ UNCHANGED lost
     \/ lost' = lost \cup {report[1].sequence} /\ UNCHANGED answered
  /\ UNCHANGED <<gateway, main, running, engine_running, engine, cmd, queues, outbound, starts,
                 stops, refused, executed>>

ResponseThread == RespondCheck \/ RespondPop \/ RespondSend
-----------------------------------------------------------------------------
StopSteps == (\E s \in Served : StopEngine(s)) \/ JoinEngines \/ JoinThreads \/ StopGateway
StartSteps == StartResponse \/ StartGateway
Clients == ClientStep /\ UNCHANGED <<threads, queues, outbound, refused, executed, answered, lost>>

Next ==
  \/ StartEngines \/ StartSteps \/ Stop \/ StopSteps
  \/ GatewayThread \/ (\E s \in Served : EngineThread(s)) \/ ResponseThread
  \/ Clients

Spec == Init /\ [][Next]_vars

\* Every thread is scheduled, and start and stop, once called, go on.  Nobody
\* has to call them, and no client has to do anything.
FairSpec ==
  /\ Spec
  /\ WF_vars(StartSteps \/ StopSteps)
  /\ WF_vars(GatewayThread)
  /\ \A s \in Served : WF_vars(EngineThread(s))
  /\ WF_vars(ResponseThread)
-----------------------------------------------------------------------------
\* From the socket to the engine no command is lost, repeated or overtaken by a
\* later one of its queue, which is that of all symbols equal modulo NumSymbols:
\* what the engine has executed, what it holds, its queue and what is still in
\* inbound_queue_ are the commands that arrived, in order, but for those a full
\* queue refused.  This holds over a stop and a later start.
Holds(q) == {s \in Served : Slot(s) = q}
ExecutedAt(q) == IF Holds(q) = {} THEN <<>>
                 ELSE LET s == CHOOSE s \in Holds(q) : TRUE IN executed[s] \o cmd[s]
CommandsInOrder ==
  \A q \in Slots :
    LET Mine(c) == Slot(c.symbol) = q /\ c.sequence \notin refused
    IN  ExecutedAt(q) \o queues[q] \o SelectSeq(inbound, Mine) = SelectSeq(arrived, Mine)

\* When stop has returned, or start has failed, nothing of the exchange is left
\* running: no thread, no open socket, no session.
QuietWhenStopped ==
  main = "stopped" =>
    /\ ~running /\ poller = "none" /\ responder = "none" /\ \A s \in Served : Joined(s)
    /\ ~listening /\ clients = NoFds /\ active = 0

\* stop returns, and so does a start that fails: no join waits for ever, but for
\* that of the gateway thread when on_read has met a header of length 0, which it
\* reads again and again.
StopReturns == main = "stop_engines" ~> main = "stopped" \/ header # <<>>

\* A new order that has reached its engine's queue is answered, as long as the
\* exchange is not stopped: its report is passed to send, unless outbound_queue_
\* was full.  The report may still be lost there (see RespondSend).
Waiting(n) == \E s \in Served : \E i \in DOMAIN queues[Slot(s)] : queues[Slot(s)][i].sequence = n
OrdersAnswered ==
  \A n \in 1 .. 2 : Waiting(n) ~> n \in answered \cup lost \/ main # "running"
=============================================================================

--------------------------- MODULE ExchangeProofs ---------------------------
(***************************************************************************)
(* What holds of the exchange for every number of connections, symbols and *)
(* queue slots: a stop leaves nothing behind, the session table agrees     *)
(* with the clients behind its connections, and only a client that has     *)
(* logged in is given a sequence number.                                   *)
(***************************************************************************)
EXTENDS Exchange, TLAPS

MainStates == {"stopped", "start_response", "start_gateway", "running", "stop_engines",
               "join_gateway", "stop_gateway"}

\* Where the caller of start and stop is says which threads may exist.
QuietInv ==
  /\ main \in MainStates
  /\ engine \in [Served -> {"none", "check", "pop", "process"}]
  /\ engine_running \in [Served -> BOOLEAN] /\ running \in BOOLEAN
  /\ poller # "none" => main \in {"running", "stop_engines", "join_gateway"}
  /\ responder # "none" => main \notin {"stopped", "start_response", "stop_gateway"}
  /\ main \in {"stopped", "join_gateway", "stop_gateway"} => \A s \in Served : Joined(s)
  /\ running => main \in {"start_gateway", "running"}
  /\ main \in {"stopped", "start_response", "start_gateway"} =>
       ~listening /\ clients = NoFds /\ active = 0
-----------------------------------------------------------------------------
LEMMA QuietInit == Init => QuietInv
  BY DEF Init, GatewayInit, QuietInv, MainStates, Joined

LEMMA QuietPoll ==
  ASSUME QuietInv, GatewayThread
  PROVE  QuietInv'
<1>1. UNCHANGED threads
  BY DEF GatewayThread, GatewayCheck, GatewayPolled, Dispatch, Dispatched
<1>2. poller # "none"
  BY DEF GatewayThread, GatewayCheck, GatewayPolled, Dispatch, Dispatched, GatewayMoves, PollStep,
         Accept, DropClient, ReadIgnored, ReadOverflow, Read, HandlePacket, SendReply, ShiftResidual
<1> QED
  BY <1>1, <1>2 DEF QuietInv, threads, Joined

LEMMA QuietStep == QuietInv /\ [Next]_vars => QuietInv'
<1> SUFFICES ASSUME QuietInv, [Next]_vars PROVE QuietInv'
  OBVIOUS
<1>1. CASE StartEngines
  BY <1>1 DEF QuietInv, MainStates, Joined, StartEngines, gateway, transport, sessions
<1>2. CASE StartResponse
  BY <1>2 DEF QuietInv, MainStates, Joined, StartResponse, gateway, transport, sessions
<1>3. CASE StartGateway
  BY <1>3 DEF QuietInv, MainStates, Joined, StartGateway, sessions
<1>4. CASE Stop
  BY <1>4 DEF QuietInv, MainStates, Joined, Stop, gateway, transport, sessions
<1>5. ASSUME NEW s \in Served, StopEngine(s) PROVE QuietInv'
  BY <1>5 DEF QuietInv, MainStates, Joined, StopEngine, gateway, transport, sessions
<1>6. CASE JoinEngines
  BY <1>6 DEF QuietInv, MainStates, Joined, JoinEngines, gateway, transport, sessions
<1>7. CASE JoinThreads
  BY <1>7 DEF QuietInv, MainStates, Joined, JoinThreads, gateway, transport, sessions
<1>8. CASE StopGateway
  BY <1>8 DEF QuietInv, MainStates, Joined, StopGateway
<1>9. CASE GatewayThread
  BY <1>9, QuietPoll
<1>10. ASSUME NEW s \in Served, EngineThread(s) PROVE QuietInv'
  <2>1. engine[s] # "none" /\ engine' \in [Served -> {"none", "check", "pop", "process"}]
    BY <1>10 DEF QuietInv, EngineThread, EngineCheck, EnginePop, EngineProcess
  <2>2. UNCHANGED <<gateway, main, running, engine_running, responder>>
    BY <1>10 DEF EngineThread, EngineCheck, EnginePop, EngineProcess
  <2> QED
    BY <2>1, <2>2 DEF QuietInv, Joined, gateway, transport, sessions
<1>11. CASE ResponseThread
  <2>1. UNCHANGED <<transport, sessions, poller, main, running, engine_running, engine>>
    BY <1>11 DEF ResponseThread, RespondCheck, RespondPop, RespondSend, gateway
  <2>2. responder # "none"
    BY <1>11 DEF ResponseThread, RespondCheck, RespondPop, RespondSend
  <2> QED
    BY <2>1, <2>2 DEF QuietInv, Joined, transport, sessions
<1>12. CASE Clients
  <2>1. UNCHANGED <<transport, sessions, poller, threads>>
    BY <1>12 DEF Clients, ClientStep, HangUp, Write
  <2> QED
    BY <2>1 DEF QuietInv, Joined, transport, sessions, threads
<1>13. CASE UNCHANGED vars
  BY <1>13 DEF QuietInv, Joined, vars, gateway, transport, sessions, threads
<1> QED
  BY <1>1, <1>2, <1>3, <1>4, <1>5, <1>6, <1>7, <1>8, <1>9, <1>10, <1>11, <1>12, <1>13
     DEF Next, StartSteps, StopSteps

\* Exchange::stop, and a start that fails, leave no thread, no open socket and no
\* session, over any number of starts and stops.
THEOREM StoppedIsQuiet == Spec => []QuietWhenStopped
<1>1. QuietInv => QuietWhenStopped
  BY DEF QuietInv, QuietWhenStopped
<1> QED
  BY <1>1, QuietInit, QuietStep, PTL DEF Spec
-----------------------------------------------------------------------------
IsConnection(r) ==
  /\ r = [conn_id |-> r.conn_id, authenticated |-> r.authenticated, buffer |-> r.buffer]
  /\ r.authenticated \in BOOLEAN

\* SessionsMatchClients becomes inductive with: clients are numbered as they are
\* accepted, no two descriptors have the same client behind them, only clients
\* accepted so far have logged in, and the connection that on_read works on is
\* open and has a session.
SessionInv ==
  /\ connected \in Nat /\ active \in 0 .. MaxConnections
  /\ connections = [i \in 1 .. MaxConnections |-> connections[i]]
  /\ \A i \in 1 .. MaxConnections : IsConnection(connections[i])
  /\ clients = [f \in DOMAIN clients |-> clients[f]]
  /\ \A f \in DOMAIN clients : clients[f] \in 1 .. connected
  /\ \A f, g \in DOMAIN clients : clients[f] = clients[g] => f = g
  /\ logged_in \subseteq 1 .. connected
  /\ poller \in {"frame", "send"} => fd \in DOMAIN clients /\ HasConnection(fd)
  /\ SessionsMatchClients

table == <<clients, connected, connections, active, logged_in>>

\* get_connection finds the one session of a connection that has one.
LEMMA AtIsIndex ==
  ASSUME SessionInv, NEW f, HasConnection(f)
  PROVE  At(f) \in 1 .. active /\ connections[At(f)].conn_id = f
<1>1. PICK i \in 1 .. active : connections[i].conn_id = f
  BY DEF HasConnection, Index
<1>2. \A j \in Index(f) : j = i
  BY <1>1 DEF Index, SessionInv, SessionsMatchClients
<1>3. i \in Index(f) /\ \A j \in Index(f) : i <= j
  BY <1>1, <1>2 DEF Index
<1>4. At(f) \in Index(f)
  BY <1>3 DEF At
<1> QED
  BY <1>4 DEF Index

LEMMA SessionOf ==
  ASSUME SessionInv, NEW f, HasConnection(f)
  PROVE  IsConnection(connections[At(f)]) /\ connections[At(f)].conn_id = f
<1>1. At(f) \in 1 .. active /\ connections[At(f)].conn_id = f
  BY AtIsIndex
<1>2. At(f) \in 1 .. MaxConnections
  BY <1>1, GatewayAssumption DEF SessionInv
<1> QED
  BY <1>1, <1>2 DEF SessionInv

LEMMA SessionInit == Init => SessionInv
<1> SUFFICES ASSUME Init PROVE SessionInv
  OBVIOUS
<1>1. connections = [i \in 1 .. MaxConnections |-> NewConnection(-1)] /\ active = 0
  BY DEF Init, GatewayInit, EmptyTable
<1>2. \A i \in 1 .. MaxConnections : IsConnection(connections[i])
  BY <1>1 DEF NewConnection, IsConnection
<1>3. connected = 0 /\ clients = [f \in {} |-> 0] /\ logged_in = {} /\ poller = "none"
  BY DEF Init, GatewayInit, NoFds
<1>4. SessionsMatchClients
  BY <1>1 DEF SessionsMatchClients
<1> QED
  BY <1>1, <1>2, <1>3, <1>4, GatewayAssumption DEF SessionInv

\* A step that leaves the table alone and starts no on_read.
LEMMA TableUnchanged ==
  ASSUME SessionInv, UNCHANGED table,
         poller' \in {"frame", "send"} => poller \in {"frame", "send"} /\ fd' = fd
  PROVE  SessionInv'
<1>1. SessionsMatchClients'
  BY DEF SessionInv, table, SessionsMatchClients
<1>2. ASSUME poller' \in {"frame", "send"}
      PROVE  fd' \in DOMAIN clients' /\ HasConnection(fd)'
  BY <1>2 DEF SessionInv, table, HasConnection, Index
<1>3. \A i \in 1 .. MaxConnections : IsConnection(connections'[i])
  BY DEF SessionInv, table
<1> QED
  BY <1>1, <1>2, <1>3 DEF SessionInv, table

\* A step that changes the buffer or the login of one session, and logged_in
\* with it.
LEMMA OneSession ==
  ASSUME SessionInv, NEW f \in DOMAIN clients, HasConnection(f),
         UNCHANGED <<clients, connected, active>>,
         NEW r, IsConnection(r), r.conn_id = f,
         connections' = [connections EXCEPT ![At(f)] = r],
         \/ r.authenticated = connections[At(f)].authenticated /\ logged_in' = logged_in
         \/ r.authenticated = TRUE /\ logged_in' = logged_in \cup {clients[f]}
         \/ r.authenticated = FALSE /\ logged_in' = logged_in \ {clients[f]},
         poller' \in {"frame", "send"} => fd' = f
  PROVE  SessionInv'
<1>1. At(f) \in 1 .. active /\ connections[At(f)].conn_id = f
  BY AtIsIndex
<1> DEFINE a == At(f)
<1>2. a \in 1 .. MaxConnections
  BY <1>1, GatewayAssumption DEF SessionInv
<1>3. \A i \in 1 .. MaxConnections : connections'[i] = IF i = a THEN r ELSE connections[i]
  BY <1>2 DEF SessionInv
<1> HIDE DEF a
<1>4. \A i \in 1 .. MaxConnections : connections'[i].conn_id = connections[i].conn_id
  <2>1. connections[a].conn_id = r.conn_id
    BY <1>1 DEF a
  <2> QED
    BY <1>3, <2>1
<1>5. \A i \in 1 .. active : i \in 1 .. MaxConnections
  BY GatewayAssumption DEF SessionInv
<1>6. \A i \in 1 .. active : connections[i].conn_id = f => i = a
  BY <1>1 DEF a, SessionInv, SessionsMatchClients
<1>7. SessionsMatchClients'
  <2>1. ASSUME NEW i \in 1 .. active, NEW j \in 1 .. active,
               connections'[i].conn_id = connections'[j].conn_id
        PROVE  i = j
    BY <1>4, <1>5, <2>1 DEF SessionInv, SessionsMatchClients
  <2>2. ASSUME NEW i \in 1 .. active
        PROVE  /\ connections'[i].conn_id \in DOMAIN clients
               /\ connections'[i].authenticated <=> clients[connections'[i].conn_id] \in logged_in'
    <3>1. connections[i].conn_id \in DOMAIN clients
      BY DEF SessionInv, SessionsMatchClients
    <3>2. connections[i].authenticated <=> clients[connections[i].conn_id] \in logged_in
      BY DEF SessionInv, SessionsMatchClients
    <3>3. CASE i = a
      BY <1>1, <1>2, <1>3, <3>2, <3>3 DEF a
    <3>4. CASE i # a
      <4>1. connections'[i] = connections[i] /\ connections[i].conn_id # f
        BY <1>3, <1>5, <1>6, <3>4
      <4>2. clients[connections[i].conn_id] # clients[f]
        BY <3>1, <4>1 DEF SessionInv
      <4> QED
        BY <3>1, <3>2, <4>1, <4>2
    <3> QED
      BY <3>3, <3>4
  <2> QED
    BY <2>1, <2>2 DEF SessionsMatchClients
<1>8. connections' = [i \in 1 .. MaxConnections |-> connections'[i]]
  BY <1>2 DEF SessionInv
<1>9. \A i \in 1 .. MaxConnections : IsConnection(connections[i])'
  BY <1>3 DEF SessionInv, IsConnection
<1>10. HasConnection(f)'
  BY <1>1, <1>4, <1>5 DEF HasConnection, Index
<1>11. logged_in' \subseteq 1 .. connected
  BY DEF SessionInv
<1> QED
  BY <1>7, <1>8, <1>9, <1>10, <1>11 DEF SessionInv, HasConnection, Index

\* create_connection for a descriptor that was not open.
LEMMA AcceptKeeps ==
  ASSUME SessionInv, NEW f, Accept(f)
  PROVE  SessionInv'
<1>1. /\ poller = "poll" /\ UNCHANGED <<poller, logged_in>> /\ f \notin DOMAIN clients
      /\ connected' = connected + 1
      /\ clients' = [g \in DOMAIN clients \cup {f} |-> IF g = f THEN connected + 1 ELSE clients[g]]
  BY DEF Accept
<1>2. /\ connected' \in Nat /\ \A c \in 1 .. connected : c \in 1 .. connected' /\ c # connected + 1
      /\ connected + 1 \in 1 .. connected'
  BY <1>1 DEF SessionInv
<1>3. DOMAIN clients' = DOMAIN clients \cup {f} /\ clients'[f] = connected + 1
  BY <1>1
<1>4. \A g \in DOMAIN clients : g # f /\ clients'[g] = clients[g]
  BY <1>1
<1>5. clients' = [g \in DOMAIN clients' |-> clients'[g]]
  BY <1>1
<1>6. \A g \in DOMAIN clients' : clients'[g] \in 1 .. connected'
  BY <1>2, <1>3, <1>4 DEF SessionInv
<1>7. \A g, h \in DOMAIN clients' : clients'[g] = clients'[h] => g = h
  BY <1>2, <1>3, <1>4 DEF SessionInv
<1>8. \A i \in 1 .. active :
        /\ connections[i].conn_id \in DOMAIN clients /\ connections[i].conn_id # f
        /\ connections[i].authenticated <=> clients'[connections[i].conn_id] \in logged_in'
  BY <1>1, <1>4 DEF SessionInv, SessionsMatchClients
<1>9. CASE UNCHANGED sessions
  <2>1. SessionsMatchClients'
    <3>1. \A i, j \in 1 .. active' : connections'[i].conn_id = connections'[j].conn_id => i = j
      BY <1>9 DEF sessions, SessionInv, SessionsMatchClients
    <3>2. \A i \in 1 .. active' :
            /\ connections'[i].conn_id \in DOMAIN clients'
            /\ connections'[i].authenticated <=> clients'[connections'[i].conn_id] \in logged_in'
      BY <1>3, <1>8, <1>9 DEF sessions
    <3> QED
      BY <3>1, <3>2 DEF SessionsMatchClients
  <2> QED
    BY <1>1, <1>2, <1>5, <1>6, <1>7, <1>9, <2>1 DEF SessionInv, sessions
<1>10. CASE /\ ~(active >= MaxConnections)
            /\ connections' = [connections EXCEPT ![active + 1] = NewConnection(f)]
            /\ active' = active + 1
  <2>1. /\ active + 1 \in 1 .. MaxConnections /\ active' \in 0 .. MaxConnections
        /\ \A i \in 1 .. active' : i = active + 1 \/ (i \in 1 .. active /\ i # active + 1)
        /\ \A i \in 1 .. active : i \in 1 .. MaxConnections /\ i # active + 1
    BY <1>10, GatewayAssumption DEF SessionInv
  <2> DEFINE top == active + 1
  <2>2. \A i \in 1 .. MaxConnections :
          connections'[i] = IF i = top THEN NewConnection(f) ELSE connections[i]
    BY <1>10 DEF SessionInv
  <2>3. connections' = [i \in 1 .. MaxConnections |-> connections'[i]]
    BY <1>10, <2>1 DEF SessionInv
  <2>4. IsConnection(NewConnection(f))
    BY DEF IsConnection, NewConnection
  <2>5. \A i \in 1 .. MaxConnections : IsConnection(connections'[i])
    BY <2>2, <2>4 DEF SessionInv
  <2>6. NewConnection(f).conn_id = f /\ NewConnection(f).authenticated = FALSE
    BY DEF NewConnection
  <2>7. connections'[top].conn_id = f /\ connections'[top].authenticated = FALSE
    BY <2>1, <2>2, <2>6
  <2>8. \A i \in 1 .. active : connections'[i] = connections[i]
    BY <2>1, <2>2
  <2>9. clients'[f] \notin logged_in'
    BY <1>1, <1>2, <1>3 DEF SessionInv
  <2> HIDE DEF top
  <2>10. \A i \in 1 .. active' : i = top \/ i \in 1 .. active
    BY <2>1 DEF top
  <2>11. \A i \in 1 .. active :
           /\ connections'[i].conn_id # f /\ connections'[i].conn_id \in DOMAIN clients'
           /\ connections'[i].authenticated <=> clients'[connections'[i].conn_id] \in logged_in'
    BY <1>3, <1>8, <2>8
  <2>12. SessionsMatchClients'
    <3>1. ASSUME NEW i \in 1 .. active', NEW j \in 1 .. active',
                 connections'[i].conn_id = connections'[j].conn_id
          PROVE  i = j
      <4>1. CASE i = top
        BY <2>7, <2>10, <2>11, <3>1, <4>1
      <4>2. CASE j = top
        BY <2>7, <2>10, <2>11, <3>1, <4>2
      <4>3. CASE i \in 1 .. active /\ j \in 1 .. active
        BY <2>8, <3>1, <4>3 DEF SessionInv, SessionsMatchClients
      <4> QED
        BY <2>10, <4>1, <4>2, <4>3
    <3>2. ASSUME NEW i \in 1 .. active'
          PROVE  /\ connections'[i].conn_id \in DOMAIN clients'
                 /\ connections'[i].authenticated <=> clients'[connections'[i].conn_id] \in logged_in'
      <4>1. CASE i = top
        BY <1>3, <2>7, <2>9, <4>1
      <4>2. CASE i \in 1 .. active
        BY <2>11, <4>2
      <4> QED
        BY <2>10, <4>1, <4>2
    <3> QED
      BY <3>1, <3>2 DEF SessionsMatchClients
  <2> QED
    BY <1>1, <1>2, <1>5, <1>6, <1>7, <2>1, <2>3, <2>5, <2>12 DEF SessionInv
<1> QED
  BY <1>9, <1>10 DEF Accept, CreateConnection

\* remove_connection moves the last session to the place that is freed.
LEMMA DropKeeps ==
  ASSUME SessionInv, NEW f \in DOMAIN clients, Drop(f), poller = "poll"
  PROVE  SessionInv'
<1>1. /\ poller' = "poll" /\ connected' = connected
      /\ clients' = [g \in DOMAIN clients \ {f} |-> clients[g]]
      /\ logged_in' = logged_in \ {clients[f]}
  BY DEF Drop, Without
<1>2. /\ DOMAIN clients' = DOMAIN clients \ {f}
      /\ \A g \in DOMAIN clients' : clients'[g] = clients[g] /\ g \in DOMAIN clients /\ g # f
  BY <1>1
<1>3. clients' = [g \in DOMAIN clients' |-> clients'[g]]
  BY <1>1
<1>4. /\ \A g \in DOMAIN clients' : clients'[g] \in 1 .. connected
      /\ \A g, h \in DOMAIN clients' : clients'[g] = clients'[h] => g = h
      /\ logged_in' \subseteq 1 .. connected
  BY <1>1, <1>2 DEF SessionInv
<1>5. \A i \in 1 .. active :
        connections[i].conn_id # f =>
          /\ connections[i].conn_id \in DOMAIN clients'
          /\ connections[i].authenticated <=> clients'[connections[i].conn_id] \in logged_in'
  <2> SUFFICES ASSUME NEW i \in 1 .. active, connections[i].conn_id # f
               PROVE  /\ connections[i].conn_id \in DOMAIN clients'
                      /\ connections[i].authenticated
                           <=> clients'[connections[i].conn_id] \in logged_in'
    OBVIOUS
  <2>1. /\ connections[i].conn_id \in DOMAIN clients
        /\ connections[i].authenticated <=> clients[connections[i].conn_id] \in logged_in
    BY DEF SessionInv, SessionsMatchClients
  <2>2. clients[connections[i].conn_id] # clients[f]
    BY <2>1 DEF SessionInv
  <2> QED
    BY <1>1, <1>2, <2>1, <2>2
<1>6. CASE ~HasConnection(f)
  <2>1. UNCHANGED sessions
    BY <1>6 DEF Drop, RemoveConnection
  <2>2. \A i \in 1 .. active : connections[i].conn_id # f
    BY <1>6 DEF HasConnection, Index
  <2>3. SessionsMatchClients'
    <3>1. \A i, j \in 1 .. active' : connections'[i].conn_id = connections'[j].conn_id => i = j
      BY <2>1 DEF sessions, SessionInv, SessionsMatchClients
    <3>2. \A i \in 1 .. active' :
            /\ connections'[i].conn_id \in DOMAIN clients'
            /\ connections'[i].authenticated <=> clients'[connections'[i].conn_id] \in logged_in'
      BY <1>5, <2>1, <2>2 DEF sessions
    <3> QED
      BY <3>1, <3>2 DEF SessionsMatchClients
  <2> QED
    BY <1>1, <1>3, <1>4, <2>1, <2>3 DEF SessionInv, sessions
<1>7. CASE HasConnection(f)
  <2> DEFINE a == At(f)
  <2>1. a \in 1 .. active /\ connections[a].conn_id = f
    BY <1>7, AtIsIndex
  <2> HIDE DEF a
  <2>2. connections' = [connections EXCEPT ![a] = connections[active]] /\ active' = active - 1
    BY <1>7 DEF Drop, RemoveConnection, a
  <2>3. /\ active' \in 0 .. MaxConnections /\ active \in 1 .. active
        /\ \A i \in 1 .. active : i \in 1 .. MaxConnections
        /\ \A i \in 1 .. active' : i \in 1 .. active /\ i # active
    BY <2>1, <2>2, GatewayAssumption DEF SessionInv
  <2>4. \A i \in 1 .. MaxConnections :
          connections'[i] = IF i = a THEN connections[active] ELSE connections[i]
    BY <2>2 DEF SessionInv
  <2>5. connections' = [i \in 1 .. MaxConnections |-> connections'[i]]
    BY <2>1, <2>2, <2>3 DEF SessionInv
  <2>6. \A i \in 1 .. MaxConnections : IsConnection(connections'[i])
    BY <2>3, <2>4 DEF SessionInv
  <2> DEFINE from(i) == IF i = a THEN active ELSE i
  <2>7. \A i \in 1 .. active' : /\ from(i) \in 1 .. active /\ from(i) # a
                                /\ connections'[i] = connections[from(i)]
    BY <2>3, <2>4
  <2>8. \A i, j \in 1 .. active' : from(i) = from(j) => i = j
    BY <2>3
  <2> HIDE DEF from
  <2>9. \A i \in 1 .. active : i # a => connections[i].conn_id # f
    BY <2>1 DEF SessionInv, SessionsMatchClients
  <2>10. SessionsMatchClients'
    <3>1. \A i, j \in 1 .. active' : connections'[i].conn_id = connections'[j].conn_id => i = j
      <4>1. \A k, l \in 1 .. active : connections[k].conn_id = connections[l].conn_id => k = l
        BY DEF SessionInv, SessionsMatchClients
      <4> SUFFICES ASSUME NEW i \in 1 .. active', NEW j \in 1 .. active',
                          connections'[i].conn_id = connections'[j].conn_id
                   PROVE  i = j
        OBVIOUS
      <4>2. from(i) = from(j)
        BY <2>7, <4>1
      <4> QED
        BY <2>8, <4>2
    <3>2. \A i \in 1 .. active' :
            /\ connections'[i].conn_id \in DOMAIN clients'
            /\ connections'[i].authenticated <=> clients'[connections'[i].conn_id] \in logged_in'
      <4> TAKE i \in 1 .. active'
      <4>1. PICK k \in 1 .. active : k # a /\ connections'[i] = connections[k]
        BY <2>7
      <4>2. connections[k].conn_id # f
        BY <2>9, <4>1
      <4> QED
        BY <1>5, <4>1, <4>2
    <3> QED
      BY <3>1, <3>2 DEF SessionsMatchClients
  <2> QED
    BY <1>1, <1>3, <1>4, <2>3, <2>5, <2>6, <2>10 DEF SessionInv
<1> QED
  BY <1>6, <1>7

\* Gateway::stop empties the table while no thread reads.
LEMMA StopKeeps ==
  ASSUME QuietInv, SessionInv, StopGateway
  PROVE  SessionInv'
<1>1. connections' = [i \in 1 .. MaxConnections |-> NewConnection(-1)] /\ active' = 0
  BY DEF StopGateway, EmptyTable
<1>2. \A i \in 1 .. MaxConnections : IsConnection(connections'[i])
  BY <1>1 DEF NewConnection, IsConnection
<1>3. connected' = connected /\ clients' = [f \in {} |-> 0] /\ logged_in' = {} /\ poller' = "none"
  BY DEF StopGateway, NoFds, QuietInv
<1>4. SessionsMatchClients'
  BY <1>1 DEF SessionsMatchClients
<1> QED
  BY <1>1, <1>2, <1>3, <1>4, GatewayAssumption DEF SessionInv

\* A connection with a new buffer, and one with a new login.
LEMMA NewBuffer ==
  ASSUME NEW r, IsConnection(r), NEW b
  PROVE  LET q == [r EXCEPT !.buffer = b]
         IN  IsConnection(q) /\ q.conn_id = r.conn_id /\ q.authenticated = r.authenticated
  BY DEF IsConnection

LEMMA NewLogin ==
  ASSUME NEW r, IsConnection(r), NEW b \in BOOLEAN
  PROVE  LET q == [r EXCEPT !.authenticated = b]
         IN  IsConnection(q) /\ q.conn_id = r.conn_id /\ q.authenticated = b
  BY DEF IsConnection

LEMMA SessionStep == QuietInv /\ SessionInv /\ [Next]_vars => SessionInv'
<1> SUFFICES ASSUME QuietInv, SessionInv, [Next]_vars PROVE SessionInv'
  OBVIOUS
<1>1. ASSUME NEW f \in Fds, Accept(f) PROVE SessionInv'
  BY <1>1, AcceptKeeps
<1>2. ASSUME NEW f \in Fds, DropClient(f) \/ ReadOverflow(f) PROVE SessionInv'
  BY <1>2, DropKeeps DEF DropClient, ReadOverflow
<1>3. ASSUME NEW f \in Fds, NEW n \in limit.reads, Read(f, n) PROVE SessionInv'
  <2> DEFINE b == connections[At(f)].buffer \o SubSeq(wire[clients[f]], 1, n)
             r == [connections[At(f)] EXCEPT !.buffer = b]
  <2>1. /\ f \in DOMAIN clients /\ HasConnection(f)
        /\ UNCHANGED <<clients, connected, active, logged_in>> /\ fd' = f
        /\ connections' = [connections EXCEPT ![At(f)].buffer = @ \o SubSeq(wire[clients[f]], 1, n)]
    BY <1>3 DEF Read, transport
  <2>2. IsConnection(connections[At(f)]) /\ connections[At(f)].conn_id = f
    BY <2>1, SessionOf
  <2>3. connections' = [connections EXCEPT ![At(f)] = r]
    BY <2>1
  <2> HIDE DEF b
  <2>4. IsConnection(r) /\ r.conn_id = f /\ r.authenticated = connections[At(f)].authenticated
    BY <2>2, NewBuffer
  <2> HIDE DEF r
  <2> QED
    BY <2>1, <2>3, <2>4, OneSession
<1>4. ASSUME NEW p \in Packets, HandleLogin(p), p.kind # "BadLogin" PROVE SessionInv'
  <2> DEFINE r == [connections[At(fd)] EXCEPT !.authenticated = TRUE]
  <2>0. fd \in DOMAIN clients /\ HasConnection(fd)
    BY <1>4 DEF HandleLogin, FrameReady, SessionInv
  <2>1. /\ UNCHANGED <<clients, connected, active>> /\ fd' = fd
        /\ logged_in' = logged_in \cup {clients[fd]}
        /\ connections' = [connections EXCEPT ![At(fd)].authenticated = TRUE]
    BY <1>4 DEF HandleLogin, transport, Client
  <2>2. IsConnection(connections[At(fd)]) /\ connections[At(fd)].conn_id = fd
    BY <2>0, SessionOf
  <2>3. connections' = [connections EXCEPT ![At(fd)] = r]
    BY <2>1
  <2>4. IsConnection(r) /\ r.conn_id = fd /\ r.authenticated = TRUE
    BY <2>2, NewLogin
  <2> HIDE DEF r
  <2> QED
    BY <2>0, <2>1, <2>3, <2>4, OneSession
<1>5. ASSUME NEW p \in Packets, HandleLogout(p) PROVE SessionInv'
  <2> DEFINE r == [connections[At(fd)] EXCEPT !.authenticated = FALSE]
  <2>0. fd \in DOMAIN clients /\ HasConnection(fd)
    BY <1>5 DEF HandleLogout, FrameReady, SessionInv
  <2>1. /\ UNCHANGED <<clients, connected, active>> /\ fd' = fd
        /\ logged_in' = logged_in \ {clients[fd]}
        /\ connections' = [connections EXCEPT ![At(fd)].authenticated = FALSE]
    BY <1>5 DEF HandleLogout, transport, Client
  <2>2. IsConnection(connections[At(fd)]) /\ connections[At(fd)].conn_id = fd
    BY <2>0, SessionOf
  <2>3. connections' = [connections EXCEPT ![At(fd)] = r]
    BY <2>1
  <2>4. IsConnection(r) /\ r.conn_id = fd /\ r.authenticated = FALSE
    BY <2>2, NewLogin
  <2> HIDE DEF r
  <2> QED
    BY <2>0, <2>1, <2>3, <2>4, OneSession
<1>6. CASE ShiftResidual
  <2> DEFINE b == Residual(connections[At(fd)].buffer)
             r == [connections[At(fd)] EXCEPT !.buffer = b]
  <2>1. /\ fd \in DOMAIN clients /\ HasConnection(fd) /\ poller' = "poll"
        /\ UNCHANGED <<clients, connected, active, logged_in>>
        /\ connections' = [connections EXCEPT ![At(fd)].buffer = Residual(@)]
    BY <1>6 DEF ShiftResidual, SessionInv, transport
  <2>2. IsConnection(connections[At(fd)]) /\ connections[At(fd)].conn_id = fd
    BY <2>1, SessionOf
  <2>3. connections' = [connections EXCEPT ![At(fd)] = r]
    BY <2>1
  <2> HIDE DEF b
  <2>4. IsConnection(r) /\ r.conn_id = fd /\ r.authenticated = connections[At(fd)].authenticated
    BY <2>2, NewBuffer
  <2> HIDE DEF r
  <2> QED
    BY <2>1, <2>3, <2>4, OneSession
<1>7. CASE StopGateway
  BY <1>7, StopKeeps
<1>8. ASSUME NEW p \in Packets, HandleLogin(p), p.kind = "BadLogin" PROVE SessionInv'
  BY <1>8, TableUnchanged DEF HandleLogin, FrameReady, table, transport
<1>9. ASSUME NEW p \in Packets, HandleOther(p) \/ HandleIgnored(p) \/ HandleOrder(p)
      PROVE  SessionInv'
  BY <1>9, TableUnchanged DEF HandleOther, HandleIgnored, HandleOrder, FrameReady, table, transport, sessions
<1>10. ASSUME NEW f \in Fds, ReadIgnored(f) PROVE SessionInv'
  BY <1>10, TableUnchanged DEF ReadIgnored, table, transport, sessions
<1>11. CASE GatewayCheck \/ GatewayPolled \/ Dispatch \/ Dispatched
  BY <1>11, TableUnchanged DEF GatewayCheck, GatewayPolled, Dispatch, Dispatched, GatewayMoves,
                               table, transport, sessions
<1>12. CASE Clients
  BY <1>12, TableUnchanged DEF Clients, ClientStep, HangUp, Write, table, transport, sessions
<1>13. CASE \/ StartEngines \/ StartResponse \/ Stop \/ JoinEngines \/ JoinThreads \/ SendReply
           \/ UNCHANGED vars
  BY <1>13, TableUnchanged DEF StartEngines, StartResponse, Stop, JoinEngines, JoinThreads,
                               SendReply, vars, gateway, table, transport, sessions
<1>14. CASE StartGateway
  BY <1>14, TableUnchanged DEF StartGateway, table, sessions
<1>15. ASSUME NEW s \in Served, StopEngine(s) \/ EngineThread(s) PROVE SessionInv'
  BY <1>15, TableUnchanged DEF StopEngine, EngineThread, EngineCheck, EnginePop, EngineProcess,
                               gateway, table, transport, sessions
<1>16. CASE ResponseThread
  BY <1>16, TableUnchanged DEF ResponseThread, RespondCheck, RespondPop, RespondSend,
                               gateway, table, transport, sessions
<1> QED
  BY <1>1, <1>2, <1>3, <1>4, <1>5, <1>6, <1>7, <1>8, <1>9, <1>10, <1>11, <1>12, <1>13, <1>14,
     <1>15, <1>16 DEF Next, StartSteps, StopSteps, GatewayThread, PollStep, HandlePacket

\* A session of the SessionManager belongs to one open connection and is logged
\* in exactly when the client behind that connection is: slots and descriptors
\* that are used again hand nothing on, for any number of connections.
THEOREM SessionsAreTheClients == Spec => []SessionsMatchClients
<1>1. SessionInv => SessionsMatchClients
  BY DEF SessionInv
<1> QED
  BY <1>1, QuietInit, QuietStep, SessionInit, SessionStep, PTL DEF Spec

LEMMA OrderStep ==
  QuietInv /\ SessionInv /\ [Next]_vars => [sequence' # sequence => Client \in logged_in]_gateway
<1> SUFFICES ASSUME SessionInv, [Next]_vars, sequence' # sequence PROVE Client \in logged_in
  OBVIOUS
<1>1. \E p \in Packets : HandleOrder(p)
  <2>1. ~ UNCHANGED gateway
    BY DEF gateway
  <2>2. ASSUME NEW f \in Fds PROVE ~Accept(f) /\ ~Drop(f) /\ ~ReadIgnored(f)
    BY DEF Accept, Drop, ReadIgnored
  <2>3. ASSUME NEW f \in Fds, NEW n PROVE ~Read(f, n)
    BY DEF Read
  <2>4. /\ \A p \in Packets :
             ~HandleLogin(p) /\ ~HandleOther(p) /\ ~HandleLogout(p) /\ ~HandleIgnored(p)
        /\ ~SendReply /\ ~ShiftResidual
    BY DEF HandleLogin, HandleOther, HandleLogout, HandleIgnored, SendReply, ShiftResidual
  <2>5. ~GatewayCheck /\ ~GatewayPolled /\ ~Dispatch /\ ~Dispatched
    BY DEF GatewayCheck, GatewayPolled, Dispatch, Dispatched, GatewayMoves
  <2>6. ~Clients /\ ~ResponseThread
    BY <2>1 DEF Clients, ClientStep, HangUp, Write, ResponseThread, RespondCheck, RespondPop, RespondSend
  <2>7. ~StartEngines /\ ~StartSteps /\ ~Stop /\ ~JoinEngines /\ ~JoinThreads /\ ~StopGateway
    BY <2>1 DEF StartEngines, StartSteps, StartResponse, StartGateway, Stop, JoinEngines,
                JoinThreads, StopGateway
  <2>8. ASSUME NEW s \in Served PROVE ~StopEngine(s) /\ ~EngineThread(s)
    BY <2>1 DEF StopEngine, EngineThread, EngineCheck, EnginePop, EngineProcess
  <2> QED
    BY <2>1, <2>2, <2>3, <2>4, <2>5, <2>6, <2>7, <2>8
       DEF Next, StopSteps, GatewayThread, PollStep, HandlePacket, DropClient, ReadOverflow, vars
<1>2. HasConnection(fd) /\ connections[At(fd)].authenticated
  BY <1>1 DEF HandleOrder, FrameReady, Authenticated, Connection, SessionInv
<1>3. At(fd) \in 1 .. active /\ connections[At(fd)].conn_id = fd
  BY <1>2, AtIsIndex
<1> QED
  BY <1>2, <1>3 DEF SessionInv, SessionsMatchClients, Client

\* handle_packet gives a sequence number only to an order of a client whose last
\* login or logout was a login, whatever happened to its slot or descriptor before.
THEOREM OnlyLoggedInOrder == Spec => OrdersNeedLogin
  BY QuietInit, QuietStep, SessionInit, SessionStep, OrderStep, PTL DEF Spec, OrdersNeedLogin
=============================================================================

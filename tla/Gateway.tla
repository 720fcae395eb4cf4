------------------------------ MODULE Gateway -------------------------------
(***************************************************************************)
(* gateway: the TCP transport, the session table, the framing of packets   *)
(* and the handling of each packet, up to the command it pushes on         *)
(* inbound_queue_.  All of it runs on the gateway thread; send_packet also *)
(* runs on the response thread, on the same write_buffer_.                 *)
(*                                                                         *)
(* A client is a number, the order in which clients were accepted; a       *)
(* connection id is a file descriptor, which the system gives out again    *)
(* once it is closed.  A packet is as long as its header, two units, since *)
(* a body is framed like the rest of its header; a unit is the number of   *)
(* its packet and a place in it, so that a read may cut a packet anywhere. *)
(* The length that a header states is chosen apart: nothing checks it.     *)
(***************************************************************************)
EXTENDS FiniteSets, SequenceOps

CONSTANTS
  Fds,             \* file descriptors of connections
  MaxConnections,  \* MAX_CONNECTIONS
  BufferSize,      \* BUFFER_SIZE, in units
  InboundCap,      \* capacity of inbound_queue_
  Limits           \* bounds of the model, one chosen per behaviour: the numbers of
                   \* clients, packets, hang-ups, starts and stops, the kinds,
                   \* symbols and stated lengths of packets, the units that one
                   \* recv may return, and the times an order of length 0 is taken

ASSUME GatewayAssumption ==
  /\ MaxConnections \in Nat \ {0} /\ BufferSize \in Nat \ {0}
  /\ InboundCap \in Nat \ {0}

ASSUME LimitsAssumption == \A l \in Limits : l.symbols \subseteq Nat /\ l.lengths \subseteq Nat

VARIABLES
  limit,                  \* the member of Limits chosen
  listening,              \* server_fd_ is open
  clients,                \* clients_: open descriptor -> the client behind it
  connections, active,    \* connections_ and active_count_
  sequence,               \* seq_ of the SequenceManager
  inbound,                \* inbound_queue_
  poller,                 \* where the gateway thread is
  fd, processed,          \* locals of on_read
  header,                 \* <<the packet decoded last>> if it has length 0, <<>> otherwise
  wire, hung,             \* client -> units not yet received; clients that hung up
  connected, writes, hangups,  \* clients accepted, packets written, hang-ups so far
  written, handled,       \* history: client -> packets written, numbers of packets handled
  logged_in,              \* history: clients whose last login or logout was a login
  arrived                 \* history: the commands that inbound_queue_ took

network == <<wire, hung, writes, hangups, written>>
sessions == <<connections, active>>
transport == <<listening, clients, connected>>
gateway == <<limit, transport, sessions, sequence, inbound, poller, fd, processed, header,
             network, handled, logged_in, arrived>>

ClientIds == 1 .. connected
NoFds == [f \in {} |-> 0]
Without(f, x) == [y \in DOMAIN f \ {x} |-> f[y]]

OrderKinds == {"NewOrder", "CancelOrder", "ReplaceOrder"}
Packets ==
  {p \in [kind : limit.kinds, symbol : limit.symbols \cup {0}, length : limit.lengths] :
     IF p.kind \in OrderKinds THEN p.symbol \in limit.symbols ELSE p.symbol = 0}

HeaderSize == 2
Units(n) == <<[packet |-> n, at |-> 1], [packet |-> n, at |-> 2]>>
Honest(packet) == packet.length = HeaderSize

NewConnection(f) == [conn_id |-> f, authenticated |-> FALSE, buffer |-> <<>>]
EmptyTable == [i \in 1 .. MaxConnections |-> NewConnection(-1)]

GatewayInit ==
  /\ limit \in Limits
  /\ listening = FALSE /\ clients = NoFds
  /\ connections = EmptyTable /\ active = 0
  /\ sequence = 1 /\ inbound = <<>>
  /\ poller = "none" /\ fd = -1 /\ processed = 0
  /\ header = <<>>
  /\ wire = <<>> /\ hung = {} /\ connected = 0 /\ writes = 0 /\ hangups = 0
  /\ written = <<>> /\ handled = <<>> /\ logged_in = {} /\ arrived = <<>>
-----------------------------------------------------------------------------
(* SessionManager *)

Index(f) == {i \in 1 .. active : connections[i].conn_id = f}
HasConnection(f) == Index(f) # {}
At(f) == CHOOSE i \in Index(f) : \A j \in Index(f) : i <= j

\* Mutant: the slot keeps what the connection before it left there.
CreateWithoutReset(f) ==
  IF active >= MaxConnections \/ HasConnection(f) THEN UNCHANGED sessions
  ELSE /\ connections' = [connections EXCEPT ![active + 1].conn_id = f]
       /\ active' = active + 1
CreateConnection(f) ==
  IF active >= MaxConnections \/ HasConnection(f) THEN UNCHANGED sessions
  ELSE /\ connections' = [connections EXCEPT ![active + 1] = NewConnection(f)]
       /\ active' = active + 1

\* Mutant: the last connection is not moved to the place that is freed.
RemoveWithoutMove(f) ==
  IF HasConnection(f) THEN active' = active - 1 /\ UNCHANGED connections ELSE UNCHANGED sessions
RemoveConnection(f) ==
  IF HasConnection(f)
  THEN /\ connections' = [connections EXCEPT ![At(f)] = connections[active]]
       /\ active' = active - 1
  ELSE UNCHANGED sessions
-----------------------------------------------------------------------------
(* TcpTransport.  poll accepts at most one client, reads every client once  *)
(* and then drops those that hung up; each of these is a step here, in any  *)
(* order.                                                                   *)

\* accept returns the lowest descriptor that is free.
Accept(f) ==
  /\ poller = "poll" /\ listening
  /\ connected < limit.clients
  /\ f \notin DOMAIN clients /\ \A g \in Fds : g < f => g \in DOMAIN clients
  /\ connected' = connected + 1
  /\ clients' = [g \in DOMAIN clients \cup {f} |-> IF g = f THEN connected + 1 ELSE clients[g]]
  /\ wire' = Append(wire, <<>>) /\ written' = Append(written, <<>>)
  /\ handled' = Append(handled, <<>>)
  /\ CreateConnection(f)
  /\ UNCHANGED <<limit, listening, sequence, inbound, poller, fd, processed, header, hung, writes,
                 hangups, logged_in, arrived>>

\* The descriptor is closed and the session removed; what its client had written
\* and not been read is gone.
Drop(f) ==
  /\ clients' = Without(clients, f)
  /\ RemoveConnection(f)
  /\ wire' = [wire EXCEPT ![clients[f]] = <<>>]
  /\ written' = [written EXCEPT ![clients[f]] = <<>>]
  /\ handled' = [handled EXCEPT ![clients[f]] = <<>>]
  /\ logged_in' = logged_in \ {clients[f]}
  /\ hung' = hung \ {clients[f]}
  /\ UNCHANGED <<limit, listening, connected, sequence, inbound, fd, processed, header, writes,
                 hangups, arrived, poller>>

\* recv returns 0 or an error.
DropClient(f) ==
  /\ poller = "poll" /\ f \in DOMAIN clients /\ clients[f] \in hung
  /\ Drop(f)

\* recv returns n units, and on_read takes them: they are ignored without a
\* session, overflow the buffer, or are appended to it.
Overflows(f, n) == Len(connections[At(f)].buffer) + n > BufferSize

ReadIgnored(f) ==
  /\ poller = "poll" /\ f \in DOMAIN clients /\ ~HasConnection(f)
  /\ wire[clients[f]] # <<>>
  /\ wire' = [wire EXCEPT ![clients[f]] = <<>>]
  /\ UNCHANGED <<limit, transport, sessions, sequence, inbound, poller, fd, processed, header,
                 hung, writes, hangups, written, handled, logged_in, arrived>>

ReadOverflow(f) ==
  /\ poller = "poll" /\ f \in DOMAIN clients /\ HasConnection(f)
  /\ \E n \in limit.reads : n <= Len(wire[clients[f]]) /\ Overflows(f, n)
  /\ Drop(f)

Read(f, n) ==
  /\ poller = "poll" /\ f \in DOMAIN clients /\ HasConnection(f)
  /\ n <= Len(wire[clients[f]]) /\ ~Overflows(f, n)
  /\ connections' = [connections EXCEPT ![At(f)].buffer = @ \o SubSeq(wire[clients[f]], 1, n)]
  /\ wire' = [wire EXCEPT ![clients[f]] = SubSeq(@, n + 1, Len(@))]
  /\ poller' = "frame" /\ fd' = f /\ processed' = 0
  /\ UNCHANGED <<limit, transport, active, sequence, inbound, header, hung, writes, hangups,
                 written, handled, logged_in, arrived>>
-----------------------------------------------------------------------------
(* The frame parser loop of on_read, and handle_packet *)

Connection == connections[At(fd)]
Client == clients[fd]
Available == Len(Connection.buffer) - processed
Unit == Connection.buffer[processed + 1]

\* The packets that the bytes at processed may be read as.  At the start of a
\* packet they are that packet; but when the header understates the length, its
\* body need not have come.  Elsewhere any bytes are read as a header.  The same
\* bytes read again give the same packet.
SameType(k) == IF k \in {"Login", "BadLogin"} THEN {"Login", "BadLogin"} ELSE {k}
Decodable ==
  LET packet == written[Client][Unit.packet]
  IN  IF header # <<>> THEN {header[1]}
      ELSE {p \in Packets :
              Unit.at = 1 =>
                \/ p = packet
                \/ /\ packet.length < HeaderSize /\ p.length = packet.length
                   /\ p.kind \in SameType(packet.kind)}

\* PacketDecoder::decode finds packet p.
FrameReady(p) ==
  /\ poller = "frame" /\ Available >= HeaderSize
  /\ p \in Decodable /\ Available >= p.length

\* The packet is passed over by the length its header states, whatever it is.
Consume(p) ==
  /\ processed' = processed + p.length
  /\ header' = IF p.length = 0 THEN <<p>> ELSE <<>>
  /\ handled' = IF Honest(p) THEN [handled EXCEPT ![Client] = Append(@, Unit.packet)] ELSE handled

\* A login with an empty user name or password is refused.
HandleLogin(p) ==
  /\ FrameReady(p) /\ p.kind \in {"Login", "BadLogin"}
  /\ Consume(p)
  /\ connections' = IF p.kind = "BadLogin" THEN connections
                    ELSE [connections EXCEPT ![At(fd)].authenticated = TRUE]
  /\ logged_in' = IF p.kind = "BadLogin" THEN logged_in ELSE logged_in \cup {Client}
  /\ poller' = "send"
  /\ UNCHANGED <<limit, transport, active, sequence, inbound, fd, network, arrived>>

Authenticated == Connection.authenticated

\* A packet before the login is answered by a reject, and a heartbeat by a
\* heartbeat.
HandleOther(p) ==
  /\ FrameReady(p)
  /\ \/ p.kind \notin {"Login", "BadLogin"} /\ ~Authenticated
     \/ p.kind = "Heartbeat" /\ Authenticated
  /\ Consume(p)
  /\ poller' = "send"
  /\ UNCHANGED <<limit, transport, sessions, sequence, inbound, fd, network, logged_in, arrived>>

HandleLogout(p) ==
  /\ FrameReady(p) /\ p.kind = "Logout" /\ Authenticated
  /\ Consume(p)
  /\ connections' = [connections EXCEPT ![At(fd)].authenticated = FALSE]
  /\ logged_in' = logged_in \ {Client}
  /\ UNCHANGED <<limit, transport, active, sequence, inbound, poller, fd, network, arrived>>

\* A packet of a type that is none of the client's requests is passed over.
HandleIgnored(p) ==
  /\ FrameReady(p) /\ p.kind = "Unexpected" /\ Authenticated
  /\ Consume(p)
  /\ UNCHANGED <<limit, transport, sessions, sequence, inbound, poller, fd, network, logged_in,
                 arrived>>

\* NewOrder, CancelOrder and ReplaceOrder: what push returns is ignored.
Command(p) ==
  [sequence |-> sequence, type |-> p.kind, symbol |-> p.symbol, conn_id |-> fd]

HandleOrder(p) ==
  /\ FrameReady(p) /\ p.kind \in OrderKinds /\ Authenticated
  /\ p.length = 0 => sequence <= limit.repeats
  /\ Consume(p)
  /\ sequence' = sequence + 1
  /\ IF Len(inbound) < InboundCap
     THEN inbound' = Append(inbound, Command(p)) /\ arrived' = Append(arrived, Command(p))
     ELSE UNCHANGED <<inbound, arrived>>
  /\ UNCHANGED <<limit, transport, sessions, poller, fd, network, logged_in>>

SendReply ==
  /\ poller = "send"
  /\ poller' = "frame"
  /\ UNCHANGED <<limit, transport, sessions, sequence, inbound, fd, processed, header, network,
                 handled, logged_in, arrived>>

\* The end of on_read: the rest of the buffer moves to its front.
\* Mutant: only a buffer that was used up is cleared.
ResidualUnmoved(buffer) == IF processed < Len(buffer) THEN buffer ELSE <<>>
Residual(buffer) == SubSeq(buffer, processed + 1, Len(buffer))

ShiftResidual ==
  /\ poller = "frame"
  /\ ~(Available >= HeaderSize /\ \A p \in Decodable : Available >= p.length)
  /\ connections' = [connections EXCEPT ![At(fd)].buffer = Residual(@)]
  /\ poller' = "poll" /\ fd' = -1 /\ processed' = 0
  /\ UNCHANGED <<limit, transport, active, sequence, inbound, header, network, handled, logged_in,
                 arrived>>
-----------------------------------------------------------------------------
(* The clients *)

Write(f, packet) ==
  /\ f \in DOMAIN clients /\ clients[f] \notin hung /\ writes < limit.packets
  /\ writes' = writes + 1
  /\ LET c == clients[f]
     IN  /\ written' = [written EXCEPT ![c] = Append(@, packet)]
         /\ wire' = [wire EXCEPT ![c] = @ \o Units(Len(written[c]) + 1)]
  /\ UNCHANGED <<limit, transport, sessions, sequence, inbound, poller, fd, processed, header,
                 hung, hangups, handled, logged_in, arrived>>

HangUp(f) ==
  /\ f \in DOMAIN clients /\ clients[f] \notin hung
  /\ hangups < limit.hangups /\ hangups' = hangups + 1
  /\ hung' = hung \cup {clients[f]}
  /\ UNCHANGED <<limit, transport, sessions, sequence, inbound, poller, fd, processed, header,
                 wire, writes, written, handled, logged_in, arrived>>

ClientStep == \E f \in Fds : HangUp(f) \/ \E p \in Packets : Write(f, p)

HandlePacket ==
  /\ poller = "frame"
  /\ \E p \in Packets : HandleLogin(p) \/ HandleOther(p) \/ HandleLogout(p) \/ HandleIgnored(p)
                       \/ HandleOrder(p)

PollStep ==
  \/ \E f \in Fds : Accept(f) \/ DropClient(f) \/ ReadIgnored(f) \/ ReadOverflow(f)
                    \/ \E n \in limit.reads : Read(f, n)
  \/ HandlePacket \/ SendReply \/ ShiftResidual
-----------------------------------------------------------------------------
\* Each session belongs to one open connection, and it is logged in exactly when
\* the last login or logout of the client now behind that connection was a
\* login: nothing is inherited from a connection that had the slot or the
\* descriptor before, and removing a connection disturbs no other.
SessionsMatchClients ==
  /\ \A i, j \in 1 .. active : connections[i].conn_id = connections[j].conn_id => i = j
  /\ \A i \in 1 .. active :
       LET f == connections[i].conn_id
       IN  /\ f \in DOMAIN clients
           /\ connections[i].authenticated <=> clients[f] \in logged_in

\* However reads cut the stream, and whatever lengths the headers of other
\* clients state, every packet of a client whose headers state their true length
\* is handled once and in order: the packets handled, what is left of the buffer
\* and what is still to be received make up what the client wrote.
Unhandled(f) ==
  SubSeq(connections[At(f)].buffer, (IF f = fd THEN processed ELSE 0) + 1,
         Len(connections[At(f)].buffer))
FramesIntact ==
  \A f \in DOMAIN clients :
    LET c == clients[f]
        AllUnits(n) == Flattened([i \in 1 .. n |-> Units(i)])
    IN  HasConnection(f) /\ (\A i \in DOMAIN written[c] : Honest(written[c][i])) =>
          /\ handled[c] = [i \in DOMAIN handled[c] |-> i]
          /\ AllUnits(Len(handled[c])) \o Unhandled(f) \o wire[c] = AllUnits(Len(written[c]))

\* A sequence number is given only to an order of a client that is logged in.
OrdersNeedLogin == [][sequence' # sequence => Client \in logged_in]_gateway
=============================================================================

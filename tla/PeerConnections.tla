--------------------------- MODULE PeerConnections ---------------------------
(***************************************************************************)
(* The connections between servers: TcpServer and TcpConnection, the         *)
(* ReplicaManager that makes and remakes them, and the ProtocolHandler that   *)
(* cuts their bytes into messages.                                            *)
(*                                                                           *)
(* A stream is one TCP connection.  Each server holds a TcpConnection for its  *)
(* end, named after the stream.  Its callbacks are steps; the kernel, which    *)
(* delivers bytes, reuses descriptors and may break a stream, is the           *)
(* environment, and so are the clients that connect and leave.                *)
(***************************************************************************)
EXTENDS Framing, Integers, FiniteSets

CONSTANTS
  ServerCount,
  Null,
  Client,          (* the other end of a client's stream                *)
  Kinds,           (* the kinds of message the servers send             *)
  MaxFd,           (* descriptors are 1 .. MaxFd                        *)
  MaxStreams,      (* streams made                                      *)
  MaxClients,      (* streams made by clients                           *)
  MaxMessages,     (* messages sent                                     *)
  MaxFaults        (* broken streams, refused connects, short writes    *)
                   (* and crashes of servers                            *)

Servers == 0 .. ServerCount - 1
Streams == 1 .. MaxStreams
Fds == 1 .. MaxFd
NoFd == 0              (* no TcpConnection                               *)
ClosedFd == -1         (* socket_fd_ after close_socket                   *)

ASSUME ConnectionsAssumption ==
  /\ {ServerCount, MaxFd, MaxStreams} \subseteq Nat \ {0}
  /\ {MaxClients, MaxMessages, MaxFaults} \subseteq Nat
  /\ Kinds \subseteq MessageKinds
  /\ Null \notin Int /\ Client \notin Int

VARIABLES
  server,      (* the members of each server's TcpServer, ReplicaManager and     *)
               (* ProtocolHandler, and its requests to the loop                   *)
  up,          (* the servers that run                                            *)
  stream,      (* per stream: who connected to whom                               *)
  wire,        (* per stream and server: pieces it has still to read              *)
  backlog,     (* streams that wait to be accepted                                *)
  gone,        (* streams the network has broken or whose client has left         *)
  sent,        (* messages handed to send_to_peer, per pair                        *)
  delivered,   (* messages handed to on_message_received_, per pair                *)
  faults

vars == <<server, up, stream, wire, backlog, gone, sent, delivered, faults>>

NoPeer == [state |-> "DISCONNECTED", connection |-> Null]

NoConnection == [fd |-> NoFd, state_ |-> "UNIDENTIFIED", reading |-> FALSE, failed |-> FALSE]

(* ends[k] is the TcpConnection of stream k: its descriptor and state, whether a  *)
(* read is under way, and whether the callback of a failed write is.               *)
(* connecting[q] is the socket of an attempt to reach q, timers[q] the number of   *)
(* reconnect timers for q.                                                         *)
InitialServer ==
  [peers_by_id_        |-> [q \in Servers |-> NoPeer],
   socket_to_peer_id_  |-> [fd \in Fds |-> Null],
   connections_        |-> [fd \in Fds |-> Null],
   connection_buffers_ |-> [fd \in Fds |-> Null],
   ends                |-> [k \in Streams |-> NoConnection],
   connecting          |-> [q \in Servers |-> NoFd],
   timers              |-> [q \in Servers |-> 0]]

UsedFds(s) == {s.ends[k].fd : k \in Streams} \cup {s.connecting[q] : q \in Servers}

(* The kernel gives out the lowest free descriptor. *)
FreeFds(s) == Fds \ UsedFds(s)
NewFd(s) == Min(FreeFds(s))

-----------------------------------------------------------------------------
(* ReplicaManager *)

schedule_reconnect(s, q) == [s EXCEPT !.timers[q] = @ + 1]

(* socket fails when there is no descriptor left. *)
attempt_connection(s, q) ==
  IF s.peers_by_id_[q].state # "DISCONNECTED" THEN s
  ELSE IF FreeFds(s) = {} THEN schedule_reconnect(s, q)
  ELSE [s EXCEPT !.peers_by_id_[q].state = "CONNECTING", !.connecting[q] = NewFd(s)]

(* What attempt_connection, called in turn for the servers with lower ids, makes  *)
(* of a server that starts: the first ones get the descriptors there are.          *)
connect_to_peers(s, p) ==
  LET started == {q \in Servers : q < p /\ q + 1 \in Fds}
      waiting == {q \in Servers : q < p /\ q + 1 \notin Fds}
  IN  [s EXCEPT !.peers_by_id_ = [q \in Servers |-> IF q \in started
                                                   THEN [NoPeer EXCEPT !.state = "CONNECTING"]
                                                   ELSE NoPeer],
                !.connecting = [q \in Servers |-> IF q \in started THEN q + 1 ELSE NoFd],
                !.timers = [q \in Servers |-> IF q \in waiting THEN 1 ELSE 0]]

register_identified_peer_NotMapped(s, q, k) ==
  [s EXCEPT !.peers_by_id_[q] = [state |-> "CONNECTED", connection |-> k]]

register_identified_peer(s, q, k) ==
  [s EXCEPT !.peers_by_id_[q] = [state |-> "CONNECTED", connection |-> k],
            !.socket_to_peer_id_[s.ends[k].fd] = q]

on_disconnect_KeepsEntry(s, p, k) ==
  LET fd == s.ends[k].fd
  IN  IF fd \notin Fds \/ s.socket_to_peer_id_[fd] = Null THEN s
      ELSE LET q == s.socket_to_peer_id_[fd]
               s1 == [s EXCEPT !.peers_by_id_[q] = NoPeer]
           IN  IF p > q THEN schedule_reconnect(s1, q) ELSE s1

(* The peer is looked up by descriptor, which is -1 once the socket is closed. *)
on_disconnect(s, p, k) ==
  LET fd == s.ends[k].fd
  IN  IF fd \notin Fds \/ s.socket_to_peer_id_[fd] = Null THEN s
      ELSE LET q == s.socket_to_peer_id_[fd]
               s1 == [s EXCEPT !.peers_by_id_[q] = NoPeer, !.socket_to_peer_id_[fd] = Null]
           IN  IF p > q THEN schedule_reconnect(s1, q) ELSE s1

-----------------------------------------------------------------------------
(* TcpServer, TcpConnection and the rest of ProtocolHandler *)

NewConnection(fd) == [fd |-> fd, state_ |-> "UNIDENTIFIED", reading |-> TRUE, failed |-> FALSE]

(* handle_new_connection, and register_new_connection for an outgoing one. *)
AddConnection(s, k, fd) ==
  [s EXCEPT !.connections_[fd] = k, !.ends[k] = NewConnection(fd)]

remove_connection(s, p, k) ==
  LET fd == s.ends[k].fd
      s1 == on_disconnect(s, p, k)
  IN  IF fd \in Fds THEN [s1 EXCEPT !.connections_[fd] = Null] ELSE s1

close_socket(s, k) == [s EXCEPT !.ends[k].fd = ClosedFd]

EraseBuffer_Kept(s, fd) == s

(* ProtocolHandler::on_disconnect *)
EraseBuffer(s, fd) == IF fd \in Fds THEN [s EXCEPT !.connection_buffers_[fd] = Null] ELSE s

BufferOf(s, fd) ==
  IF s.connection_buffers_[fd] = Null THEN Empty ELSE s.connection_buffers_[fd]

(* What handle_raw_data does to the server, given what it made of the data. *)
StoreBuffer(s, k, result) ==
  LET fd == s.ends[k].fd
  IN  IF result.closed THEN close_socket(EraseBuffer(s, fd), k)
      ELSE [s EXCEPT !.connection_buffers_[fd] = result.buffer]

(* The first bytes of a connection make it a peer's or a client's. *)
Identify(s, k, state) ==
  IF s.ends[k].state_ = "UNIDENTIFIED" THEN [s EXCEPT !.ends[k].state_ = state] ELSE s

(* connections_, peers_by_id_ and requests under way keep a TcpConnection alive. *)
Referenced(s, k) ==
  \/ s.ends[k].reading \/ s.ends[k].failed
  \/ \E fd \in Fds : s.connections_[fd] = k
  \/ \E q \in Servers : s.peers_by_id_[q].connection = k

-----------------------------------------------------------------------------
Init ==
  /\ server = [p \in Servers |-> connect_to_peers(InitialServer, p)]
  /\ up = Servers
  /\ stream = << >>
  /\ wire = [k \in Streams |-> [p \in Servers |-> << >>]]
  /\ backlog = {}
  /\ gone = {}
  /\ sent = [p \in Servers |-> [q \in Servers |-> << >>]]
  /\ delivered = [p \in Servers |-> [q \in Servers |-> << >>]]
  /\ faults = 0

Fault == faults < MaxFaults /\ faults' = faults + 1

OtherEnd(p, k) == IF stream[k].from = p THEN stream[k].to ELSE stream[k].from

(* Nothing will come any more from the other end of p's stream k. *)
RemoteClosed(p, k) ==
  \/ k \in gone
  \/ /\ OtherEnd(p, k) # Client
     /\ k \notin backlog
     /\ server[OtherEnd(p, k)].ends[k].fd \notin Fds

MakeStream(from, to, pieces) ==
  LET k == Len(stream) + 1
  IN  /\ k \in Streams
      /\ stream' = Append(stream, [from |-> from, to |-> to])
      /\ backlog' = backlog \cup {k}
      /\ wire' = [wire EXCEPT ![k][to] = pieces]

-----------------------------------------------------------------------------
(* Steps of a server: completions of its requests *)

(* The outgoing connection stays UNIDENTIFIED; the handshake is its first write. *)
ConnectSucceeds(p, q) ==
  LET sock == server[p].connecting[q]
      k == Len(stream) + 1
  IN  /\ sock # NoFd /\ q \in up
      /\ MakeStream(p, q, <<Handshake(p)>>)
      /\ server' = [server EXCEPT ![p] =
           AddConnection([@ EXCEPT !.peers_by_id_[q] = [state |-> "CONNECTED", connection |-> k],
                                   !.socket_to_peer_id_[sock] = q,
                                   !.connecting[q] = NoFd], k, sock)]
      /\ UNCHANGED <<up, gone, sent, delivered, faults>>

ConnectFails(p, q) ==
  /\ server[p].connecting[q] # NoFd
  /\ (q \notin up /\ UNCHANGED faults) \/ Fault
  /\ server' = [server EXCEPT ![p] =
       schedule_reconnect([@ EXCEPT !.peers_by_id_[q].state = "DISCONNECTED",
                                    !.connecting[q] = NoFd], q)]
  /\ UNCHANGED <<up, stream, wire, backlog, gone, sent, delivered>>

(* p and q have accepted every stream between them and read all that has come. *)
Drained(p, q) ==
  \A k \in DOMAIN stream :
    {stream[k].from, stream[k].to} = {p, q} =>
      k \notin backlog /\ wire[k][p] = << >> /\ wire[k][q] = << >>

(* The reconnect timer runs for five seconds: what was sent before has been read   *)
(* by then, yet the end of a stream may still be unnoticed.                        *)
Reconnect(p, q) ==
  LET s == [server[p] EXCEPT !.timers[q] = @ - 1]
  IN  /\ server[p].timers[q] > 0
      /\ Drained(p, q)
      /\ server' = [server EXCEPT ![p] = attempt_connection(s, q)]
      /\ UNCHANGED <<up, stream, wire, backlog, gone, sent, delivered, faults>>

Accept(q, k) ==
  /\ k \in backlog /\ stream[k].to = q
  /\ FreeFds(server[q]) # {}
  /\ server' = [server EXCEPT ![q] = AddConnection(@, k, NewFd(@))]
  /\ backlog' = backlog \ {k}
  /\ UNCHANGED <<up, stream, wire, gone, sent, delivered, faults>>

CanRead(p, k) == server[p].ends[k].reading /\ server[p].ends[k].fd \in Fds

IsHandshake(s, k, data) == s.ends[k].state_ = "UNIDENTIFIED" /\ Head(data).part = "handshake"

(* The handshake's read is used up whatever follows in it.  If bytes follow, the  *)
(* first may be a digit, and the id that stoi makes of both is nobody's.           *)
ReadHandshake(p, k) ==
  /\ CanRead(p, k)
  /\ \E n \in 1 .. Len(wire[k][p]) :
       LET data == SubSeq(wire[k][p], 1, n)
           s == Identify(server[p], k, "PEER")
       IN  /\ IsHandshake(server[p], k, data)
           /\ \/ /\ server' = [server EXCEPT ![p] = register_identified_peer(s, Head(data).number, k)]
                 /\ wire' = [wire EXCEPT ![k][p] = SubSeq(@, n + 1, Len(@))]
              \/ /\ n > 1
                 /\ server' = [server EXCEPT ![p] = close_socket(s, k)]
                 /\ wire' = [wire EXCEPT ![k][p] = << >>]
  /\ UNCHANGED <<up, stream, backlog, gone, sent, delivered, faults>>

ReadMessages(p, k) ==
  /\ CanRead(p, k)
  /\ \E n \in 1 .. Len(wire[k][p]), closes \in BOOLEAN :
       LET data == SubSeq(wire[k][p], 1, n)
           s == Identify(server[p], k, "CLIENT")
           result == handle_raw_data(BufferOf(s, s.ends[k].fd), data, closes)
       IN  /\ ~ IsHandshake(server[p], k, data)
           /\ server' = [server EXCEPT ![p] = StoreBuffer(s, k, result)]
           /\ wire' = [wire EXCEPT ![k][p] = IF result.closed THEN << >> ELSE SubSeq(@, n + 1, Len(@))]
           /\ delivered' = [delivered EXCEPT ![OtherEnd(p, k)][p] = @ \o result.messages]
  /\ UNCHANGED <<up, stream, backlog, gone, sent, faults>>

(* The read ends in an error or at the end of the stream: EBADF on a socket that   *)
(* was closed, a reset that also takes what was not read, or nothing more to read. *)
ReadEnds(p, k) ==
  LET s == server[p]
  IN  /\ s.ends[k].reading
      /\ s.ends[k].fd \in Fds => RemoteClosed(p, k)
      /\ server' = [server EXCEPT ![p] =
           [remove_connection(EraseBuffer(s, s.ends[k].fd), p, k) EXCEPT !.ends[k].reading = FALSE]]
      /\ wire' = [wire EXCEPT ![k][p] = << >>]
      /\ UNCHANGED <<up, stream, backlog, gone, sent, delivered, faults>>

WriteFails(p, k) ==
  /\ server[p].ends[k].failed
  /\ server' = [server EXCEPT ![p] = [remove_connection(@, p, k) EXCEPT !.ends[k].failed = FALSE]]
  /\ UNCHANGED <<up, stream, wire, backlog, gone, sent, delivered, faults>>

(* ~TcpConnection, when the last reference has gone. *)
Destroy(p, k) ==
  /\ server[p].ends[k].fd # NoFd /\ ~ Referenced(server[p], k)
  /\ server' = [server EXCEPT ![p].ends[k] = NoConnection]
  /\ wire' = [wire EXCEPT ![k][p] = << >>]
  /\ UNCHANGED <<up, stream, backlog, gone, sent, delivered, faults>>

MessagesSent ==
  MapThenSumSet(LAMBDA pair : Len(sent[pair[1]][pair[2]]), Servers \X Servers)

(* send_to_peer and send: a message goes to the peer's connection and is dropped    *)
(* without one.  What is written to a stream the other end has left is lost.        *)
send_to_peer(p, q, kind) ==
  LET k == server[p].peers_by_id_[q].connection
      n == Len(sent[p][q]) + 1
      pieces == serialize(n, kind)
      Write(some) == wire' = [wire EXCEPT ![k][q] = IF RemoteClosed(p, k) THEN @ ELSE @ \o some]
  IN  /\ server[p].peers_by_id_[q].state = "CONNECTED" /\ k # Null
      /\ MessagesSent < MaxMessages
      /\ sent' = [sent EXCEPT ![p][q] = Append(@, pieces)]
      /\ \/ /\ server[p].ends[k].fd \in Fds
            /\ Write(pieces)
            /\ UNCHANGED <<server, faults>>
         \/ /\ server[p].ends[k].fd \in Fds /\ Len(pieces) > 1
            /\ Fault
            /\ Write(SubSeq(pieces, 1, 1))
            /\ UNCHANGED server
         \/ /\ server[p].ends[k].fd \notin Fds \/ RemoteClosed(p, k)
            /\ server' = [server EXCEPT ![p].ends[k].failed = TRUE]
            /\ UNCHANGED <<wire, faults>>
      /\ UNCHANGED <<up, stream, backlog, gone, delivered>>

-----------------------------------------------------------------------------
(* The environment *)

(* The network breaks a stream: each end may still read some of what was sent. *)
Break(k) ==
  /\ k \in DOMAIN stream /\ k \notin gone /\ stream[k].from # Client
  /\ Fault
  /\ gone' = gone \cup {k}
  /\ \E m \in 0 .. Len(wire[k][stream[k].from]), n \in 0 .. Len(wire[k][stream[k].to]) :
       wire' = [wire EXCEPT ![k][stream[k].from] = SubSeq(@, 1, m), ![k][stream[k].to] = SubSeq(@, 1, n)]
  /\ UNCHANGED <<server, up, stream, backlog, sent, delivered>>

ClientConnects(p) ==
  /\ p \in up /\ MakeStream(Client, p, << >>)
  /\ Cardinality({k \in DOMAIN stream : stream[k].from = Client}) < MaxClients
  /\ UNCHANGED <<server, up, gone, sent, delivered, faults>>

ClientLeaves(k) ==
  /\ k \in DOMAIN stream /\ k \notin gone /\ stream[k].from = Client
  /\ gone' = gone \cup {k}
  /\ UNCHANGED <<server, up, stream, wire, backlog, sent, delivered, faults>>

Crash(p) ==
  LET waiting == {k \in backlog : stream[k].to = p}
  IN  /\ p \in up /\ Fault
      /\ up' = up \ {p}
      /\ server' = [server EXCEPT ![p] = InitialServer]
      /\ backlog' = backlog \ waiting
      /\ gone' = gone \cup waiting
      /\ wire' = [k \in Streams |-> [wire[k] EXCEPT ![p] = << >>]]
      /\ UNCHANGED <<stream, sent, delivered>>

(* A server is started again after the others have read what it had sent. *)
Restart(p) ==
  /\ p \notin up /\ \A q \in Servers : Drained(p, q)
  /\ up' = up \cup {p}
  /\ server' = [server EXCEPT ![p] = connect_to_peers(InitialServer, p)]
  /\ UNCHANGED <<stream, wire, backlog, gone, sent, delivered, faults>>

-----------------------------------------------------------------------------
PeerCallback(p, q) == ConnectSucceeds(p, q) \/ ConnectFails(p, q) \/ Reconnect(p, q)

StreamCallback(p, k) ==
  \/ Accept(p, k) \/ ReadHandshake(p, k) \/ ReadMessages(p, k)
  \/ ReadEnds(p, k) \/ WriteFails(p, k) \/ Destroy(p, k)

Next ==
  \/ \E p \in Servers :
       \/ \E q \in Servers : PeerCallback(p, q)
       \/ \E k \in Streams : StreamCallback(p, k)
       \/ \E q \in Servers, kind \in Kinds : send_to_peer(p, q, kind)
       \/ ClientConnects(p) \/ Crash(p) \/ Restart(p)
  \/ \E k \in Streams : Break(k) \/ ClientLeaves(k)

Spec == Init /\ [][Next]_vars

(* The loop of a server runs the callbacks of all requests that complete, and    *)
(* whoever operates the cluster starts a dead server again.                       *)
FairSpec ==
  /\ Spec
  /\ \A p \in Servers :
       /\ WF_vars(Restart(p))
       /\ \A q \in Servers : WF_vars(PeerCallback(p, q))
       /\ \A k \in Streams : WF_vars(StreamCallback(p, k))

-----------------------------------------------------------------------------
(* Properties *)

(* Every member holds a value of its type; a buffer starts with a header only of a  *)
(* message that handle_raw_data would accept.                                      *)
TypeOK ==
  /\ server \in [Servers ->
       [peers_by_id_ : [Servers -> [state : {"DISCONNECTED", "CONNECTING", "CONNECTED"},
                                    connection : Streams \cup {Null}]],
        socket_to_peer_id_ : [Fds -> Servers \cup {Null}],
        connections_ : [Fds -> Streams \cup {Null}],
        connection_buffers_ :
          [Fds -> {Null, Empty, Garbage} \cup {Header(n, "full") : n \in 1 .. MaxMessages}],
        ends : [Streams -> [fd : Fds \cup {NoFd, ClosedFd}, reading : BOOLEAN, failed : BOOLEAN,
                            state_ : {"UNIDENTIFIED", "PEER", "CLIENT"}]],
        connecting : [Servers -> Fds \cup {NoFd}],
        timers : [Servers -> Nat]]]
  /\ up \subseteq Servers
  /\ stream \in Seq([from : Servers \cup {Client}, to : Servers])
  /\ wire \in [Streams -> [Servers -> Seq(Piece)]]
  /\ backlog \subseteq Streams /\ gone \subseteq Streams
  /\ faults \in 0 .. MaxFaults

(* Bytes are buffered only for a descriptor that an open connection owns and reads  *)
(* from: every way to close a descriptor has erased its buffer before the kernel    *)
(* can give it to another connection.                                              *)
FreshBuffer ==
  \A p \in Servers, fd \in Fds :
    server[p].connection_buffers_[fd] # Null =>
      \E k \in Streams : server[p].ends[k].fd = fd /\ server[p].ends[k].reading

(* A server that has to make the connection to a peer has one reconnect timer or one *)
(* attempt under way while it has no connection, and none while it has: a read and   *)
(* several writes that fail together start one timer.                               *)
OneAttempt ==
  \A p \in up : \A q \in {r \in Servers : r < p} :
    LET s == server[p]
    IN  CASE s.peers_by_id_[q].state = "DISCONNECTED" -> s.timers[q] = 1 /\ s.connecting[q] = NoFd
          [] s.peers_by_id_[q].state = "CONNECTING" -> s.timers[q] = 0 /\ s.connecting[q] # NoFd
          [] s.peers_by_id_[q].state = "CONNECTED" -> s.timers[q] = 0 /\ s.connecting[q] = NoFd

(* A server that would send to a peer over an open connection will notice the end of *)
(* it: the descriptor is still known as that peer's, whatever other connections had   *)
(* that descriptor before.                                                          *)
EndIsNoticed ==
  \A p, q \in Servers :
    LET k == server[p].peers_by_id_[q].connection
    IN  k # Null /\ server[p].ends[k].fd \in Fds =>
          /\ server[p].socket_to_peer_id_[server[p].ends[k].fd] = q
          /\ server[p].ends[k].reading

(* p and q can send to each other. *)
Connected(p, q) ==
  LET k == server[p].peers_by_id_[q].connection
  IN  /\ k # Null /\ k = server[q].peers_by_id_[p].connection
      /\ server[p].ends[k].fd \in Fds /\ server[q].ends[k].fd \in Fds

(* Two servers that have lost their connection get it back once faults stop. *)
Reconnects == \A p \in Servers : \A q \in {r \in Servers : r < p} : <>[]Connected(p, q)
=============================================================================
